------------------------------ MODULE JsonText ------------------------------
(***************************************************************************)
(* What JSON text is (RFC 8259), lexeme by lexeme: the reference that the  *)
(* tokenizer and the writer are compared with, not a part of either.  A    *)
(* pushdown automaton reads the text; open holds the brackets that are not *)
(* closed yet, expect what may come next.                                  *)
(***************************************************************************)
EXTENDS Integers, Sequences, SequencesExt

Lexemes == {"{", "}", "[", "]", ":", ",", "string", "primitive"}

StartOfText == [open |-> << >>, expect |-> "value"]
Malformed   == [open |-> << >>, expect |-> "error"]

\* A value has been read; around it, open is what is left.
AfterValue(open) ==
    [open |-> open, expect |-> IF open = << >> THEN "end" ELSE "separator"]

EndOfText == AfterValue(<< >>)

Closes(open) == IF Last(open) = "{" THEN "}" ELSE "]"

Allowed(text) ==
    CASE text.expect = "value"     -> {"{", "[", "string", "primitive"}
      [] text.expect = "element"   -> {"{", "[", "string", "primitive", "]"}
      [] text.expect = "key"       -> {"string"}
      [] text.expect = "member"    -> {"string", "}"}
      [] text.expect = "colon"     -> {":"}
      [] text.expect = "separator" -> {",", Closes(text.open)}
      [] OTHER                     -> {}

Read(text, lexeme) ==
    IF lexeme \notin Allowed(text) THEN Malformed
    ELSE CASE lexeme = "{" -> [open |-> Append(text.open, "{"), expect |-> "member"]
           [] lexeme = "[" -> [open |-> Append(text.open, "["), expect |-> "element"]
           [] lexeme \in {"}", "]"} -> AfterValue(Front(text.open))
           [] lexeme = ":" -> [text EXCEPT !.expect = "value"]
           [] lexeme = "," ->
                [text EXCEPT !.expect = IF Last(text.open) = "{" THEN "key" ELSE "value"]
           [] lexeme = "string" /\ text.expect \in {"key", "member"} ->
                [text EXCEPT !.expect = "colon"]
           [] OTHER -> AfterValue(text.open)

\* The text after each of the lexemes; the last is what they make of it.
ReadAll(text, lexemes) ==
    LET after[n \in 0 .. Len(lexemes)] ==
            IF n = 0 THEN text ELSE Read(after[n - 1], lexemes[n])
    IN  after[Len(lexemes)]

IsJson(lexemes) == ReadAll(StartOfText, lexemes) = EndOfText
=============================================================================
