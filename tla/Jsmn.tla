-------------------------------- MODULE Jsmn --------------------------------
(***************************************************************************)
(* jsmn, the JSON tokenizer inside src/libs/cgltf/cgltf.h, as cgltf        *)
(* compiles it: JSMN_STRICT and JSMN_PARENT_LINKS.  It is no parser: it    *)
(* accepts much that is not JSON, and leaves a flat array of tokens that   *)
(* know how many tokens name them as their parent (size).                  *)
(*                                                                         *)
(* cgltf runs it twice over one text.  The first pass has no tokens, only  *)
(* counts, and looks at no bracket; the second fills an array of that many *)
(* tokens.  A lexeme here is a bracket, a colon, a comma, a whole string   *)
(* or a primitive with the separator that must follow it, and "bad" what   *)
(* both passes refuse alike: a string or primitive that is cut short or    *)
(* holds a character it must not, and any other character.  Whitespace is  *)
(* left out.  Positions count lexemes.                                     *)
(***************************************************************************)
EXTENDS JsonText, Integers, FiniteSets

CONSTANT Texts      \* the texts a document may be

ASSUME TextsAssumption == \A t \in Texts : t \in Seq(Lexemes \union {"bad"})

VARIABLES
    js,             \* the text
    pos,            \* parser.pos: lexemes read
    toknext,        \* parser.toknext: tokens handed out
    toksuper,       \* parser.toksuper: the token that new tokens get as parent
    tokens,         \* the tokens filled so far, from 0
    num_tokens,     \* how many the caller allows
    count,          \* what jsmn_parse returns if nothing fails
    token,          \* the cursor of the search for an opening bracket
    phase,          \* where cgltf_parse_json is
    error           \* the error jsmn_parse returned

jsmnVars == <<js, pos, toknext, toksuper, tokens, num_tokens, count, token, phase, error>>

Starts == {"{", "[", "string", "primitive"}     \* the lexemes that become a token

TypeOf(lexeme) ==
    CASE lexeme \in {"{", "}"} -> "OBJECT"
      [] lexeme \in {"[", "]"} -> "ARRAY"
      [] lexeme = "string"     -> "STRING"
      [] lexeme = "primitive"  -> "PRIMITIVE"

Containers == {"OBJECT", "ARRAY"}

AtEnd  == pos = Len(js)
Lexeme == js[pos + 1]
Sees(lexemes) == ~AtEnd /\ Lexeme \in lexemes

(***************************************************************************)
(* The counting pass: tokens is NULL, so nothing is allocated and toknext  *)
(* stays 0; a colon sets toksuper to -1, and no one reads it.              *)
(***************************************************************************)
CountLexeme ==
    /\ phase = "count" /\ ~AtEnd /\ Lexeme # "bad"
    /\ pos' = pos + 1
    /\ count' = IF Lexeme \in Starts THEN count + 1 ELSE count
    /\ toksuper' = IF Lexeme = ":" THEN toknext - 1 ELSE toksuper
    /\ UNCHANGED <<js, toknext, tokens, num_tokens, token, phase, error>>

(***************************************************************************)
(* The filling pass.                                                       *)
(***************************************************************************)
jsmn_init == pos' = 0 /\ toknext' = 0 /\ toksuper' = -1

Stop(e) ==
    /\ phase' = "failed" /\ error' = e
    /\ UNCHANGED <<js, pos, toknext, toksuper, tokens, num_tokens, count, token>>

\* jsmn_alloc_token and jsmn_fill_token, with what every caller does next: the
\* new token's parent is toksuper, whose size counts it.
jsmn_alloc_token(end, super) ==
    IF toknext >= num_tokens
      THEN Stop("NOMEM")
      ELSE /\ tokens' = [k \in 0 .. toknext |->
                IF k = toknext
                  THEN [type |-> TypeOf(Lexeme), start |-> pos, end |-> end,
                        size |-> 0, parent |-> toksuper]
                  ELSE IF k = toksuper THEN [tokens[k] EXCEPT !.size = @ + 1] ELSE tokens[k]]
           /\ toknext' = toknext + 1 /\ count' = count + 1 /\ pos' = pos + 1
           /\ toksuper' = super
           /\ UNCHANGED <<js, num_tokens, token, phase, error>>

\* The end of a bracket is not known yet: -1.
OpenBracket ==
    /\ phase = "fill" /\ Sees({"{", "["})
    /\ jsmn_alloc_token(-1, toknext)

String ==
    /\ phase = "fill" /\ Sees({"string"})
    /\ jsmn_alloc_token(pos + 1, toksuper)

\* A primitive is no key: not directly in an object, and no second value of a key.
IsKeyPosition ==
    /\ toksuper # -1
    /\ \/ tokens[toksuper].type = "OBJECT"
       \/ tokens[toksuper].type = "STRING" /\ tokens[toksuper].size # 0

Primitive ==
    /\ phase = "fill" /\ Sees({"primitive"})
    /\ IF IsKeyPosition THEN Stop("INVAL") ELSE jsmn_alloc_token(pos + 1, toksuper)

\* A mutant: the next token, not the last one, becomes the parent.
ColonNext ==
    /\ phase = "fill" /\ Sees({":"})
    /\ toksuper' = toknext /\ pos' = pos + 1
    /\ UNCHANGED <<js, toknext, tokens, num_tokens, count, token, phase, error>>

Colon ==
    /\ phase = "fill" /\ Sees({":"})
    /\ toksuper' = toknext - 1 /\ pos' = pos + 1
    /\ UNCHANGED <<js, toknext, tokens, num_tokens, count, token, phase, error>>

\* A comma ends the value of a key: new tokens belong to the key's parent again.
Comma ==
    /\ phase = "fill" /\ Sees({","})
    /\ toksuper' = IF toksuper # -1 /\ tokens[toksuper].type \notin Containers
                     THEN tokens[toksuper].parent ELSE toksuper
    /\ pos' = pos + 1
    /\ UNCHANGED <<js, toknext, tokens, num_tokens, count, token, phase, error>>

\* A closing bracket: find what it closes, from the last token up.
CloseBracket ==
    /\ phase = "fill" /\ Sees({"}", "]"})
    /\ IF toknext < 1
         THEN Stop("INVAL")
         ELSE /\ token' = toknext - 1 /\ phase' = "close"
              /\ UNCHANGED <<js, pos, toknext, toksuper, tokens, num_tokens, count, error>>

\* It is open: close it.
CloseOpen ==
    /\ phase = "close" /\ tokens[token].end = -1
    /\ IF tokens[token].type # TypeOf(Lexeme)
         THEN Stop("INVAL")
         ELSE /\ tokens' = [tokens EXCEPT ![token].end = pos + 1]
              /\ toksuper' = tokens[token].parent
              /\ pos' = pos + 1 /\ phase' = "fill"
              /\ UNCHANGED <<js, toknext, num_tokens, count, token, error>>

\* It is closed and nothing is above it: an error, unless the types agree and a
\* colon has made some token the parent; then the bracket is passed over.
CloseNothing ==
    /\ phase = "close" /\ tokens[token].end # -1 /\ tokens[token].parent = -1
    /\ IF tokens[token].type # TypeOf(Lexeme) \/ toksuper = -1
         THEN Stop("INVAL")
         ELSE /\ pos' = pos + 1 /\ phase' = "fill"
              /\ UNCHANGED <<js, toknext, toksuper, tokens, num_tokens, count, token, error>>

\* A mutant: the search starts over.
CloseFromLast ==
    /\ phase = "close" /\ tokens[token].end # -1 /\ tokens[token].parent # -1
    /\ token' = toknext - 1
    /\ UNCHANGED <<js, pos, toknext, toksuper, tokens, num_tokens, count, phase, error>>

CloseParent ==
    /\ phase = "close" /\ tokens[token].end # -1 /\ tokens[token].parent # -1
    /\ token' = tokens[token].parent
    /\ UNCHANGED <<js, pos, toknext, toksuper, tokens, num_tokens, count, phase, error>>

\* Strings and primitives that cannot be scanned, and characters of no lexeme.
Bad ==
    /\ phase = "fill" /\ Sees({"bad"})
    /\ \E e \in {"INVAL", "PART"} : Stop(e)

\* The text has ended while a bracket is open.
Unclosed == AtEnd /\ \E k \in 0 .. toknext - 1 : tokens[k].end = -1

FillUnclosed == phase = "fill" /\ Unclosed /\ Stop("PART")

Fill ==
    \/ OpenBracket \/ String \/ Primitive \/ Colon \/ Comma
    \/ CloseBracket \/ CloseOpen \/ CloseNothing \/ CloseParent
    \/ Bad \/ FillUnclosed
=============================================================================
