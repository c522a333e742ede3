----------------------------- MODULE MCParseJson -----------------------------
(***************************************************************************)
(* ParseJson on every short JSON object, and on every text that is one     *)
(* lexeme away from one.                                                   *)
(***************************************************************************)
EXTENDS ParseJson

CONSTANT MaxLexemes     \* bound: the length of the JSON the texts are near to

\* JSON of length Len(shorter) + 1, from that of all smaller lengths: values, the
\* elements of an array, one member of an object and lists of them.
Longer(shorter, n) ==
    LET Lists(one, list) ==         \* list, comma, one
            UNION {{a \o <<",">> \o b : a \in shorter[k][list], b \in shorter[n - k - 1][one]} :
                       k \in 1 .. n - 2}
        value == (IF n = 1 THEN {<<"string">>, <<"primitive">>} ELSE {})
                   \union (IF n = 2 THEN {<<"{", "}">>, <<"[", "]">>} ELSE {})
                   \union (IF n < 3 THEN {}
                           ELSE {<<"{">> \o m \o <<"}">> : m \in shorter[n - 2].members}
                                  \union {<<"[">> \o e \o <<"]">> : e \in shorter[n - 2].elements})
        member == IF n < 3 THEN {} ELSE {<<"string", ":">> \o v : v \in shorter[n - 2].value}
    IN  [value    |-> value,
         elements |-> value \union Lists("value", "elements"),
         member   |-> member,
         members  |-> member \union Lists("member", "members")]

JSON == FoldLeft(LAMBDA shorter, n : Append(shorter, Longer(shorter, n)),
                 << >>, [n \in 1 .. MaxLexemes |-> n])

Objects == {t \in UNION {JSON[n].value : n \in DOMAIN JSON} : Head(t) = "{"}

Wrong == Lexemes \union {"bad"}

\* A text with one lexeme left out, replaced, or put in.
Near(t) ==
    {RemoveAt(t, k) : k \in DOMAIN t}
      \union {[t EXCEPT ![k] = l] : k \in DOMAIN t, l \in Wrong}
      \union {InsertAt(t, k, l) : k \in 1 .. Len(t) + 1, l \in Wrong}

MCTexts == Objects \union UNION {Near(t) : t \in Objects}
=============================================================================
