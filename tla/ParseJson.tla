------------------------------ MODULE ParseJson ------------------------------
(***************************************************************************)
(* cgltf_parse_json of src/libs/cgltf/cgltf.h around its tokens: count,    *)
(* allocate, fill, put an UNDEFINED token behind the last one, and walk.   *)
(*                                                                         *)
(* The walk is that of the forty cgltf_parse_json_* functions, all written *)
(* in the same few shapes: read so many keys of an object, call something  *)
(* that reads the value of this key, read so many elements of an array.    *)
(* What they store is module Ownership; here they only move i over the     *)
(* tokens.  They trust sizes that jsmn counted, step over some values      *)
(* without looking at them, and check no upper bound.                      *)
(*                                                                         *)
(* frames is the stack of their loops, the innermost last.  A frame says   *)
(* how many keys or values are left and which token they belong to; the    *)
(* value of a key is a loop of one.                                        *)
(***************************************************************************)
EXTENDS Jsmn

CONSTANT Given      \* the json_token_count options may hold; 0 is none

ASSUME GivenAssumption == Given \subseteq Nat

VARIABLES
    given,          \* options->json_token_count as the caller set it
    capacity,       \* the length of the array that holds the tokens
    i,              \* where the walk is
    frames,         \* the loops it is in
    json,           \* history: the text is JSON
    strayed,        \* history: a value that has parts was read as a scalar
    result          \* what cgltf_parse_json returns

walkVars == <<i, frames, json, strayed>>
parseVars == <<jsmnVars, given, capacity, walkVars, result>>

ParseInit ==
    /\ js \in Texts /\ given \in Given
    /\ pos = 0 /\ toknext = 0 /\ toksuper = 0 /\ count = 0
    /\ tokens = << >> /\ num_tokens = given /\ token = 0
    /\ phase = (IF given = 0 THEN "count" ELSE "allocate")
    /\ error = "none" /\ capacity = 0
    /\ i = 0 /\ frames = << >> /\ json = IsJson(js) /\ strayed = FALSE
    /\ result = "none"

Return(r) ==
    /\ phase' = "done" /\ result' = r
    /\ UNCHANGED <<js, pos, toknext, toksuper, tokens, num_tokens, count, token, error,
                   given, capacity, walkVars>>

(***************************************************************************)
(* The two passes.                                                         *)
(***************************************************************************)
Count == CountLexeme /\ UNCHANGED <<given, capacity, walkVars, result>>

\* A mutant: one token is forgotten.
CountedTooFew ==
    /\ phase = "count" /\ AtEnd
    /\ IF count <= 0
         THEN Return("invalid_json")
         ELSE /\ num_tokens' = count - 1 /\ phase' = "allocate"
              /\ UNCHANGED <<js, pos, toknext, toksuper, tokens, count, token, error,
                             given, capacity, walkVars, result>>

Counted ==
    /\ phase = "count" /\ AtEnd
    /\ IF count <= 0
         THEN Return("invalid_json")
         ELSE /\ num_tokens' = count /\ phase' = "allocate"
              /\ UNCHANGED <<js, pos, toknext, toksuper, tokens, count, token, error,
                             given, capacity, walkVars, result>>

CountFails == phase = "count" /\ Sees({"bad"}) /\ Return("invalid_json")

AllocateTokens ==
    /\ phase = "allocate"
    /\ \/ /\ jsmn_init /\ count' = 0
          /\ capacity' = num_tokens + 1 /\ phase' = "fill"
          /\ UNCHANGED <<js, tokens, num_tokens, token, error, given, walkVars, result>>
       \/ Return("out_of_memory")

FillTokens == Fill /\ UNCHANGED <<given, capacity, walkVars, result>>

FillFailed == phase = "failed" /\ Return("invalid_json")

\* The token behind the last one, whose type is all that is read of it.
UNDEFINED == [type |-> "UNDEFINED", start |-> -1, end |-> -1, size |-> 0, parent |-> -1]

Filled ==
    /\ phase = "fill" /\ AtEnd /\ ~Unclosed
    /\ IF count <= 0
         THEN Return("invalid_json")
         ELSE /\ phase' = "root"
              /\ tokens' = [k \in 0 .. count |-> IF k = count THEN UNDEFINED ELSE tokens[k]]
              /\ UNCHANGED <<js, pos, toknext, toksuper, num_tokens, count, token, error,
                             given, capacity, walkVars, result>>

(***************************************************************************)
(* The walk.                                                               *)
(***************************************************************************)
At == tokens[i]

Top == frames[Len(frames)]
InLoop(kinds) == /\ phase = "walk" /\ frames # << >> /\ Top.kind \in kinds /\ Top.left > 0

\* The loops after one round of the innermost: one less is left of it.
NextRound == [frames EXCEPT ![Len(frames)].left = @ - 1]

Loop(kind, left) == [kind |-> kind, left |-> left, of |-> i]

Walk(where, loops) ==
    /\ i' = where /\ frames' = loops
    /\ UNCHANGED <<jsmnVars, given, capacity, json, strayed, result>>

\* CGLTF_CHECK_TOKTYPE and CGLTF_CHECK_KEY: on anything else the parse fails.
Unless(condition) == ~condition /\ Return("invalid_gltf")

\* cgltf_data is allocated; cgltf_parse_json_root starts at token 0.
Root ==
    /\ phase = "root"
    /\ \/ Return("out_of_memory")
       \/ Unless(At.type = "OBJECT")
       \/ /\ At.type = "OBJECT"
          /\ phase' = "walk" /\ i' = 1
          /\ frames' = <<Loop("keys", At.size)>>
          /\ UNCHANGED <<js, pos, toknext, toksuper, tokens, num_tokens, count, token,
                         error, given, capacity, json, strayed, result>>

\* A mutant: a string is taken for a key whether a value follows it or not.
KeyOfAnyString ==
    /\ InLoop({"keys"})
    /\ \/ Unless(At.type = "STRING")
       \/ /\ At.type = "STRING"
          /\ Walk(i + 1, Append(NextRound, Loop("value", 1)))

\* CGLTF_CHECK_KEY, and the value comes next.
Key ==
    /\ InLoop({"keys"})
    /\ \/ Unless(At.type = "STRING" /\ At.size # 0)
       \/ /\ At.type = "STRING" /\ At.size # 0
          /\ Walk(i + 1, Append(NextRound, Loop("value", 1)))

\* A function that reads an object.
Object ==
    /\ InLoop({"value", "values"})
    /\ \/ Unless(At.type = "OBJECT")
       \/ At.type = "OBJECT" /\ Walk(i + 1, Append(NextRound, Loop("keys", At.size)))

\* cgltf_parse_json_array and the loop over its elements: with a function that
\* checks each one, or with cgltf_json_to_int and the like, which do not.
Array ==
    /\ InLoop({"value"})
    /\ \/ Unless(At.type = "ARRAY")
       \/ /\ At.type = "ARRAY"
          /\ \E kind \in {"values", "scalars"} :
                Walk(i + 1, Append(NextRound, Loop(kind, At.size)))

\* cgltf_parse_json_string, or an element of cgltf_parse_json_float_array.
CheckedScalar ==
    /\ InLoop({"value", "values"})
    /\ \E type \in {"STRING", "PRIMITIVE"} :
          \/ Unless(At.type = type)
          \/ At.type = type /\ Walk(i + 1, NextRound)

\* cgltf_json_to_int(tokens + i), or to_size, to_float, to_bool or strcmp: a
\* token of another type gives a default, and i moves on by one all the same.
Scalar ==
    /\ InLoop({"value", "scalars"})
    /\ i' = i + 1 /\ frames' = NextRound
    /\ strayed' = (strayed \/ At.size > 0)
    /\ UNCHANGED <<jsmnVars, given, capacity, json, result>>

\* The value of an unknown key, extras or an unprocessed extension: cgltf_skip_json,
\* whose loop ends where left, the distance from i to end, is 0.
Skip == InLoop({"value"}) /\ Walk(i, Append(NextRound, Loop("skip", 1)))

\* A mutant: an object counts for its keys and not their values.
SkipKeys ==
    /\ InLoop({"skip"})
    /\ \/ Unless(At.type # "UNDEFINED")
       \/ /\ At.type # "UNDEFINED"
          /\ Walk(i + 1, [frames EXCEPT ![Len(frames)].left =
                @ - 1 + IF At.type \in Containers THEN At.size ELSE 0])

\* One round of cgltf_skip_json: every key of an object has a value.
SkipToken ==
    /\ InLoop({"skip"})
    /\ \/ Unless(At.type # "UNDEFINED")
       \/ /\ At.type # "UNDEFINED"
          /\ Walk(i + 1, [frames EXCEPT ![Len(frames)].left =
                @ - 1 + CASE At.type = "OBJECT" -> At.size * 2
                          [] At.type = "ARRAY"  -> At.size
                          [] OTHER              -> 0])

LoopEnds ==
    /\ phase = "walk" /\ frames # << >> /\ Top.left = 0
    /\ Walk(i, SubSeq(frames, 1, Len(frames) - 1))

\* Anything else a function may find wrong, and its allocations.
GiveUp ==
    /\ phase = "walk"
    /\ \E r \in {"invalid_gltf", "legacy_gltf", "out_of_memory"} : Return(r)

\* The root's loop has ended. (The fixup can still refuse: module NodeGraph.)
WalkEnds == phase = "walk" /\ frames = << >> /\ Return("success")

-----------------------------------------------------------------------------
ParseNext ==
    \/ Count \/ Counted \/ CountFails \/ AllocateTokens
    \/ FillTokens \/ FillFailed \/ Filled
    \/ Root \/ Key \/ Object \/ Array \/ CheckedScalar \/ Scalar
    \/ Skip \/ SkipToken \/ LoopEnds \/ GiveUp \/ WalkEnds

ParseSpec == ParseInit /\ [][ParseNext]_parseVars /\ WF_parseVars(ParseNext)
-----------------------------------------------------------------------------
TokenType == {"OBJECT", "ARRAY", "STRING", "PRIMITIVE", "UNDEFINED"}

Tokens == [type : TokenType, start : Int, end : Int, size : Nat, parent : Int]

Loops == [kind : {"keys", "value", "values", "scalars", "skip"}, left : Nat, of : Nat]

\* The types, and that the links of the tokens are a forest: every parent, and
\* the token new ones go under, is an earlier token.
TypeOK ==
    /\ js \in Seq(Lexemes \union {"bad"}) /\ pos \in 0 .. Len(js)
    /\ toknext \in Nat /\ num_tokens \in Nat /\ count \in Nat /\ capacity \in Nat
    /\ toksuper \in Int /\ token \in Nat /\ given \in Given
    /\ DOMAIN tokens \subseteq 0 .. toknext
    /\ \A k \in DOMAIN tokens : tokens[k] \in Tokens /\ tokens[k].parent \in -1 .. k - 1
    /\ phase \in {"fill", "close"} => toksuper \in -1 .. toknext - 1
    /\ phase \in {"count", "allocate", "fill", "close", "failed", "root", "walk", "done"}
    /\ error \in {"none", "NOMEM", "INVAL", "PART"}
    /\ i \in Nat /\ frames \in Seq(Loops) /\ json \in BOOLEAN /\ strayed \in BOOLEAN
    /\ result \in {"none", "success", "invalid_json", "out_of_memory", "invalid_gltf",
                   "legacy_gltf"}

\* The filling pass meets the tokens the counting pass counted: it never runs
\* out of tokens, and when it succeeds it has used all of them.  (With a
\* json_token_count of the caller's it may run out, and may use fewer.)
PassesAgree ==
    given = 0 =>
        /\ error # "NOMEM"
        /\ phase \in {"root", "walk"} => toknext = num_tokens /\ count = num_tokens

\* "this makes sure we don't perform out of bound reads of token data"
\* (cgltf.h:6577): no token is written outside of the array, and wherever the walk
\* gets to, on text that is JSON or not, it looks at a token that is there; where
\* it does not check the type first, at one that jsmn has filled.
WalkStaysInside ==
    /\ \A k \in DOMAIN tokens : k < capacity
    /\ phase \in {"root", "walk"} => i \in DOMAIN tokens
    /\ InLoop({"value", "scalars"}) => At.type # "UNDEFINED"

\* JSON is accepted, and on it the walk is never out of step, whatever functions
\* it calls and however deep it skips: the next key or value to be read belongs
\* to the loop that reads it, and when the root has been read nothing is left.
\* The exception is what the code does when it reads an object or array as a
\* scalar (strayed): from there it takes the inside for what follows.
JsonIsWalkedInStep ==
    json =>
        /\ given = 0 => error = "none"
        /\ phase = "walk" /\ ~strayed =>
              /\ frames # << >> /\ Top.kind # "skip" /\ Top.left > 0 => At.parent = Top.of
              /\ frames = << >> => At.type = "UNDEFINED"

\* Both passes, the search for a bracket and the walk end.
ParseReturns == <>(phase = "done")
=============================================================================
