---------------------------- MODULE ParseJsonProofs ----------------------------
(***************************************************************************)
(* For any texts and any json_token_count: that the filling pass needs the *)
(* tokens the counting pass has counted, that the tokens it leaves are a   *)
(* forest, and that the walk never looks behind them.                      *)
(*                                                                         *)
(* The first rests on both passes having met as many starts of tokens as   *)
(* there are before pos.  The last rests on sizes: a token's children come *)
(* behind it, so a size is at most what is left of the array there, and a  *)
(* key with a size has a value.                                            *)
(*                                                                         *)
(* Then, for texts that are JSON: that the filling pass accepts them, and  *)
(* that the walk is in step with them.  The place of the text (module      *)
(* JsonText) says which brackets are open and what may be next; the tokens *)
(* filled so far are a tree, those without an end are the brackets of that *)
(* place, innermost last, and toksuper is where that place wants it.  So a *)
(* closing bracket finds its own, and nothing is refused.  From then on    *)
(* the tree stays, and what a loop has left is how many children of its    *)
(* token are not read yet; a skip has left what it has counted and not met *)
(* yet, which is all below its value when it began.                        *)
(***************************************************************************)
EXTENDS ParseJson, TLAPS, FiniteSetTheorems, SequenceTheorems, WellFoundedInduction

Letters == Lexemes \union {"bad"}

(* The tokens that the first n lexemes start.                              *)
Starting(text, n) == Cardinality({p \in 1 .. n : text[p] \in Starts})

(* What the children of a token may take up.                               *)
SizesFit ==
    \A k \in DOMAIN tokens :
        k < count => tokens[k].type # "UNDEFINED" /\ tokens[k].size <= count - 1 - k

InArray == \A k \in DOMAIN tokens : k < capacity

Filling ==
    /\ phase \in {"count", "allocate"} => tokens = << >>
    /\ phase \in {"fill", "close"} =>
          /\ DOMAIN tokens = 0 .. toknext - 1
          /\ count = toknext /\ toknext <= num_tokens /\ capacity = num_tokens + 1
    /\ phase = "close" => token \in 0 .. toknext - 1 /\ Sees({"}", "]"})

(* The loops of a walk that is at a token: what is read without a look at  *)
(* the type is in front of the last token, n.                              *)
StaysBelow(loops, at, n) ==
    \A f \in 1 .. Len(loops) :
        loops[f].kind \in {"value", "scalars"} /\ loops[f].left > 0 =>
            /\ f = Len(loops) /\ at + loops[f].left <= n
            /\ loops[f].kind = "value" => loops[f].left = 1

Walking ==
    /\ phase \in {"root", "walk"} =>
          /\ count > 0 /\ DOMAIN tokens = 0 .. count /\ tokens[count].type = "UNDEFINED"
          /\ i <= count
    /\ phase \in {"count", "allocate", "fill", "close", "root"} => i = 0
    /\ phase = "walk" => StaysBelow(frames, i, count)

Counting ==
    /\ phase = "count" => given = 0 /\ count = Starting(js, pos)
    /\ given = 0 /\ phase \notin {"count", "done"} => num_tokens = Starting(js, Len(js))
    /\ phase \in {"fill", "close"} => toknext = Starting(js, pos)

IInv ==
    TypeOK /\ SizesFit /\ InArray /\ Filling /\ Walking /\ Counting /\ PassesAgree

--------------------------------------------------------------------------------
(* Counting.                                                               *)

LEMMA StartingIsFinite ==
  ASSUME NEW text, NEW n \in Nat
  PROVE  IsFiniteSet({p \in 1 .. n : text[p] \in Starts})
<1>1. IsFiniteSet(1 .. n)
  BY FS_Interval
<1> QED
  BY <1>1, FS_Subset

LEMMA StartingType ==
  ASSUME NEW text, NEW n \in Nat
  PROVE  Starting(text, n) \in Nat
  BY StartingIsFinite, FS_CardinalityType DEF Starting

LEMMA StartingNone ==
  ASSUME NEW text
  PROVE  Starting(text, 0) = 0
<1>1. {p \in 1 .. 0 : text[p] \in Starts} = {}
  OBVIOUS
<1> QED
  BY <1>1, FS_EmptySet DEF Starting

(* One more lexeme is one more token if it starts one.                     *)
LEMMA StartingNext ==
  ASSUME NEW text, NEW n \in Nat
  PROVE  Starting(text, n + 1) = Starting(text, n) + (IF text[n + 1] \in Starts THEN 1 ELSE 0)
<1> DEFINE S(m) == {p \in 1 .. m : text[p] \in Starts}
<1>1. IsFiniteSet(S(n)) /\ n + 1 \notin S(n)
  BY StartingIsFinite
<1>2. CASE text[n + 1] \in Starts
  <2>1. S(n + 1) = S(n) \cup {n + 1}
    BY <1>2
  <2> HIDE DEF S
  <2>2. Cardinality(S(n + 1)) = Cardinality(S(n)) + 1
    BY <1>1, <2>1, FS_AddElement
  <2> QED
    BY <1>2, <2>2 DEF S, Starting
<1>3. CASE text[n + 1] \notin Starts
  <2>1. S(n + 1) = S(n)
    BY <1>3
  <2> HIDE DEF S
  <2> QED
    BY <1>3, <2>1, StartingType DEF S, Starting
<1> QED
  BY <1>2, <1>3

LEMMA StartingGrows ==
  ASSUME NEW text, NEW n \in Nat, NEW m \in Nat, n <= m
  PROVE  Starting(text, n) <= Starting(text, m)
<1>1. {p \in 1 .. n : text[p] \in Starts} \subseteq {p \in 1 .. m : text[p] \in Starts}
  OBVIOUS
<1> QED
  BY <1>1, StartingIsFinite, FS_Subset DEF Starting

--------------------------------------------------------------------------------
(* Loops.                                                                  *)

(* The loops after a round, of which left is left.                         *)
Round(loops, left) == [loops EXCEPT ![Len(loops)].left = left]

LEMMA RoundIs ==
  ASSUME NEW loops \in Seq(Loops), loops # << >>, NEW left \in Nat
  PROVE  /\ Round(loops, left) \in Seq(Loops)
         /\ Len(Round(loops, left)) = Len(loops)
         /\ Len(loops) \in Nat \ {0}
         /\ \A f \in 1 .. Len(loops) :
               /\ f # Len(loops) => Round(loops, left)[f] = loops[f]
               /\ Round(loops, left)[f].kind = loops[f].kind
         /\ Round(loops, left)[Len(loops)].left = left
<1>1. Len(loops) \in Nat \ {0} /\ DOMAIN loops = 1 .. Len(loops)
  BY EmptySeq
<1>2. loops[Len(loops)] \in Loops
  BY <1>1
<1>3. [loops[Len(loops)] EXCEPT !.left = left] \in Loops
  BY <1>2 DEF Loops
<1>4. /\ [loops[Len(loops)] EXCEPT !.left = left].kind = loops[Len(loops)].kind
      /\ [loops[Len(loops)] EXCEPT !.left = left].left = left
  BY <1>2 DEF Loops
<1> DEFINE last == [loops[Len(loops)] EXCEPT !.left = left]
<1>5. Round(loops, left) = [loops EXCEPT ![Len(loops)] = last]
  BY DEF Round
<1> HIDE DEF last
<1>6. [loops EXCEPT ![Len(loops)] = last] \in Seq(Loops)
  BY <1>1, <1>3, ExceptSeq DEF last
<1>7. Len([loops EXCEPT ![Len(loops)] = last]) = Len(loops)
  BY <1>1, <1>3, ExceptSeq DEF last
<1> QED
  BY <1>1, <1>4, <1>5, <1>6, <1>7 DEF last

LEMMA RoundStays ==
  ASSUME NEW loops \in Seq(Loops), loops # << >>, NEW left \in Nat,
         NEW at \in Nat, NEW there \in Nat, NEW n \in Nat,
         StaysBelow(loops, at, n),
         loops[Len(loops)].kind \in {"value", "scalars"} /\ left > 0 =>
             there + left <= n /\ loops[Len(loops)].kind # "value"
  PROVE  StaysBelow(Round(loops, left), there, n)
  BY RoundIs DEF StaysBelow, Loops

(* A loop that is entered from another, which has had its round.           *)
LEMMA PushStays ==
  ASSUME NEW loops \in Seq(Loops), loops # << >>, NEW left \in Nat,
         NEW at \in Nat, NEW there \in Nat, NEW n \in Nat,
         StaysBelow(loops, at, n), NEW inner \in Loops,
         loops[Len(loops)].kind = "value" => left = 0,
         loops[Len(loops)].kind # "scalars",
         inner.kind \in {"value", "scalars"} =>
             there + inner.left <= n /\ (inner.kind = "value" => inner.left = 1)
  PROVE  /\ Append(Round(loops, left), inner) \in Seq(Loops)
         /\ StaysBelow(Append(Round(loops, left), inner), there, n)
<1> DEFINE r == Round(loops, left)
           p == Append(r, inner)
<1>1. /\ r \in Seq(Loops) /\ Len(r) = Len(loops) /\ Len(loops) \in Nat \ {0}
      /\ \A f \in 1 .. Len(loops) : r[f].kind = loops[f].kind
      /\ \A f \in 1 .. Len(loops) : f # Len(loops) => r[f] = loops[f]
      /\ r[Len(loops)].left = left
  BY RoundIs
<1> HIDE DEF r
<1>2. /\ p \in Seq(Loops) /\ Len(p) = Len(loops) + 1 /\ p[Len(loops) + 1] = inner
      /\ \A f \in 1 .. Len(loops) : p[f] = r[f]
  BY <1>1, AppendProperties
<1> HIDE DEF p
<1>3. \A f \in 1 .. Len(loops) : p[f].kind \in {"value", "scalars"} => p[f].left = 0
  <2> SUFFICES ASSUME NEW f \in 1 .. Len(loops), p[f].kind \in {"value", "scalars"}
               PROVE  p[f].left = 0
    OBVIOUS
  <2>1. CASE f = Len(loops)
    BY <1>1, <1>2, <2>1
  <2>2. CASE f # Len(loops)
    <3>1. loops[f] \in Loops
      BY <1>1, ElementOfSeq
    <3>2. loops[f].left \in Nat
      BY <3>1 DEF Loops
    <3>3. p[f] = loops[f]
      BY <1>1, <1>2, <2>2
    <3>4. ~(loops[f].kind \in {"value", "scalars"} /\ loops[f].left > 0)
      BY <1>1, <2>2 DEF StaysBelow
    <3> QED
      BY <3>2, <3>3, <3>4
  <2> QED
    BY <2>1, <2>2
<1>4. StaysBelow(p, there, n)
  <2> SUFFICES ASSUME NEW f \in 1 .. Len(p), p[f].kind \in {"value", "scalars"},
                      p[f].left > 0
               PROVE  /\ f = Len(p) /\ there + p[f].left <= n
                      /\ p[f].kind = "value" => p[f].left = 1
    BY DEF StaysBelow
  <2>1. f = Len(loops) + 1
    BY <1>1, <1>2, <1>3
  <2> QED
    BY <1>1, <1>2, <2>1
<1> QED
  BY <1>2, <1>4 DEF p, r

LEMMA PopStays ==
  ASSUME NEW loops \in Seq(Loops), loops # << >>, loops[Len(loops)].left = 0,
         NEW at \in Nat, NEW n \in Nat, StaysBelow(loops, at, n)
  PROVE  /\ SubSeq(loops, 1, Len(loops) - 1) \in Seq(Loops)
         /\ StaysBelow(SubSeq(loops, 1, Len(loops) - 1), at, n)
<1>1. Len(loops) \in Nat \ {0}
  BY EmptySeq
<1>2. /\ SubSeq(loops, 1, Len(loops) - 1) \in Seq(Loops)
      /\ Len(SubSeq(loops, 1, Len(loops) - 1)) = Len(loops) - 1
      /\ \A f \in 1 .. Len(loops) - 1 : SubSeq(loops, 1, Len(loops) - 1)[f] = loops[f]
  <2>1. PICK last \in Nat : last = Len(loops) - 1
    BY <1>1
  <2>2. \A f \in 1 .. last : loops[f] \in Loops
    BY <1>1, <2>1, ElementOfSeq
  <2> DEFINE rest == SubSeq(loops, 1, last)
  <2>3. /\ rest \in Seq(Loops)
        /\ Len(rest) = (IF 1 <= last THEN last - 1 + 1 ELSE 0)
        /\ \A f \in 1 .. (last - 1 + 1) : rest[f] = loops[1 + f - 1]
    BY <2>2, SubSeqProperties
  <2> HIDE DEF rest
  <2>4. Len(rest) = last /\ \A f \in 1 .. last : rest[f] = loops[f]
    BY <2>3
  <2> QED
    BY <2>1, <2>3, <2>4 DEF rest
<1>3. \A f \in 1 .. Len(loops) - 1 :
          ~(loops[f].kind \in {"value", "scalars"} /\ loops[f].left > 0)
  <2> SUFFICES ASSUME NEW f \in 1 .. Len(loops) - 1,
                      loops[f].kind \in {"value", "scalars"}, loops[f].left > 0
               PROVE  FALSE
    OBVIOUS
  <2>1. f \in 1 .. Len(loops) /\ f # Len(loops)
    BY <1>1
  <2> QED
    BY <2>1 DEF StaysBelow
<1>4. \A f \in 1 .. Len(SubSeq(loops, 1, Len(loops) - 1)) :
          SubSeq(loops, 1, Len(loops) - 1)[f] = loops[f] /\ f \in 1 .. Len(loops) - 1
  BY <1>2
<1> DEFINE rest == SubSeq(loops, 1, Len(loops) - 1)
<1> HIDE DEF rest
<1>5. \A f \in 1 .. Len(rest) : ~(rest[f].kind \in {"value", "scalars"} /\ rest[f].left > 0)
  BY <1>3, <1>4 DEF rest
<1>6. StaysBelow(rest, at, n)
  BY <1>5 DEF StaysBelow
<1> QED
  BY <1>2, <1>6 DEF rest
--------------------------------------------------------------------------------
(* The two passes.                                                         *)

USE DEF Letters

LEMMA InitHolds ==
  ASSUME ParseInit
  PROVE  IInv
<1>1. js \in Seq(Letters) /\ given \in Nat /\ given \in Given
  BY TextsAssumption, GivenAssumption DEF ParseInit
<1>2. phase \in {"count", "allocate"} /\ (phase = "count" <=> given = 0)
  BY DEF ParseInit
<1>3. TypeOK
  <2>1. json \in BOOLEAN /\ strayed \in BOOLEAN
    BY DEF ParseInit, IsJson
  <2>2. DOMAIN tokens = {}
    BY DEF ParseInit
  <2>3. pos \in 0 .. Len(js)
    BY <1>1 DEF ParseInit
  <2>4. frames \in Seq(Loops)
    BY EmptySeq DEF ParseInit
  <2> QED
    BY <1>1, <1>2, <2>1, <2>2, <2>3, <2>4 DEF ParseInit, TypeOK
<1>4. SizesFit /\ InArray /\ Filling /\ Walking /\ PassesAgree
  BY <1>2 DEF ParseInit, SizesFit, InArray, Filling, Walking, PassesAgree
<1>5. Counting
  BY <1>2, StartingNone DEF ParseInit, Counting
<1> QED
  BY <1>3, <1>4, <1>5 DEF IInv

(* An error of the filling pass.  There is no lack of tokens where they    *)
(* have been counted.                                                      *)
LEMMA StopHolds ==
  ASSUME IInv, phase \in {"fill", "close"}, NEW e \in {"NOMEM", "INVAL", "PART"},
         e = "NOMEM" => given # 0, Stop(e), UNCHANGED <<given, capacity, walkVars, result>>
  PROVE  IInv'
<1>1. TypeOK'
  BY DEF IInv, TypeOK, Stop, walkVars
<1>2. SizesFit' /\ InArray' /\ Filling' /\ Walking' /\ Counting' /\ PassesAgree'
  BY DEF IInv, SizesFit, InArray, Filling, Walking, Counting, PassesAgree, Stop, walkVars
<1> QED
  BY <1>1, <1>2 DEF IInv

LEMMA ReturnHolds ==
  ASSUME IInv, Return("success") \/ Return("invalid_json") \/ Return("out_of_memory")
                 \/ Return("invalid_gltf") \/ Return("legacy_gltf")
  PROVE  IInv'
<1>1. TypeOK'
  BY DEF IInv, TypeOK, Return, walkVars
<1>2. SizesFit' /\ InArray' /\ Filling' /\ Walking' /\ Counting' /\ PassesAgree'
  BY DEF IInv, SizesFit, InArray, Filling, Walking, Counting, PassesAgree, Return, walkVars
<1> QED
  BY <1>1, <1>2 DEF IInv

LEMMA CountHolds ==
  ASSUME IInv, Count
  PROVE  IInv'
<1>1. pos \in Nat /\ pos + 1 \in 0 .. Len(js) /\ Len(js) \in Nat
  BY LenProperties DEF IInv, TypeOK, Count, CountLexeme, AtEnd
<1>2. TypeOK'
  BY <1>1 DEF IInv, TypeOK, Count, CountLexeme, walkVars
<1>3. SizesFit' /\ InArray' /\ Filling' /\ Walking' /\ PassesAgree'
  BY DEF IInv, SizesFit, InArray, Filling, Walking, PassesAgree, Count, CountLexeme, walkVars
<1>4. Counting'
  <2>1. Starting(js, pos + 1) = Starting(js, pos) + (IF Lexeme \in Starts THEN 1 ELSE 0)
    BY <1>1, StartingNext DEF Lexeme
  <2>2. Starting(js, pos) \in Nat
    BY <1>1, StartingType
  <2> QED
    BY <2>1, <2>2 DEF IInv, Counting, Count, CountLexeme
<1> QED
  BY <1>2, <1>3, <1>4 DEF IInv

LEMMA CountedHolds ==
  ASSUME IInv, Counted
  PROVE  IInv'
<1>1. CASE count <= 0
  BY <1>1, ReturnHolds DEF Counted
<1>2. CASE ~(count <= 0)
  <2>1. TypeOK'
    BY <1>2 DEF IInv, TypeOK, Counted, walkVars
  <2>2. SizesFit' /\ InArray' /\ Filling' /\ Walking' /\ PassesAgree'
    BY <1>2 DEF IInv, SizesFit, InArray, Filling, Walking, PassesAgree, Counted, walkVars
  <2>3. Counting'
    BY <1>2 DEF IInv, Counting, Counted, AtEnd
  <2> QED
    BY <2>1, <2>2, <2>3 DEF IInv
<1> QED
  BY <1>1, <1>2

LEMMA AllocateHolds ==
  ASSUME IInv, AllocateTokens
  PROVE  IInv'
<1>1. CASE Return("out_of_memory")
  BY <1>1, ReturnHolds
<1>2. CASE /\ jsmn_init /\ count' = 0
           /\ capacity' = num_tokens + 1 /\ phase' = "fill"
           /\ UNCHANGED <<js, tokens, num_tokens, token, error, given, walkVars, result>>
  <2>1. DOMAIN tokens = {} /\ Len(js) \in Nat /\ num_tokens \in Nat
    BY LenProperties DEF IInv, TypeOK, Filling, AllocateTokens
  <2>2. TypeOK'
    BY <1>2, <2>1 DEF IInv, TypeOK, AllocateTokens, jsmn_init, walkVars
  <2>3. SizesFit' /\ InArray' /\ Filling' /\ Walking' /\ PassesAgree'
    BY <1>2, <2>1 DEF IInv, SizesFit, InArray, Filling, Walking, PassesAgree, AllocateTokens,
                      jsmn_init, walkVars
  <2>4. Counting'
    BY <1>2, StartingNone DEF IInv, Counting, AllocateTokens, jsmn_init
  <2> QED
    BY <2>2, <2>3, <2>4 DEF IInv
<1> QED
  BY <1>1, <1>2 DEF AllocateTokens

(* A new token.  Its slot is there, and the sizes still fit: what counts   *)
(* it is in front of it.                                                   *)
LEMMA AllocHolds ==
  ASSUME IInv, phase = "fill", ~AtEnd, Lexeme \in Starts,
         NEW e \in Int, NEW s \in -1 .. toknext, jsmn_alloc_token(e, s),
         UNCHANGED <<given, capacity, walkVars, result>>
  PROVE  IInv'
<1>1. /\ pos \in Nat /\ pos + 1 \in 0 .. Len(js) /\ Len(js) \in Nat
      /\ toknext \in Nat /\ num_tokens \in Nat /\ DOMAIN tokens = 0 .. toknext - 1
      /\ count = toknext /\ toknext <= num_tokens /\ capacity = num_tokens + 1
      /\ toksuper \in -1 .. toknext - 1
  BY LenProperties DEF IInv, TypeOK, AtEnd, Filling
<1>2. Starting(js, pos + 1) = Starting(js, pos) + 1
  BY <1>1, StartingNext DEF Lexeme
<1>3. CASE toknext >= num_tokens
  <2>1. given # 0
    <3>1. Starting(js, pos + 1) <= Starting(js, Len(js))
      BY <1>1, StartingGrows
    <3>2. Starting(js, pos) \in Nat /\ Starting(js, Len(js)) \in Nat
      BY <1>1, StartingType
    <3> QED
      BY <1>1, <1>2, <1>3, <3>1, <3>2 DEF IInv, Counting
  <2> QED
    BY <1>3, <2>1, StopHolds DEF jsmn_alloc_token
<1>4. CASE ~(toknext >= num_tokens)
  <2> DEFINE new == [type |-> TypeOf(Lexeme), start |-> pos, end |-> e,
                     size |-> 0, parent |-> toksuper]
             at(k) == IF k = toknext THEN new
                      ELSE IF k = toksuper THEN [tokens[k] EXCEPT !.size = @ + 1]
                      ELSE tokens[k]
  <2>1. /\ tokens' = [k \in 0 .. toknext |-> at(k)]
        /\ toknext' = toknext + 1 /\ count' = count + 1 /\ pos' = pos + 1
        /\ toksuper' = s
        /\ UNCHANGED <<js, num_tokens, token, phase, error>>
    BY <1>4 DEF jsmn_alloc_token
  <2>2. new \in Tokens /\ new.type # "UNDEFINED" /\ new.size = 0 /\ new.parent = toksuper
    <3>1. TypeOf(Lexeme) \in TokenType /\ TypeOf(Lexeme) # "UNDEFINED"
      BY DEF TypeOf, Starts, TokenType
    <3> QED
      BY <1>1, <3>1 DEF Tokens
  <2>3. \A k \in 0 .. toknext - 1 :
            /\ tokens[k] \in Tokens /\ tokens[k].parent \in -1 .. k - 1
            /\ tokens[k].type # "UNDEFINED" /\ tokens[k].size <= toknext - 1 - k
    <3>1. \A k \in 0 .. toknext - 1 : tokens[k] \in Tokens /\ tokens[k].parent \in -1 .. k - 1
      BY <1>1 DEF IInv, TypeOK
    <3>2. \A k \in 0 .. toknext - 1 : k < toknext
      BY <1>1
    <3>3. \A k \in 0 .. toknext - 1 :
              tokens[k].type # "UNDEFINED" /\ tokens[k].size <= toknext - 1 - k
      BY <1>1, <3>2 DEF IInv, SizesFit
    <3> QED
      BY <3>1, <3>3
  <2> HIDE DEF new
  <2>4. \A k \in 0 .. toknext - 1 :
            /\ at(k) \in Tokens /\ at(k).parent = tokens[k].parent
            /\ at(k).type = tokens[k].type /\ at(k).size <= tokens[k].size + 1
    <3> SUFFICES ASSUME NEW k \in 0 .. toknext - 1
                 PROVE  /\ at(k) \in Tokens /\ at(k).parent = tokens[k].parent
                        /\ at(k).type = tokens[k].type /\ at(k).size <= tokens[k].size + 1
      OBVIOUS
    <3>1. k # toknext
      BY <1>1
    <3>2. /\ tokens[k] \in Tokens /\ tokens[k].size \in Nat
      BY <2>3 DEF Tokens
    <3>3. /\ [tokens[k] EXCEPT !.size = @ + 1] \in Tokens
          /\ [tokens[k] EXCEPT !.size = @ + 1].parent = tokens[k].parent
          /\ [tokens[k] EXCEPT !.size = @ + 1].type = tokens[k].type
          /\ [tokens[k] EXCEPT !.size = @ + 1].size = tokens[k].size + 1
      BY <3>2 DEF Tokens
    <3> QED
      BY <3>1, <3>2, <3>3
  <2>5. \A k \in 0 .. toknext :
            /\ at(k) \in Tokens /\ at(k).parent \in -1 .. k - 1
            /\ at(k).type # "UNDEFINED" /\ at(k).size <= toknext - k
    <3> SUFFICES ASSUME NEW k \in 0 .. toknext
                 PROVE  /\ at(k) \in Tokens /\ at(k).parent \in -1 .. k - 1
                        /\ at(k).type # "UNDEFINED" /\ at(k).size <= toknext - k
      OBVIOUS
    <3>1. CASE k = toknext
      <4>1. at(k) = new
        BY <3>1
      <4> HIDE DEF at
      <4> QED
        BY <1>1, <2>2, <3>1, <4>1
    <3>2. CASE k # toknext
      <4>1. k \in 0 .. toknext - 1
        BY <1>1, <3>2
      <4>2. /\ at(k) \in Tokens /\ at(k).parent = tokens[k].parent
            /\ at(k).type = tokens[k].type /\ at(k).size <= tokens[k].size + 1
        BY <2>4, <4>1
      <4> HIDE DEF at
      <4>3. at(k).size \in Nat /\ tokens[k].size \in Nat
        BY <2>3, <4>1, <4>2 DEF Tokens
      <4>4. at(k).parent \in -1 .. k - 1 /\ at(k).type # "UNDEFINED"
        BY <2>3, <4>1, <4>2
      <4>5. tokens[k].size <= toknext - 1 - k /\ k \in Nat
        BY <2>3, <4>1
      <4>6. PICK sz, asz \in Nat : sz = tokens[k].size /\ asz = at(k).size
        BY <4>3
      <4>7. asz <= toknext - k
        BY <1>1, <4>2, <4>5, <4>6
      <4> QED
        BY <4>2, <4>4, <4>6, <4>7
    <3> QED
      BY <3>1, <3>2
  <2> HIDE DEF at
  <2>6. DOMAIN tokens' = 0 .. toknext /\ \A k \in 0 .. toknext : tokens'[k] = at(k)
    BY <2>1
  <2>7. TypeOK'
    <3>1. \A k \in DOMAIN tokens' : tokens'[k] \in Tokens /\ tokens'[k].parent \in -1 .. k - 1
      BY <2>5, <2>6
    <3>2. /\ json' \in BOOLEAN /\ strayed' \in BOOLEAN /\ frames' \in Seq(Loops)
          /\ js' \in Seq(Lexemes \union {"bad"})
      BY <2>1 DEF IInv, TypeOK, walkVars
    <3>3. /\ pos' \in 0 .. Len(js') /\ toknext' \in Nat /\ count' \in Nat
          /\ toksuper' \in Int /\ DOMAIN tokens' \subseteq 0 .. toknext'
          /\ toksuper' \in -1 .. toknext' - 1
      BY <1>1, <2>1, <2>6
    <3>4. /\ num_tokens' \in Nat /\ capacity' \in Nat /\ token' \in Nat /\ given' \in Given
          /\ phase' = "fill" /\ error' \in {"none", "NOMEM", "INVAL", "PART"}
          /\ i' \in Nat
          /\ result' \in {"none", "success", "invalid_json", "out_of_memory", "invalid_gltf",
                          "legacy_gltf"}
      BY <2>1 DEF IInv, TypeOK, walkVars
    <3> QED
      BY <3>1, <3>2, <3>3, <3>4 DEF TypeOK
  <2>8. SizesFit' /\ InArray'
    BY <1>1, <1>4, <2>1, <2>5, <2>6 DEF SizesFit, InArray
  <2>9. Filling' /\ Walking'
    BY <1>1, <1>4, <2>1, <2>6 DEF IInv, Filling, Walking, walkVars
  <2>10. Counting' /\ PassesAgree'
    BY <1>1, <1>2, <2>1 DEF IInv, Counting, PassesAgree
  <2> QED
    BY <2>7, <2>8, <2>9, <2>10 DEF IInv
<1> QED
  BY <1>3, <1>4

(* A lexeme that starts no token.                                          *)
LEMMA NoStart ==
  ASSUME IInv, ~AtEnd, Lexeme \notin Starts
  PROVE  /\ pos \in Nat /\ pos + 1 \in 0 .. Len(js)
         /\ Starting(js, pos + 1) = Starting(js, pos)
<1>1. pos \in Nat /\ pos + 1 \in 0 .. Len(js) /\ Len(js) \in Nat
  BY LenProperties DEF IInv, TypeOK, AtEnd
<1>2. Starting(js, pos) \in Nat
  BY <1>1, StartingType
<1> QED
  BY <1>1, <1>2, StartingNext DEF Lexeme

(* It moves toksuper, to a token or to none, and no token's links.         *)
LEMMA PassedHolds ==
  ASSUME IInv, phase \in {"fill", "close"}, ~AtEnd, Lexeme \notin Starts,
         toksuper' \in -1 .. toknext - 1, pos' = pos + 1, phase' = "fill",
         UNCHANGED <<js, toknext, num_tokens, count, token, error>>,
         UNCHANGED <<given, capacity, walkVars, result>>,
         DOMAIN tokens' = DOMAIN tokens,
         \A k \in DOMAIN tokens :
            /\ tokens'[k] \in Tokens /\ tokens'[k].parent = tokens[k].parent
            /\ tokens'[k].type = tokens[k].type /\ tokens'[k].size = tokens[k].size
  PROVE  IInv'
<1>1. /\ pos \in Nat /\ pos + 1 \in 0 .. Len(js)
      /\ Starting(js, pos + 1) = Starting(js, pos)
  BY NoStart
<1>2. TypeOK'
  <2>1. \A k \in DOMAIN tokens' : tokens'[k] \in Tokens /\ tokens'[k].parent \in -1 .. k - 1
    BY DEF IInv, TypeOK
  <2>2. /\ json' \in BOOLEAN /\ strayed' \in BOOLEAN /\ frames' \in Seq(Loops)
        /\ js' \in Seq(Lexemes \union {"bad"})
    BY DEF IInv, TypeOK, walkVars
  <2>3. /\ pos' \in 0 .. Len(js') /\ toknext' \in Nat /\ count' \in Nat
        /\ toksuper' \in Int /\ DOMAIN tokens' \subseteq 0 .. toknext'
        /\ toksuper' \in -1 .. toknext' - 1
    BY <1>1 DEF IInv, TypeOK
  <2>4. /\ num_tokens' \in Nat /\ capacity' \in Nat /\ token' \in Nat /\ given' \in Given
        /\ error' \in {"none", "NOMEM", "INVAL", "PART"} /\ i' \in Nat
        /\ result' \in {"none", "success", "invalid_json", "out_of_memory", "invalid_gltf",
                        "legacy_gltf"}
    BY DEF IInv, TypeOK, walkVars
  <2> QED
    BY <2>1, <2>2, <2>3, <2>4 DEF TypeOK
<1>3. SizesFit'
  BY DEF IInv, SizesFit
<1>4. InArray' /\ Filling' /\ Walking' /\ PassesAgree'
  BY DEF IInv, InArray, Filling, Walking, PassesAgree, walkVars
<1>5. Counting'
  BY <1>1 DEF IInv, Counting
<1> QED
  BY <1>2, <1>3, <1>4, <1>5 DEF IInv

(* What is known of the tokens while they are filled.                      *)
LEMMA FillingTokens ==
  ASSUME IInv, phase \in {"fill", "close"}
  PROVE  /\ toknext \in Nat /\ DOMAIN tokens = 0 .. toknext - 1
         /\ toksuper \in -1 .. toknext - 1 /\ pos \in Nat
         /\ \A k \in 0 .. toknext - 1 :
               tokens[k] \in Tokens /\ tokens[k].parent \in -1 .. k - 1
<1>1. toknext \in Nat /\ toksuper \in -1 .. toknext - 1 /\ DOMAIN tokens = 0 .. toknext - 1
  BY DEF IInv, TypeOK, Filling
<1>2. pos \in Nat
  BY LenProperties DEF IInv, TypeOK
<1> QED
  BY <1>1, <1>2 DEF IInv, TypeOK

LEMMA FillHolds ==
  ASSUME IInv, FillTokens
  PROVE  IInv'
<1> USE DEF FillTokens
<1>1. CASE OpenBracket
  <2>1. Lexeme \in Starts /\ ~AtEnd /\ phase = "fill"
    BY <1>1 DEF OpenBracket, Sees, Starts
  <2>2. PICK s \in -1 .. toknext, e \in Int : s = toknext /\ e = -1
    BY <2>1, FillingTokens
  <2>3. jsmn_alloc_token(e, s) /\ UNCHANGED <<given, capacity, walkVars, result>>
    BY <1>1, <2>2 DEF OpenBracket
  <2> QED
    BY <2>1, <2>3, AllocHolds
<1>2. CASE String
  <2>1. Lexeme \in Starts /\ ~AtEnd /\ phase = "fill"
    BY <1>2 DEF String, Sees, Starts
  <2>2. PICK s \in -1 .. toknext, e \in Int : s = toksuper /\ e = pos + 1
    BY <2>1, FillingTokens
  <2> QED
    BY <1>2, <2>1, <2>2, AllocHolds DEF String
<1>3. CASE Primitive
  <2>1. Lexeme \in Starts /\ ~AtEnd /\ phase = "fill"
    BY <1>3 DEF Primitive, Sees, Starts
  <2>2. PICK s \in -1 .. toknext, e \in Int : s = toksuper /\ e = pos + 1
    BY <2>1, FillingTokens
  <2>3. IInv'
    <3>1. CASE IsKeyPosition
      <4>1. Stop("INVAL") /\ UNCHANGED <<given, capacity, walkVars, result>>
        BY <1>3, <3>1 DEF Primitive
      <4> QED
        BY <2>1, <4>1, StopHolds
    <3>2. CASE ~IsKeyPosition
      BY <1>3, <2>1, <2>2, <3>2, AllocHolds DEF Primitive
    <3> QED
      BY <3>1, <3>2
  <2> QED
    BY <2>3
<1>4. CASE Colon
  <2>1. Lexeme \notin Starts /\ ~AtEnd /\ phase = "fill"
    BY <1>4 DEF Colon, Sees, Starts
  <2> QED
    BY <1>4, <2>1, FillingTokens, PassedHolds DEF Colon
<1>5. CASE Comma
  <2>1. Lexeme \notin Starts /\ ~AtEnd /\ phase = "fill"
    BY <1>5 DEF Comma, Sees, Starts
  <2>2. toksuper' \in -1 .. toknext - 1
    <3>1. CASE toksuper # -1 /\ tokens[toksuper].type \notin Containers
      <4>1. toksuper' = tokens[toksuper].parent
        BY <1>5, <3>1 DEF Comma
      <4>2. toksuper \in 0 .. toknext - 1
        BY <2>1, <3>1, FillingTokens
      <4>3. tokens[toksuper].parent \in -1 .. toksuper - 1 /\ toknext \in Nat
        BY <2>1, <4>2, FillingTokens
      <4>4. PICK p \in Int : p = tokens[toksuper].parent
        BY <4>2, <4>3
      <4> QED
        BY <4>1, <4>2, <4>3, <4>4
    <3>2. CASE ~(toksuper # -1 /\ tokens[toksuper].type \notin Containers)
      BY <1>5, <2>1, <3>2, FillingTokens DEF Comma
    <3> QED
      BY <3>1, <3>2
  <2> QED
    BY <1>5, <2>1, <2>2, FillingTokens, PassedHolds DEF Comma
<1>6. CASE CloseBracket
  <2>1. phase = "fill" /\ ~AtEnd
    BY <1>6 DEF CloseBracket, Sees
  <2>2. CASE toknext < 1
    <3>1. Stop("INVAL") /\ UNCHANGED <<given, capacity, walkVars, result>>
      BY <1>6, <2>2 DEF CloseBracket
    <3> QED
      BY <2>1, <3>1, StopHolds
  <2>3. CASE ~(toknext < 1)
    <3>1. /\ token' = toknext - 1 /\ phase' = "close"
          /\ UNCHANGED <<js, pos, toknext, toksuper, tokens, num_tokens, count, error>>
      BY <1>6, <2>3 DEF CloseBracket
    <3>2. token' \in 0 .. toknext - 1
      BY <2>1, <2>3, <3>1, FillingTokens
    <3>3. Sees({"}", "]"})'
      BY <1>6, <3>1 DEF CloseBracket, Sees, AtEnd, Lexeme
    <3>4. TypeOK'
      BY <2>1, <3>1, <3>2 DEF IInv, TypeOK, walkVars
    <3>5. SizesFit' /\ InArray' /\ Filling' /\ Walking' /\ Counting' /\ PassesAgree'
      BY <2>1, <3>1, <3>2, <3>3 DEF IInv, SizesFit, InArray, Filling, Walking, Counting,
                                    PassesAgree, walkVars
    <3> QED
      BY <3>4, <3>5 DEF IInv
  <2> QED
    BY <2>2, <2>3
<1>7. CASE CloseOpen
  <2>1. phase = "close" /\ ~AtEnd /\ Lexeme \notin Starts /\ token \in 0 .. toknext - 1
    BY <1>7 DEF IInv, Filling, CloseOpen, Sees, Starts
  <2>2. CASE tokens[token].type # TypeOf(Lexeme)
    <3>1. Stop("INVAL") /\ UNCHANGED <<given, capacity, walkVars, result>>
      BY <1>7, <2>2 DEF CloseOpen
    <3> QED
      BY <2>1, <3>1, StopHolds
  <2>3. CASE ~(tokens[token].type # TypeOf(Lexeme))
    <3>1. /\ tokens' = [tokens EXCEPT ![token].end = pos + 1]
          /\ toksuper' = tokens[token].parent /\ pos' = pos + 1 /\ phase' = "fill"
          /\ UNCHANGED <<js, toknext, num_tokens, count, token, error>>
      BY <1>7, <2>3 DEF CloseOpen
    <3>2. toksuper' \in -1 .. toknext - 1
      BY <2>1, <3>1, FillingTokens
    <3>3. [tokens[token] EXCEPT !.end = pos + 1] \in Tokens
      BY <2>1, FillingTokens DEF Tokens
    <3>4. /\ [tokens[token] EXCEPT !.end = pos + 1].parent = tokens[token].parent
          /\ [tokens[token] EXCEPT !.end = pos + 1].type = tokens[token].type
          /\ [tokens[token] EXCEPT !.end = pos + 1].size = tokens[token].size
      BY <2>1, FillingTokens DEF Tokens
    <3>5. /\ DOMAIN tokens' = DOMAIN tokens
          /\ \A k \in DOMAIN tokens :
                tokens'[k] = IF k = token THEN [tokens[token] EXCEPT !.end = pos + 1]
                                          ELSE tokens[k]
      BY <3>1
    <3>6. \A k \in DOMAIN tokens :
            /\ tokens'[k] \in Tokens /\ tokens'[k].parent = tokens[k].parent
            /\ tokens'[k].type = tokens[k].type /\ tokens'[k].size = tokens[k].size
      BY <3>3, <3>4, <3>5 DEF IInv, TypeOK
    <3> QED
      BY <2>1, <3>1, <3>2, <3>5, <3>6, PassedHolds
  <2> QED
    BY <2>2, <2>3
<1>8. CASE CloseNothing
  <2>1. phase = "close" /\ ~AtEnd /\ Lexeme \notin Starts
    BY <1>8 DEF IInv, Filling, CloseNothing, Sees, Starts
  <2>2. CASE tokens[token].type # TypeOf(Lexeme) \/ toksuper = -1
    <3>1. Stop("INVAL") /\ UNCHANGED <<given, capacity, walkVars, result>>
      BY <1>8, <2>2 DEF CloseNothing
    <3> QED
      BY <2>1, <3>1, StopHolds
  <2>3. CASE ~(tokens[token].type # TypeOf(Lexeme) \/ toksuper = -1)
    <3>1. /\ pos' = pos + 1 /\ phase' = "fill"
          /\ UNCHANGED <<js, toknext, toksuper, tokens, num_tokens, count, token, error>>
      BY <1>8, <2>3 DEF CloseNothing
    <3>2. toksuper' \in -1 .. toknext - 1
      BY <2>1, <3>1, FillingTokens
    <3> QED
      BY <2>1, <3>1, <3>2, FillingTokens, PassedHolds
  <2> QED
    BY <2>2, <2>3
<1>9. CASE CloseParent
  <2>1. /\ phase = "close" /\ token \in 0 .. toknext - 1 /\ tokens[token].parent # -1
        /\ token' = tokens[token].parent
        /\ UNCHANGED <<js, pos, toknext, toksuper, tokens, num_tokens, count, phase, error>>
        /\ UNCHANGED <<given, capacity, walkVars, result>>
    BY <1>9 DEF IInv, Filling, CloseParent
  <2>2. token' \in 0 .. toknext - 1
    BY <2>1, FillingTokens
  <2>3. Sees({"}", "]"})'
    BY <2>1 DEF IInv, Filling, Sees, AtEnd, Lexeme
  <2>4. TypeOK'
    BY <2>1, <2>2 DEF IInv, TypeOK, walkVars
  <2>5. SizesFit' /\ InArray' /\ Filling' /\ Walking' /\ Counting' /\ PassesAgree'
    BY <2>1, <2>2, <2>3 DEF IInv, SizesFit, InArray, Filling, Walking, Counting, PassesAgree,
                            walkVars
  <2> QED
    BY <2>4, <2>5 DEF IInv
<1>10. CASE Bad
  <2>1. PICK e \in {"INVAL", "PART"} : Stop(e)
    BY <1>10 DEF Bad
  <2> QED
    BY <1>10, <2>1, StopHolds DEF Bad
<1>11. CASE FillUnclosed
  BY <1>11, StopHolds DEF FillUnclosed
<1> QED
  BY <1>1, <1>2, <1>3, <1>4, <1>5, <1>6, <1>7, <1>8, <1>9, <1>10, <1>11 DEF Fill

LEMMA FilledHolds ==
  ASSUME IInv, Filled
  PROVE  IInv'
<1>1. CASE count <= 0
  BY <1>1, ReturnHolds DEF Filled
<1>2. CASE ~(count <= 0)
  <2>1. /\ phase = "fill" /\ AtEnd /\ phase' = "root" /\ count \in Nat \ {0}
        /\ DOMAIN tokens = 0 .. count - 1 /\ count = toknext /\ toknext <= num_tokens
        /\ capacity = num_tokens + 1 /\ num_tokens \in Nat
        /\ tokens' = [k \in 0 .. count |-> IF k = count THEN UNDEFINED ELSE tokens[k]]
        /\ UNCHANGED <<js, pos, toknext, toksuper, num_tokens, count, token, error,
                       given, capacity, walkVars, result>>
    BY <1>2 DEF IInv, TypeOK, Filling, Filled
  <2>2. /\ DOMAIN tokens' = 0 .. count /\ tokens'[count] = UNDEFINED
        /\ \A k \in 0 .. count - 1 : k # count /\ tokens'[k] = tokens[k]
        /\ \A k \in 0 .. count : k = count \/ k \in 0 .. count - 1
    BY <2>1
  <2>3. TypeOK'
    <3>1. UNDEFINED \in Tokens /\ UNDEFINED.parent \in -1 .. count - 1
      BY <2>1 DEF UNDEFINED, Tokens, TokenType
    <3>2. \A k \in DOMAIN tokens' : tokens'[k] \in Tokens /\ tokens'[k].parent \in -1 .. k - 1
      BY <2>1, <2>2, <3>1 DEF IInv, TypeOK
    <3>3. json' \in BOOLEAN /\ strayed' \in BOOLEAN
      BY <2>1 DEF IInv, TypeOK, walkVars
    <3>4. DOMAIN tokens' \subseteq 0 .. toknext'
      BY <2>1, <2>2
    <3> QED
      BY <2>1, <3>2, <3>3, <3>4 DEF IInv, TypeOK, walkVars
  <2>4. SizesFit'
    BY <2>1, <2>2 DEF IInv, SizesFit
  <2>5. InArray'
    BY <2>1, <2>2 DEF InArray
  <2>6. Filling'
    BY <2>1 DEF Filling
  <2>7. i = 0
    BY <2>1 DEF IInv, Walking
  <2>8. Walking'
    BY <2>1, <2>2, <2>7 DEF Walking, UNDEFINED, walkVars
  <2>9. Counting' /\ PassesAgree'
    BY <2>1 DEF IInv, Counting, PassesAgree, AtEnd
  <2> QED
    BY <2>3, <2>4, <2>5, <2>6, <2>8, <2>9 DEF IInv
<1> QED
  BY <1>1, <1>2

--------------------------------------------------------------------------------
(* The walk.                                                               *)

(* A token that has a type is in front of the UNDEFINED one, and what      *)
(* belongs to it is in between.                                            *)
LEMMA AtToken ==
  ASSUME IInv, phase \in {"root", "walk"}
  PROVE  /\ i \in Nat /\ count \in Nat /\ i <= count /\ At.size \in Nat
         /\ At.type # "UNDEFINED" => i + 1 <= count /\ i + 1 + At.size <= count
<1>1. i \in DOMAIN tokens /\ i \in Nat /\ count \in Nat /\ i <= count
  BY DEF IInv, TypeOK, Walking
<1>2. tokens[i] \in Tokens /\ tokens[count].type = "UNDEFINED"
  BY <1>1 DEF IInv, TypeOK, Walking
<1>3. tokens[i].size \in Nat
  BY <1>2 DEF Tokens
<1>4. CASE tokens[i].type # "UNDEFINED"
  <2>1. i # count
    BY <1>2, <1>4
  <2>2. i < count
    BY <1>1, <2>1
  <2>3. tokens[i].size <= count - 1 - i
    BY <1>1, <2>2 DEF IInv, SizesFit
  <2>4. PICK size \in Nat : size = tokens[i].size
    BY <1>3
  <2>5. i + 1 <= count /\ i + 1 + size <= count
    BY <1>1, <2>2, <2>3, <2>4
  <2> QED
    BY <1>1, <1>3, <2>4, <2>5 DEF At
<1> QED
  BY <1>1, <1>3, <1>4 DEF At

(* A step of the walk, to a token that the innermost loop may be at.       *)
LEMMA WalkHolds ==
  ASSUME IInv, phase = "walk", NEW there \in Nat, there <= count,
         NEW loops \in Seq(Loops), StaysBelow(loops, there, count),
         i' = there, frames' = loops, strayed' \in BOOLEAN,
         UNCHANGED <<jsmnVars, given, capacity, json, result>>
  PROVE  IInv'
<1> USE DEF jsmnVars
<1>1. json' \in BOOLEAN
  BY DEF IInv, TypeOK
<1>2. TypeOK'
  BY <1>1 DEF IInv, TypeOK
<1>3. SizesFit' /\ InArray' /\ Filling' /\ Counting' /\ PassesAgree'
  BY DEF IInv, SizesFit, InArray, Filling, Counting, PassesAgree
<1>4. Walking'
  BY DEF IInv, Walking
<1> QED
  BY <1>2, <1>3, <1>4 DEF IInv

LEMMA TopLoop ==
  ASSUME IInv, frames # << >>
  PROVE  /\ frames \in Seq(Loops) /\ Top \in Loops
         /\ Top.left > 0 => Top.left - 1 \in Nat /\ NextRound = Round(frames, Top.left - 1)
<1>1. frames \in Seq(Loops) /\ Len(frames) \in 1 .. Len(frames)
  BY EmptySeq DEF IInv, TypeOK
<1>2. Top \in Loops
  BY <1>1, ElementOfSeq DEF Top
<1>3. Top.left \in Nat
  BY <1>2 DEF Loops
<1>4. NextRound = Round(frames, Top.left - 1)
  BY DEF NextRound, Round, Top
<1> QED
  BY <1>1, <1>2, <1>3, <1>4

(* What a value that is read without a look at its type is: in front of n. *)
LEMMA TrustedToken ==
  ASSUME IInv, phase = "walk", InLoop({"value", "scalars"})
  PROVE  /\ i + Top.left <= count /\ i + 1 <= count
         /\ Top.kind = "value" => Top.left = 1
<1>1. Len(frames) \in 1 .. Len(frames) /\ frames # << >>
  BY EmptySeq DEF IInv, TypeOK, InLoop
<1>2. Top.left \in Nat /\ i \in Nat /\ count \in Nat
  BY <1>1, TopLoop, AtToken DEF Loops
<1> QED
  BY <1>1, <1>2 DEF IInv, Walking, StaysBelow, InLoop, Top

LEMMA LoopIs ==
  ASSUME i \in Nat, NEW left \in Nat,
         NEW kind \in {"keys", "value", "values", "scalars", "skip"}
  PROVE  /\ Loop(kind, left) \in Loops
         /\ Loop(kind, left).kind = kind /\ Loop(kind, left).left = left
  BY DEF Loop, Loops

LEMMA RootHolds ==
  ASSUME IInv, Root
  PROVE  IInv'
<1>1. CASE Return("out_of_memory") \/ Unless(At.type = "OBJECT")
  BY <1>1, ReturnHolds DEF Unless
<1>2. CASE /\ At.type = "OBJECT"
           /\ phase' = "walk" /\ i' = 1
           /\ frames' = <<Loop("keys", At.size)>>
           /\ UNCHANGED <<js, pos, toknext, toksuper, tokens, num_tokens, count, token,
                          error, given, capacity, json, strayed, result>>
  <2>1. phase = "root" /\ i = 0
    BY DEF IInv, Walking, Root
  <2>2. 1 <= count /\ At.size \in Nat
    BY <1>2, <2>1, AtToken
  <2>3. PICK loop \in Loops : loop = Loop("keys", At.size) /\ loop.kind = "keys"
    BY <2>1, <2>2, LoopIs
  <2>4. frames' \in Seq(Loops) /\ Len(frames') = 1 /\ frames'[1].kind = "keys"
    BY <1>2, <2>3
  <2>5. StaysBelow(frames', i', count')
    BY <2>4 DEF StaysBelow
  <2>6. json' \in BOOLEAN /\ strayed' \in BOOLEAN
    BY <1>2 DEF IInv, TypeOK
  <2>7. TypeOK'
    BY <1>2, <2>1, <2>4, <2>6 DEF IInv, TypeOK
  <2>8. SizesFit' /\ InArray' /\ Filling' /\ Counting' /\ PassesAgree'
    BY <1>2, <2>1 DEF IInv, SizesFit, InArray, Filling, Counting, PassesAgree
  <2>9. Walking'
    BY <1>2, <2>1, <2>2, <2>5 DEF IInv, Walking
  <2> QED
    BY <2>7, <2>8, <2>9 DEF IInv
<1> QED
  BY <1>1, <1>2 DEF Root

(* A round of the innermost loop that enters another one behind the token. *)
LEMMA EnterHolds ==
  ASSUME IInv, phase = "walk", frames # << >>, Top.kind # "scalars", Top.left > 0,
         Top.kind = "value" => Top.left = 1,
         NEW there \in Nat, there <= count, NEW inner \in Loops,
         inner.kind \in {"value", "scalars"} =>
             there + inner.left <= count /\ (inner.kind = "value" => inner.left = 1),
         Walk(there, Append(NextRound, inner))
  PROVE  IInv'
<1>1. StaysBelow(frames, i, count) /\ i \in Nat /\ count \in Nat
  BY AtToken DEF IInv, Walking
<1>2. /\ frames \in Seq(Loops) /\ Top.left - 1 \in Nat
      /\ NextRound = Round(frames, Top.left - 1)
  BY TopLoop
<1>3. PICK left \in Nat : left = Top.left - 1
  BY <1>2
<1>4. (frames[Len(frames)].kind = "value" => left = 0) /\ frames[Len(frames)].kind # "scalars"
  BY <1>3 DEF Top
<1>5. /\ Append(NextRound, inner) \in Seq(Loops)
      /\ StaysBelow(Append(NextRound, inner), there, count)
  BY <1>1, <1>2, <1>3, <1>4, PushStays
<1>6. strayed' \in BOOLEAN
  BY DEF IInv, TypeOK, Walk
<1> QED
  BY <1>5, <1>6, WalkHolds DEF Walk

(* A round that reads its token itself.                                    *)
LEMMA RoundHolds ==
  ASSUME IInv, phase = "walk", frames # << >>, NEW left \in Nat,
         NEW there \in Nat, there <= count,
         Top.kind \in {"value", "scalars"} /\ left > 0 =>
             there + left <= count /\ Top.kind # "value",
         i' = there, frames' = Round(frames, left), strayed' \in BOOLEAN,
         UNCHANGED <<jsmnVars, given, capacity, json, result>>
  PROVE  IInv'
<1>1. StaysBelow(frames, i, count) /\ i \in Nat /\ count \in Nat
  BY AtToken DEF IInv, Walking
<1>2. frames \in Seq(Loops)
  BY TopLoop
<1>3. Round(frames, left) \in Seq(Loops)
  BY <1>2, RoundIs
<1>4. StaysBelow(Round(frames, left), there, count)
  BY <1>1, <1>2, RoundStays DEF Top
<1> QED
  BY <1>3, <1>4, WalkHolds

LEMMA KeyHolds ==
  ASSUME IInv, Key
  PROVE  IInv'
<1>1. CASE Unless(At.type = "STRING" /\ At.size # 0)
  BY <1>1, ReturnHolds DEF Unless
<1>2. CASE /\ At.type = "STRING" /\ At.size # 0
           /\ Walk(i + 1, Append(NextRound, Loop("value", 1)))
  <2>1. /\ phase = "walk" /\ frames # << >> /\ Top.kind = "keys" /\ Top.left > 0
    BY DEF Key, InLoop
  <2>2. i \in Nat /\ count \in Nat /\ At.size \in Nat /\ i + 1 + At.size <= count
    BY <1>2, <2>1, AtToken
  <2>3. PICK inner \in Loops : inner = Loop("value", 1) /\ inner.left = 1
    BY <2>2, LoopIs
  <2>4. PICK there \in Nat : there = i + 1 /\ there <= count /\ there + 1 <= count
    <3>1. PICK size \in Nat : size = At.size /\ size # 0
      BY <1>2, <2>2
    <3> QED
      BY <2>2, <3>1
  <2> QED
    BY <1>2, <2>1, <2>3, <2>4, EnterHolds
<1> QED
  BY <1>1, <1>2 DEF Key

LEMMA ObjectHolds ==
  ASSUME IInv, Object
  PROVE  IInv'
<1>1. CASE Unless(At.type = "OBJECT")
  BY <1>1, ReturnHolds DEF Unless
<1>2. CASE At.type = "OBJECT" /\ Walk(i + 1, Append(NextRound, Loop("keys", At.size)))
  <2>1. /\ phase = "walk" /\ frames # << >> /\ Top.kind # "scalars" /\ Top.left > 0
        /\ Top.kind = "value" => Top.left = 1
    BY TrustedToken DEF Object, InLoop
  <2>2. i \in Nat /\ i + 1 <= count /\ At.size \in Nat
    BY <1>2, <2>1, AtToken
  <2>3. PICK inner \in Loops : inner = Loop("keys", At.size) /\ inner.kind = "keys"
    BY <2>2, LoopIs
  <2>4. PICK there \in Nat : there = i + 1
    BY <2>2
  <2> QED
    BY <1>2, <2>1, <2>2, <2>3, <2>4, EnterHolds
<1> QED
  BY <1>1, <1>2 DEF Object

LEMMA ArrayHolds ==
  ASSUME IInv, Array
  PROVE  IInv'
<1>1. CASE Unless(At.type = "ARRAY")
  BY <1>1, ReturnHolds DEF Unless
<1>2. ASSUME At.type = "ARRAY", NEW kind \in {"values", "scalars"},
             Walk(i + 1, Append(NextRound, Loop(kind, At.size)))
      PROVE  IInv'
  <2>1. /\ phase = "walk" /\ frames # << >> /\ Top.kind # "scalars" /\ Top.left > 0
        /\ Top.kind = "value" => Top.left = 1
    BY TrustedToken DEF Array, InLoop
  <2>2. /\ i \in Nat /\ i + 1 <= count /\ At.size \in Nat
        /\ i + 1 + At.size <= count
    BY <1>2, <2>1, AtToken
  <2>3. PICK inner \in Loops : /\ inner = Loop(kind, At.size)
                               /\ inner.kind # "value" /\ inner.left = At.size
    BY <2>2, LoopIs
  <2>4. PICK there \in Nat : there = i + 1
    BY <2>2
  <2> QED
    BY <1>2, <2>1, <2>2, <2>3, <2>4, EnterHolds
<1> QED
  BY <1>1, <1>2 DEF Array

LEMMA SkipHolds ==
  ASSUME IInv, Skip
  PROVE  IInv'
<1>1. /\ phase = "walk" /\ frames # << >> /\ Top.kind # "scalars" /\ Top.left > 0
      /\ Top.kind = "value" => Top.left = 1
  BY TrustedToken DEF Skip, InLoop
<1>2. i \in Nat /\ i <= count
  BY <1>1, AtToken
<1>3. PICK inner \in Loops : inner = Loop("skip", 1) /\ inner.kind = "skip"
  BY <1>2, LoopIs
<1> QED
  BY <1>1, <1>2, <1>3, EnterHolds DEF Skip

LEMMA CheckedScalarHolds ==
  ASSUME IInv, CheckedScalar
  PROVE  IInv'
<1>1. ASSUME NEW type \in {"STRING", "PRIMITIVE"}, Unless(At.type = type)
      PROVE  IInv'
  BY <1>1, ReturnHolds DEF Unless
<1>2. ASSUME NEW type \in {"STRING", "PRIMITIVE"}, At.type = type, Walk(i + 1, NextRound)
      PROVE  IInv'
  <2>1. /\ phase = "walk" /\ frames # << >> /\ Top.kind # "scalars" /\ Top.left > 0
        /\ Top.kind = "value" => Top.left = 1
    BY TrustedToken DEF CheckedScalar, InLoop
  <2>2. i \in Nat /\ i + 1 <= count
    BY <1>2, <2>1, AtToken
  <2>3. PICK there \in Nat : there = i + 1
    BY <2>2
  <2>4. PICK left \in Nat : /\ left = Top.left - 1 /\ NextRound = Round(frames, left)
                            /\ Top.kind = "value" => left = 0
    BY <2>1, TopLoop
  <2>5. strayed' \in BOOLEAN
    BY <1>2 DEF IInv, TypeOK, Walk
  <2> QED
    BY <1>2, <2>1, <2>2, <2>3, <2>4, <2>5, RoundHolds DEF Walk
<1> QED
  BY <1>1, <1>2 DEF CheckedScalar

LEMMA ScalarHolds ==
  ASSUME IInv, Scalar
  PROVE  IInv'
<1>1. /\ phase = "walk" /\ frames # << >> /\ Top.left > 0 /\ InLoop({"value", "scalars"})
  BY DEF Scalar, InLoop
<1>2. /\ i \in Nat /\ count \in Nat /\ i + 1 <= count /\ i + Top.left <= count
      /\ Top.kind = "value" => Top.left = 1
  BY <1>1, TrustedToken, AtToken
<1>3. PICK there \in Nat : there = i + 1
  BY <1>2
<1>4. PICK left \in Nat : /\ left = Top.left - 1 /\ NextRound = Round(frames, left)
                          /\ Top.kind = "value" => left = 0
  BY <1>1, <1>2, TopLoop
<1>5. there + left <= count
  <2>1. Top.left \in Nat
    BY <1>1, TopLoop DEF Loops
  <2> QED
    BY <1>2, <1>3, <1>4, <2>1
<1>6. strayed' \in BOOLEAN
  BY DEF IInv, TypeOK, Scalar
<1> QED
  BY <1>1, <1>2, <1>3, <1>4, <1>5, <1>6, RoundHolds DEF Scalar

LEMMA SkipTokenHolds ==
  ASSUME IInv, SkipToken
  PROVE  IInv'
<1> DEFINE parts == CASE At.type = "OBJECT" -> At.size * 2
                      [] At.type = "ARRAY"  -> At.size
                      [] OTHER              -> 0
<1>1. CASE Unless(At.type # "UNDEFINED")
  BY <1>1, ReturnHolds DEF Unless
<1>2. CASE /\ At.type # "UNDEFINED"
           /\ Walk(i + 1, [frames EXCEPT ![Len(frames)].left = @ - 1 + parts])
  <2>1. phase = "walk" /\ frames # << >> /\ Top.kind = "skip" /\ Top.left > 0
    BY DEF SkipToken, InLoop
  <2>2. i \in Nat /\ i + 1 <= count /\ At.size \in Nat
    BY <1>2, <2>1, AtToken
  <2>3. PICK there \in Nat : there = i + 1
    BY <2>2
  <2>4. parts \in Nat
    <3>1. PICK size \in Nat : size = At.size
      BY <2>2
    <3> QED
      BY <3>1
  <2>5. [frames EXCEPT ![Len(frames)].left = @ - 1 + parts] = Round(frames, Top.left - 1 + parts)
    BY DEF Round, Top
  <2> HIDE DEF parts
  <2>6. PICK left \in Nat : left = Top.left - 1 + parts
    BY <2>1, <2>4, TopLoop
  <2>7. strayed' \in BOOLEAN
    BY <1>2 DEF IInv, TypeOK, Walk
  <2>8. i' = there /\ frames' = Round(frames, left)
    BY <1>2, <2>3, <2>5, <2>6 DEF Walk
  <2> QED
    BY <1>2, <2>1, <2>2, <2>3, <2>7, <2>8, RoundHolds DEF Walk
<1> QED
  BY <1>1, <1>2 DEF SkipToken

LEMMA LoopEndsHolds ==
  ASSUME IInv, LoopEnds
  PROVE  IInv'
<1>1. phase = "walk" /\ frames # << >> /\ frames[Len(frames)].left = 0
  BY DEF LoopEnds, Top
<1>2. StaysBelow(frames, i, count) /\ i \in Nat /\ count \in Nat /\ i <= count
  BY <1>1, AtToken DEF IInv, Walking
<1>3. frames \in Seq(Loops)
  BY <1>1, TopLoop
<1>4. strayed' \in BOOLEAN
  BY DEF IInv, TypeOK, LoopEnds, Walk
<1> DEFINE rest == SubSeq(frames, 1, Len(frames) - 1)
<1>5. rest \in Seq(Loops) /\ StaysBelow(rest, i, count)
  BY <1>1, <1>2, <1>3, PopStays
<1>6. i' = i /\ frames' = rest /\ UNCHANGED <<jsmnVars, given, capacity, json, result>>
  BY DEF LoopEnds, Walk
<1> HIDE DEF rest
<1> QED
  BY <1>1, <1>2, <1>4, <1>5, <1>6, WalkHolds

LEMMA StutterHolds ==
  ASSUME IInv, UNCHANGED parseVars
  PROVE  IInv'
<1> USE DEF parseVars, jsmnVars, walkVars
<1>1. json' \in BOOLEAN /\ strayed' \in BOOLEAN
  BY DEF IInv, TypeOK
<1>2. TypeOK'
  BY <1>1 DEF IInv, TypeOK
<1>3. Sees({"}", "]"})' <=> Sees({"}", "]"})
  BY DEF Sees, AtEnd, Lexeme
<1>4. SizesFit' /\ InArray' /\ Filling' /\ Walking' /\ Counting' /\ PassesAgree'
  BY <1>3 DEF IInv, SizesFit, InArray, Filling, Walking, Counting, PassesAgree
<1> QED
  BY <1>2, <1>4 DEF IInv

LEMMA StepHolds ==
  ASSUME IInv, [ParseNext]_parseVars
  PROVE  IInv'
<1>1. CASE CountFails
  BY <1>1, ReturnHolds DEF CountFails
<1>2. CASE FillFailed
  BY <1>2, ReturnHolds DEF FillFailed
<1>3. CASE GiveUp
  BY <1>3, ReturnHolds DEF GiveUp
<1>4. CASE WalkEnds
  BY <1>4, ReturnHolds DEF WalkEnds
<1> QED
  BY <1>1, <1>2, <1>3, <1>4, CountHolds, CountedHolds, AllocateHolds, FillHolds, FilledHolds,
     RootHolds, KeyHolds, ObjectHolds, ArrayHolds, CheckedScalarHolds, ScalarHolds, SkipHolds,
     SkipTokenHolds, LoopEndsHolds, StutterHolds
     DEF ParseNext

--------------------------------------------------------------------------------
(* The tokens of JSON.                                                     *)

(* The first n tokens are a tree, in the order of the text.                *)
Children(toks, n, k) == {j \in 0 .. n - 1 : toks[j].parent = k}

(* Links go up, and the first token alone has none.                        *)
Rooted(toks, n) ==
    \A k \in 0 .. n - 1 :
        toks[k].parent \in -1 .. k - 1 /\ (toks[k].parent = -1 => k = 0)

(* What is between a token and its parent is below that parent.            *)
Nested(toks, n) ==
    \A t \in 0 .. n - 1 : \A j \in 0 .. n - 1 :
        toks[t].parent < j /\ j < t => toks[j].parent >= toks[t].parent

(* A size is the number of tokens linked to the token.                     *)
Sized(toks, n) ==
    \A k \in 0 .. n - 1 : toks[k].size = Cardinality(Children(toks, n, k))

(* In an object are keys, which are strings; a key has one value, but for  *)
(* one, fresh, whose value is still to come.                               *)
Shaped(toks, n, fresh) ==
    \A k \in 0 .. n - 1 :
        /\ toks[k].type \in {"OBJECT", "ARRAY", "STRING", "PRIMITIVE"}
        /\ toks[k].parent # -1 /\ toks[toks[k].parent].type = "OBJECT" =>
              toks[k].type = "STRING" /\ (k # fresh => toks[k].size = 1)
        /\ toks[k].type = "STRING" /\ toks[k].size # 0 =>
              /\ toks[k].size = 1 /\ toks[k].parent # -1
              /\ toks[toks[k].parent].type = "OBJECT"
        /\ toks[k].type = "PRIMITIVE" => toks[k].size = 0

(* What the tokens of JSON are.                                            *)
Tree(toks, n, fresh) ==
    Rooted(toks, n) /\ Nested(toks, n) /\ Sized(toks, n) /\ Shaped(toks, n, fresh)

(* The children of a token that are not in front of from.                  *)
Unread(toks, n, k, from) == {j \in Children(toks, n, k) : j >= from}

(* A key, by what CGLTF_CHECK_KEY looks at.                                *)
IsKey(toks, k) == toks[k].type = "STRING" /\ toks[k].size # 0

(* The object or array that cgltf_skip_json counts a token for: the value  *)
(* of a key is counted for with the key.                                   *)
Announcer(toks, t) ==
    IF toks[t].parent # -1 /\ IsKey(toks, toks[t].parent)
      THEN toks[toks[t].parent].parent ELSE toks[t].parent

(* The tokens from at on that a skip of v has counted.                     *)
Pending(toks, n, v, at) ==
    {t \in 0 .. n - 1 :
        t >= at /\ (t = v \/ (Announcer(toks, t) >= v /\ Announcer(toks, t) < at))}

(* The tokens that are counted when k is met.                              *)
Announced(toks, n, k) == {t \in 0 .. n - 1 : Announcer(toks, t) = k}

(* The tokens a loop may read the inside of.                               *)
Suits(kind, type) ==
    /\ kind = "keys" => type = "OBJECT"
    /\ kind = "value" => type = "STRING"
    /\ kind \in {"values", "scalars"} => type = "ARRAY"

(* Sets of tokens have sizes.                                              *)
LEMMA ChildrenAreFinite ==
  ASSUME NEW toks, NEW n \in Nat, NEW k
  PROVE  /\ IsFiniteSet(Children(toks, n, k))
         /\ Cardinality(Children(toks, n, k)) \in Nat
         /\ \A S \in SUBSET (0 .. n - 1) : IsFiniteSet(S) /\ Cardinality(S) \in Nat
<1>1. IsFiniteSet(0 .. n - 1)
  BY FS_Interval
<1>2. Children(toks, n, k) \in SUBSET (0 .. n - 1)
  BY DEF Children
<1> QED
  BY <1>1, <1>2, FS_Subset, FS_CardinalityType

(* So have those of children.                                              *)
LEMMA UnreadIsFinite ==
  ASSUME NEW toks, NEW n \in Nat, NEW k, NEW from
  PROVE  /\ IsFiniteSet(Unread(toks, n, k, from))
         /\ Cardinality(Unread(toks, n, k, from)) \in Nat
<1>1. Unread(toks, n, k, from) \in SUBSET (0 .. n - 1)
  BY DEF Unread, Children
<1> QED
  BY <1>1, ChildrenAreFinite

(* Behind a token are all of its children.                                 *)
LEMMA UnreadAll ==
  ASSUME NEW toks, NEW n \in Nat, Rooted(toks, n), NEW k \in 0 .. n - 1
  PROVE  Unread(toks, n, k, k + 1) = Children(toks, n, k)
<1>1. \A j \in Children(toks, n, k) : j >= k + 1
  BY DEF Children, Rooted
<1> QED
  BY <1>1 DEF Unread

(* One more token is read: there is one less if it was a child.            *)
LEMMA UnreadNext ==
  ASSUME NEW toks, NEW n \in Nat, NEW k, NEW from \in 0 .. n - 1
  PROVE  Cardinality(Unread(toks, n, k, from + 1)) =
             Cardinality(Unread(toks, n, k, from)) - (IF toks[from].parent = k THEN 1 ELSE 0)
<1> DEFINE U == Unread(toks, n, k, from)
<1>1. Unread(toks, n, k, from + 1) = U \ {from}
  BY DEF Unread, Children
<1>2. from \in U <=> toks[from].parent = k
  BY DEF Unread, Children
<1>3. IsFiniteSet(U) /\ Cardinality(U) \in Nat
  BY UnreadIsFinite
<1> HIDE DEF U
<1>4. Cardinality(U \ {from}) = IF from \in U THEN Cardinality(U) - 1 ELSE Cardinality(U)
  BY <1>3, FS_RemoveElement
<1> QED
  BY <1>1, <1>2, <1>3, <1>4 DEF U

LEMMA UnreadNone ==
  ASSUME NEW toks, NEW n \in Nat, NEW k, NEW from, Cardinality(Unread(toks, n, k, from)) = 0
  PROVE  Unread(toks, n, k, from) = {}
  BY UnreadIsFinite, FS_EmptySet

(* While a token has children to come, and the walk is at none of deeper   *)
(* descent, the next token is one.                                         *)
LEMMA UnreadIsNext ==
  ASSUME NEW toks, NEW n \in Nat, Rooted(toks, n), Nested(toks, n),
         NEW k \in 0 .. n - 1, NEW at \in 0 .. n, k < at,
         at < n => toks[at].parent <= k,
         Cardinality(Unread(toks, n, k, at)) # 0
  PROVE  at < n /\ toks[at].parent = k
<1>1. Unread(toks, n, k, at) # {}
  BY FS_EmptySet
<1>2. PICK j \in 0 .. n - 1 : toks[j].parent = k /\ j >= at
  BY <1>1 DEF Unread, Children
<1>3. at \in 0 .. n - 1
  BY <1>2
<1>4. CASE j = at
  BY <1>2, <1>3, <1>4
<1>5. CASE j > at
  <2>1. toks[at].parent >= k
    BY <1>2, <1>3, <1>5 DEF Nested
  <2>2. toks[at].parent \in Int
    BY <1>3 DEF Rooted
  <2> QED
    BY <1>3, <2>1, <2>2
<1> QED
  BY <1>2, <1>3, <1>4, <1>5

(* Behind a token without children, and behind the last child of one, the  *)
(* next token is no deeper than where it was.                              *)
LEMMA UpAgain ==
  ASSUME NEW toks, NEW n \in Nat, Rooted(toks, n), Nested(toks, n),
         NEW k \in 0 .. n - 1, NEW at \in 0 .. n - 1, k < at,
         toks[at].parent <= k, Unread(toks, n, k, at) = {}
  PROVE  toks[at].parent <= toks[k].parent
<1>1. toks[at].parent \in -1 .. at - 1 /\ toks[k].parent \in -1 .. k - 1
  BY DEF Rooted
<1>2. toks[at].parent # k
  BY DEF Unread, Children
<1>3. toks[at].parent < k
  BY <1>1, <1>2
<1> QED
  BY <1>1, <1>3 DEF Nested

(* A key has one value, and its object is there.                           *)
LEMMA KeyFacts ==
  ASSUME NEW toks, NEW n \in Nat, Tree(toks, n, -1), NEW k \in 0 .. n - 1, IsKey(toks, k)
  PROVE  /\ toks[k].parent \in 0 .. k - 1 /\ toks[toks[k].parent].type = "OBJECT"
         /\ \E c : Children(toks, n, k) = {c}
<1>1. /\ toks[k].parent \in -1 .. k - 1 /\ toks[k].parent # -1
      /\ toks[toks[k].parent].type = "OBJECT" /\ toks[k].size = 1
  BY DEF Tree, Rooted, Shaped, IsKey
<1>2. Cardinality(Children(toks, n, k)) = 1
  BY <1>1 DEF Tree, Sized
<1>3. \E c : Children(toks, n, k) = {c}
  BY <1>2, ChildrenAreFinite, FS_Singleton
<1> QED
  BY <1>1, <1>3

(* Both kinds of links go up.                                              *)
LEMMA AnnouncerIs ==
  ASSUME NEW toks, NEW n \in Nat, Tree(toks, n, -1), NEW t \in 0 .. n - 1
  PROVE  /\ Announcer(toks, t) \in -1 .. t - 1
         /\ toks[t].parent \in -1 .. t - 1
<1>1. toks[t].parent \in -1 .. t - 1
  BY DEF Tree, Rooted
<1>2. CASE toks[t].parent # -1 /\ IsKey(toks, toks[t].parent)
  <2>1. PICK k \in 0 .. n - 1 : k = toks[t].parent
    BY <1>1, <1>2
  <2>2. toks[k].parent \in 0 .. k - 1
    BY <1>2, <2>1, KeyFacts
  <2>3. Announcer(toks, t) = toks[k].parent
    BY <1>2, <2>1 DEF Announcer
  <2> QED
    BY <1>1, <2>1, <2>2, <2>3
<1> QED
  BY <1>1, <1>2 DEF Announcer

(* How many tokens a token announces: what cgltf_skip_json adds for it.    *)
LEMMA ObjectAnnounces ==
  ASSUME NEW toks, NEW n \in Nat, Tree(toks, n, -1), NEW k \in 0 .. n - 1,
         toks[k].type = "OBJECT"
  PROVE  Cardinality(Announced(toks, n, k)) = toks[k].size * 2
<1> DEFINE C == Children(toks, n, k)
           G == {t \in 0 .. n - 1 : toks[t].parent \in C}
           value == [c \in C |-> CHOOSE t : Children(toks, n, c) = {t}]
<1>1. \A c \in C : c \in 0 .. n - 1 /\ c > k /\ IsKey(toks, c) /\ toks[c].parent = k
  <2> SUFFICES ASSUME NEW c \in C
               PROVE  c \in 0 .. n - 1 /\ c > k /\ IsKey(toks, c) /\ toks[c].parent = k
    OBVIOUS
  <2>1. c \in 0 .. n - 1 /\ toks[c].parent = k
    BY DEF Children
  <2>2. c > k
    BY <2>1 DEF Tree, Rooted
  <2>3. toks[c].type = "STRING" /\ toks[c].size = 1
    BY <2>1, <2>2 DEF Tree, Shaped
  <2> QED
    BY <2>1, <2>2, <2>3 DEF IsKey
<1>2. \A c \in C : Children(toks, n, c) = {value[c]}
  <2> SUFFICES ASSUME NEW c \in C
               PROVE  Children(toks, n, c) = {value[c]}
    OBVIOUS
  <2>1. \E t : Children(toks, n, c) = {t}
    BY <1>1, KeyFacts
  <2>2. Children(toks, n, c) = {CHOOSE t : Children(toks, n, c) = {t}}
    BY <2>1
  <2>3. value[c] = CHOOSE t : Children(toks, n, c) = {t}
    OBVIOUS
  <2> QED
    BY Zenon, <2>2, <2>3
<1>3. DOMAIN value = C
  OBVIOUS
<1> HIDE DEF value
<1>4. \A c \in C : value[c] \in 0 .. n - 1 /\ toks[value[c]].parent = c
  <2> SUFFICES ASSUME NEW c \in C
               PROVE  value[c] \in 0 .. n - 1 /\ toks[value[c]].parent = c
    OBVIOUS
  <2>1. value[c] \in Children(toks, n, c)
    BY <1>2
  <2> QED
    BY <2>1 DEF Children
<1>5. \A t \in G : value[toks[t].parent] = t
  <2> SUFFICES ASSUME NEW t \in G
               PROVE  value[toks[t].parent] = t
    OBVIOUS
  <2>1. t \in Children(toks, n, toks[t].parent)
    BY DEF Children
  <2>2. Children(toks, n, toks[t].parent) = {value[toks[t].parent]}
    BY <1>2
  <2> HIDE DEF G, C
  <2> QED
    BY <2>1, <2>2
<1>6. value \in Bijection(C, G)
  <2>1. value \in [C -> G]
    <3>1. \A c \in C : value[c] \in G
      BY <1>4
    <3>2. value = [c \in C |-> value[c]]
      BY DEF value
    <3> HIDE DEF C, G
    <3> QED
      BY <1>3, <3>1, <3>2
  <2>2. \A c, d \in C : value[c] = value[d] => c = d
    <3> HIDE DEF C, G
    <3> QED
      BY <1>4
  <2>3. \A t \in G : \E c \in C : value[c] = t
    BY <1>5
  <2> HIDE DEF C, G
  <2> QED
    BY <2>1, <2>2, <2>3 DEF Bijection, Injection, Surjection, IsInjective
<1>7. IsFiniteSet(C) /\ Cardinality(C) \in Nat /\ IsFiniteSet(G)
  <2>1. G \in SUBSET (0 .. n - 1)
    OBVIOUS
  <2> HIDE DEF G
  <2> QED
    BY <2>1, ChildrenAreFinite
<1>8. Cardinality(G) = Cardinality(C)
  <2> HIDE DEF C, G
  <2>1. ExistsBijection(C, G)
    BY <1>6 DEF ExistsBijection
  <2> QED
    BY <1>7, <2>1, FS_Bijection
<1>9. C \cap G = {}
  <2> SUFFICES ASSUME NEW t \in C, t \in G
               PROVE  FALSE
    OBVIOUS
  <2>1. toks[t].parent = k /\ toks[t].parent \in C
    BY DEF Children
  <2>2. k > k /\ k \in Int
    BY <1>1, <2>1
  <2> QED
    BY <2>2
<1>10. Announced(toks, n, k) = C \cup G
  <2>1. \A t \in C : t \in 0 .. n - 1 /\ Announcer(toks, t) = k
    <3> SUFFICES ASSUME NEW t \in C
                 PROVE  t \in 0 .. n - 1 /\ Announcer(toks, t) = k
      OBVIOUS
    <3>1. t \in 0 .. n - 1 /\ toks[t].parent = k
      BY <1>1
    <3>2. ~IsKey(toks, k)
      BY DEF IsKey
    <3> QED
      BY <3>1, <3>2 DEF Announcer
  <2>2. \A t \in G : t \in 0 .. n - 1 /\ Announcer(toks, t) = k
    <3> SUFFICES ASSUME NEW t \in G
                 PROVE  t \in 0 .. n - 1 /\ Announcer(toks, t) = k
      OBVIOUS
    <3>1. PICK c \in C : c = toks[t].parent
      OBVIOUS
    <3>2. c # -1 /\ IsKey(toks, c) /\ toks[c].parent = k
      BY <1>1, <3>1
    <3>3. t \in 0 .. n - 1
      OBVIOUS
    <3> HIDE DEF C, G
    <3> QED
      BY <3>1, <3>2, <3>3 DEF Announcer
  <2>3. ASSUME NEW t \in 0 .. n - 1, Announcer(toks, t) = k
        PROVE  t \in C \cup G
    <3>1. CASE toks[t].parent # -1 /\ IsKey(toks, toks[t].parent)
      <4>1. toks[t].parent \in 0 .. n - 1
        BY <2>3, <3>1, AnnouncerIs
      <4>2. toks[toks[t].parent].parent = k
        BY <2>3, <3>1 DEF Announcer
      <4>3. toks[t].parent \in C
        BY <4>1, <4>2 DEF Children
      <4> QED
        BY <4>3
    <3>2. CASE ~(toks[t].parent # -1 /\ IsKey(toks, toks[t].parent))
      <4>1. toks[t].parent = k
        BY <2>3, <3>2 DEF Announcer
      <4> QED
        BY <4>1 DEF Children
    <3> QED
      BY <3>1, <3>2
  <2> HIDE DEF C, G
  <2>4. \A t : t \in Announced(toks, n, k) <=> t \in 0 .. n - 1 /\ Announcer(toks, t) = k
    BY DEF Announced
  <2> QED
    BY <2>1, <2>2, <2>3, <2>4
<1> HIDE DEF G
<1>11. Cardinality(C \cup G) = Cardinality(C) + Cardinality(G) - Cardinality(C \cap G)
  BY <1>7, FS_Union
<1>12. Cardinality(C \cap G) = 0
  BY <1>9, FS_EmptySet
<1>13. toks[k].size = Cardinality(C)
  BY DEF Tree, Sized
<1> HIDE DEF C
<1>14. PICK s \in Nat : s = toks[k].size
  BY <1>7, <1>13
<1>15. Cardinality(Announced(toks, n, k)) = s + s
  BY <1>7, <1>8, <1>10, <1>11, <1>12, <1>13, <1>14
<1> QED
  BY <1>14, <1>15

(* An array counts for its elements, and anything else for nothing.        *)
LEMMA OthersAnnounce ==
  ASSUME NEW toks, NEW n \in Nat, Tree(toks, n, -1), NEW k \in 0 .. n - 1,
         toks[k].type # "OBJECT"
  PROVE  Cardinality(Announced(toks, n, k)) =
             IF toks[k].type = "ARRAY" THEN toks[k].size ELSE 0
<1>1. \A t \in 0 .. n - 1 :
          Announcer(toks, t) = k <=> toks[t].parent = k /\ ~IsKey(toks, k)
  <2> SUFFICES ASSUME NEW t \in 0 .. n - 1
               PROVE  Announcer(toks, t) = k <=> toks[t].parent = k /\ ~IsKey(toks, k)
    OBVIOUS
  <2>1. CASE toks[t].parent # -1 /\ IsKey(toks, toks[t].parent)
    <3>1. PICK c \in 0 .. n - 1 : c = toks[t].parent
      BY <2>1, AnnouncerIs
    <3>2. toks[c].parent # k
      BY <2>1, <3>1, KeyFacts
    <3> QED
      BY <2>1, <3>1, <3>2 DEF Announcer
  <2>2. CASE ~(toks[t].parent # -1 /\ IsKey(toks, toks[t].parent))
    BY <2>2 DEF Announcer
  <2> QED
    BY <2>1, <2>2
<1>2. CASE toks[k].type = "ARRAY"
  <2>1. ~IsKey(toks, k)
    BY <1>2 DEF IsKey
  <2>2. Announced(toks, n, k) = Children(toks, n, k)
    BY <1>1, <2>1 DEF Announced, Children
  <2> QED
    BY <1>2, <2>2 DEF Tree, Sized
<1>3. CASE toks[k].type # "ARRAY"
  <2>1. toks[k].type = "STRING" \/ toks[k].type = "PRIMITIVE"
    BY <1>3 DEF Tree, Shaped
  <2>2. IsKey(toks, k) \/ toks[k].size = 0
    BY <2>1 DEF Tree, Shaped, IsKey
  <2>3. IsKey(toks, k) \/ Children(toks, n, k) = {}
    <3>1. CASE toks[k].size = 0
      <4>1. Cardinality(Children(toks, n, k)) = 0
        BY <3>1 DEF Tree, Sized
      <4> QED
        BY <4>1, ChildrenAreFinite, FS_EmptySet
    <3> QED
      BY <2>2, <3>1
  <2>4. Announced(toks, n, k) = {}
    BY <1>1, <2>3 DEF Announced, Children
  <2> QED
    BY <1>3, <2>4, FS_EmptySet
<1> QED
  BY <1>2, <1>3

(* What is counted has a size.                                             *)
LEMMA PendingIsFinite ==
  ASSUME NEW toks, NEW n \in Nat, NEW v, NEW at
  PROVE  /\ IsFiniteSet(Pending(toks, n, v, at))
         /\ Cardinality(Pending(toks, n, v, at)) \in Nat
<1>1. Pending(toks, n, v, at) \in SUBSET (0 .. n - 1)
  BY DEF Pending
<1> QED
  BY <1>1, ChildrenAreFinite

(* At the value itself, it is all that is announced.                       *)
LEMMA PendingFirst ==
  ASSUME NEW toks, NEW n \in Nat, NEW v \in 0 .. n - 1, Tree(toks, n, -1)
  PROVE  Cardinality(Pending(toks, n, v, v)) = 1
<1>1. \A t \in 0 .. n - 1 : Announcer(toks, t) \in Int
  BY AnnouncerIs
<1>2. Pending(toks, n, v, v) = {v}
  BY <1>1 DEF Pending
<1> QED
  BY <1>2, FS_Singleton

(* What is below the value and comes next has been announced.              *)
LEMMA BelowIsPending ==
  ASSUME NEW toks, NEW n \in Nat, Tree(toks, n, -1), NEW v \in 0 .. n - 1, ~IsKey(toks, v),
         NEW at \in v .. n - 1, \A t \in v + 1 .. at - 1 : toks[t].parent >= v,
         at = v \/ toks[at].parent >= v
  PROVE  at \in Pending(toks, n, v, at)
<1>1. CASE at = v
  BY <1>1 DEF Pending
<1>2. CASE at # v
  <2>1. /\ at \in 0 .. n - 1 /\ toks[at].parent \in v .. at - 1
        /\ Announcer(toks, at) \in -1 .. at - 1
    BY <1>2, AnnouncerIs
  <2>2. Announcer(toks, at) >= v
    <3>1. CASE IsKey(toks, toks[at].parent)
      <4>1. PICK k \in v + 1 .. at - 1 : k = toks[at].parent
        BY <2>1, <3>1
      <4>2. toks[k].parent >= v
        BY <4>1
      <4>3. Announcer(toks, at) = toks[k].parent
        BY <3>1, <4>1 DEF Announcer
      <4> QED
        BY <4>2, <4>3
    <3>2. CASE ~IsKey(toks, toks[at].parent)
      BY <2>1, <3>2 DEF Announcer
    <3> QED
      BY <3>1, <3>2
  <2> QED
    BY <2>1, <2>2 DEF Pending
<1> QED
  BY <1>1, <1>2

(* While something is announced, the next token is below the value.        *)
LEMMA PendingIsBelow ==
  ASSUME NEW toks, NEW n \in Nat, Tree(toks, n, -1), NEW v \in 0 .. n - 1,
         NEW at \in v + 1 .. n, Cardinality(Pending(toks, n, v, at)) # 0
  PROVE  at < n /\ toks[at].parent >= v
<1>1. PICK t \in Pending(toks, n, v, at) : TRUE
  BY FS_EmptySet
<1>2. t \in 0 .. n - 1 /\ t >= at /\ Announcer(toks, t) >= v /\ Announcer(toks, t) < at
  BY <1>1 DEF Pending
<1>3. at \in 0 .. n - 1 /\ toks[at].parent \in -1 .. at - 1
  BY <1>2, AnnouncerIs
<1>4. CASE toks[t].parent # -1 /\ IsKey(toks, toks[t].parent)
  <2>1. PICK k \in 0 .. t - 1 : k = toks[t].parent
    BY <1>2, <1>4, AnnouncerIs
  <2>2. Announcer(toks, t) = toks[k].parent /\ toks[k].parent \in 0 .. k - 1
    BY <1>2, <1>4, <2>1, KeyFacts DEF Announcer
  <2>3. CASE k < at
    <3>1. t = at \/ toks[at].parent >= k
      BY <1>2, <1>3, <2>1, <2>3 DEF Tree, Nested
    <3> QED
      BY <1>2, <1>3, <2>1, <2>2, <3>1
  <2>4. CASE k = at
    BY <1>2, <1>3, <2>1, <2>2, <2>4
  <2>5. CASE k > at
    <3>1. k \in 0 .. n - 1 /\ toks[k].parent < at /\ at < k
      BY <1>2, <2>1, <2>2, <2>5
    <3>2. toks[at].parent >= toks[k].parent
      BY <1>3, <3>1 DEF Tree, Nested
    <3> QED
      BY <1>2, <1>3, <2>2, <3>2
  <2> QED
    BY <1>2, <2>1, <2>3, <2>4, <2>5
<1>5. CASE ~(toks[t].parent # -1 /\ IsKey(toks, toks[t].parent))
  <2>1. Announcer(toks, t) = toks[t].parent
    BY <1>5 DEF Announcer
  <2>2. t = at \/ toks[at].parent >= toks[t].parent
    BY <1>2, <1>3, <2>1 DEF Tree, Nested
  <2>3. toks[t].parent \in Int
    BY <1>2, AnnouncerIs
  <2> QED
    BY <1>2, <1>3, <2>1, <2>2, <2>3
<1> QED
  BY <1>4, <1>5

(* A round of cgltf_skip_json: what it reads was announced, and it counts  *)
(* what is announced by that.                                              *)
LEMMA PendingNext ==
  ASSUME NEW toks, NEW n \in Nat, Tree(toks, n, -1), NEW v \in 0 .. n - 1,
         NEW at \in v .. n - 1, at \in Pending(toks, n, v, at)
  PROVE  Cardinality(Pending(toks, n, v, at + 1)) =
             Cardinality(Pending(toks, n, v, at)) - 1 + Cardinality(Announced(toks, n, at))
<1> DEFINE P == Pending(toks, n, v, at)
           A == Announced(toks, n, at)
<1>1. \A t \in 0 .. n - 1 : Announcer(toks, t) \in Int /\ Announcer(toks, t) < t
  BY AnnouncerIs
<1>2. Pending(toks, n, v, at + 1) = (P \ {at}) \cup A
  <2>1. \A t \in 0 .. n - 1 : t \in Pending(toks, n, v, at + 1) <=> t \in (P \ {at}) \cup A
    <3> SUFFICES ASSUME NEW t \in 0 .. n - 1
                 PROVE  t \in Pending(toks, n, v, at + 1) <=> t \in (P \ {at}) \cup A
      OBVIOUS
    <3>1. PICK a \in Int : a = Announcer(toks, t) /\ a < t
      BY <1>1
    <3>2. t \in Pending(toks, n, v, at + 1) <=> t >= at + 1 /\ (t = v \/ (a >= v /\ a < at + 1))
      BY <3>1 DEF Pending
    <3>3. t \in P <=> t >= at /\ (t = v \/ (a >= v /\ a < at))
      BY <3>1 DEF Pending
    <3>4. t \in A <=> a = at
      BY <3>1 DEF Announced
    <3> HIDE DEF P, A
    <3> QED
      BY <3>1, <3>2, <3>3, <3>4
  <2>2. /\ Pending(toks, n, v, at + 1) \subseteq 0 .. n - 1
        /\ (P \ {at}) \cup A \subseteq 0 .. n - 1
    BY DEF Pending, Announced
  <2> HIDE DEF P, A
  <2> QED
    BY <2>1, <2>2
<1>3. (P \ {at}) \cap A = {}
  BY <1>1 DEF Pending, Announced
<1>4. IsFiniteSet(P) /\ Cardinality(P) \in Nat
  BY PendingIsFinite
<1>5. IsFiniteSet(A) /\ Cardinality(A) \in Nat
  <2>1. A \in SUBSET (0 .. n - 1)
    BY DEF Announced
  <2> HIDE DEF A
  <2> QED
    BY <2>1, ChildrenAreFinite
<1> HIDE DEF P, A
<1>6. IsFiniteSet(P \ {at}) /\ Cardinality(P \ {at}) = Cardinality(P) - 1
  BY <1>4, FS_RemoveElement DEF P
<1>7. Cardinality((P \ {at}) \cup A)
          = Cardinality(P \ {at}) + Cardinality(A) - Cardinality((P \ {at}) \cap A)
  BY <1>5, <1>6, FS_Union
<1>8. Cardinality((P \ {at}) \cap A) = 0
  BY <1>3, FS_EmptySet
<1>9. Cardinality((P \ {at}) \cup A) = Cardinality(P) - 1 + Cardinality(A)
  <2>1. PICK p \in Nat, a \in Nat : p = Cardinality(P) /\ a = Cardinality(A)
    BY <1>4, <1>5
  <2> QED
    BY <1>6, <1>7, <1>8, <2>1
<1>10. Cardinality(Pending(toks, n, v, at + 1)) = Cardinality(P) - 1 + Cardinality(A)
  BY <1>2, <1>9
<1> QED
  BY Zenon, <1>10 DEF P, A

(* When nothing is announced any more, the value has been read over.       *)
LEMMA PendingNone ==
  ASSUME NEW toks, NEW n \in Nat, Tree(toks, n, -1), NEW v \in 0 .. n - 1, ~IsKey(toks, v),
         NEW at \in v .. n, \A t \in v + 1 .. at - 1 : toks[t].parent >= v,
         Cardinality(Pending(toks, n, v, at)) = 0
  PROVE  at > v /\ (at < n => toks[at].parent <= toks[v].parent)
<1>1. Pending(toks, n, v, at) = {}
  BY PendingIsFinite, FS_EmptySet
<1>2. at < n => at # v /\ ~(toks[at].parent >= v)
  BY <1>1, BelowIsPending
<1>3. ASSUME at < n
      PROVE  toks[at].parent <= toks[v].parent
  <2>1. at \in 0 .. n - 1 /\ toks[at].parent \in -1 .. at - 1
    BY <1>3, AnnouncerIs
  <2>2. toks[at].parent < v /\ v < at
    BY <1>2, <1>3, <2>1
  <2> QED
    BY <2>1, <2>2 DEF Tree, Nested
<1> QED
  BY <1>2, <1>3

--------------------------------------------------------------------------------
(* Loops in step.                                                          *)

(* What has been read of the children of the loops' tokens: the value that *)
(* cgltf_skip_json is about to read counts as read.                        *)
Ahead(loops, at) ==
    IF loops # << >> /\ loops[Len(loops)].kind = "skip" /\ loops[Len(loops)].of = at
      THEN at + 1 ELSE at

(* A loop belongs to a token that suits it, and is entered from its parent's. *)
Belongs(toks, n, loops, f) ==
    /\ loops[f].of \in 0 .. n - 1 /\ Suits(loops[f].kind, toks[loops[f].of].type)
    /\ f = 1 => loops[f].of = 0 /\ loops[f].kind # "skip"
    /\ f > 1 => toks[loops[f].of].parent = loops[f - 1].of
    /\ loops[f].kind = "skip" => f = Len(loops) /\ loops[f - 1].kind = "value"

(* A loop that reads has its token's children before it.                   *)
Reads(toks, n, loop, from, at) ==
    loop.kind # "skip" =>
        loop.of < at /\ loop.left = Cardinality(Unread(toks, n, loop.of, from))

(* A loop that skips has before it what is announced, and behind it only   *)
(* what is below its value.                                                *)
Skips(toks, n, loop, at) ==
    /\ loop.of <= at /\ loop.left = Cardinality(Pending(toks, n, loop.of, at))
    /\ \A t \in loop.of + 1 .. at - 1 : toks[t].parent >= loop.of

(* The loops of a walk that is in step: each has before it what is left of *)
(* its token, and belongs to the one around it.                            *)
InStep(toks, n, loops, at) ==
    /\ at \in 1 .. n
    /\ \A f \in 1 .. Len(loops) :
          Belongs(toks, n, loops, f) /\ Reads(toks, n, loops[f], Ahead(loops, at), at)
    /\ \A f \in 1 .. Len(loops) : \A g \in 1 .. Len(loops) :
          f < g => loops[f].of < loops[g].of
    /\ loops # << >> =>
          IF loops[Len(loops)].kind = "skip" THEN Skips(toks, n, loops[Len(loops)], at)
          ELSE at < n => toks[at].parent <= loops[Len(loops)].of
    /\ loops = << >> => at = n

(* A round changes what is left in the innermost loop, and nothing else.   *)
LEMMA RoundKeeps ==
  ASSUME NEW loops \in Seq(Loops), loops # << >>, NEW left \in Nat
  PROVE  /\ Round(loops, left) \in Seq(Loops)
         /\ Len(Round(loops, left)) = Len(loops)
         /\ Len(loops) \in Nat \ {0}
         /\ \A f \in 1 .. Len(loops) :
               /\ Round(loops, left)[f].kind = loops[f].kind
               /\ Round(loops, left)[f].of = loops[f].of
               /\ Round(loops, left)[f].left = IF f = Len(loops) THEN left ELSE loops[f].left
<1>1. /\ Round(loops, left) \in Seq(Loops)
      /\ Len(Round(loops, left)) = Len(loops) /\ Len(loops) \in Nat \ {0}
      /\ Round(loops, left)[Len(loops)].left = left
      /\ \A f \in 1 .. Len(loops) :
               /\ f # Len(loops) => Round(loops, left)[f] = loops[f]
               /\ Round(loops, left)[f].kind = loops[f].kind
  BY RoundIs
<1>2. loops[Len(loops)] \in Loops /\ DOMAIN loops = 1 .. Len(loops)
  BY <1>1
<1>3. [loops[Len(loops)] EXCEPT !.left = left].of = loops[Len(loops)].of
  BY <1>2 DEF Loops
<1>4. Round(loops, left)[Len(loops)] = [loops[Len(loops)] EXCEPT !.left = left]
  BY <1>1, <1>2 DEF Round
<1>5. Round(loops, left)[Len(loops)].of = loops[Len(loops)].of
  BY <1>3, <1>4
<1> QED
  BY <1>1, <1>5

(* The next token belongs to the loop that reads it.                       *)
LEMMA NextBelongs ==
  ASSUME NEW toks, NEW n \in Nat, Tree(toks, n, -1), NEW loops \in Seq(Loops), NEW at,
         InStep(toks, n, loops, at), loops # << >>,
         loops[Len(loops)].kind # "skip", loops[Len(loops)].left > 0
  PROVE  /\ at \in 1 .. n - 1 /\ Len(loops) \in Nat \ {0}
         /\ toks[at].parent = loops[Len(loops)].of
         /\ Ahead(loops, at) = at
<1>1. Len(loops) \in Nat \ {0} /\ Ahead(loops, at) = at
  BY EmptySeq DEF Ahead
<1> DEFINE k == loops[Len(loops)].of
<1>2. /\ k \in 0 .. n - 1 /\ at \in 1 .. n /\ k < at
      /\ loops[Len(loops)].left = Cardinality(Unread(toks, n, k, at))
      /\ at < n => toks[at].parent <= k
  BY <1>1 DEF InStep, Belongs, Reads
<1>3. Cardinality(Unread(toks, n, k, at)) # 0
  BY <1>2
<1> HIDE DEF k
<1>4. at < n /\ toks[at].parent = k
  BY <1>2, <1>3, UnreadIsNext DEF Tree
<1> QED
  BY <1>1, <1>2, <1>4 DEF k

(* What the loops around have to read when a token has been read.          *)
LEMMA ReadsOn ==
  ASSUME NEW toks, NEW n \in Nat, NEW loop \in Loops, NEW at \in 0 .. n - 1,
         loop.of \in 0 .. n - 1, NEW from \in at .. at + 1,
         Reads(toks, n, loop, from, at), from = at => toks[at].parent # loop.of
  PROVE  Reads(toks, n, loop, at + 1, at + 1)
<1>1. CASE from = at
  <2>1. Cardinality(Unread(toks, n, loop.of, at + 1)) =
            Cardinality(Unread(toks, n, loop.of, at)) - 0
    BY <1>1, UnreadNext
  <2>2. Cardinality(Unread(toks, n, loop.of, at)) \in Nat
    BY UnreadIsFinite
  <2> QED
    BY <1>1, <2>1, <2>2 DEF Reads
<1>2. CASE from = at + 1
  BY <1>2 DEF Reads
<1> QED
  BY <1>1, <1>2

(* A round that reads a token, and may enter a loop over what is in it.    *)
LEMMA RoundInStep ==
  ASSUME NEW toks, NEW n \in Nat, Tree(toks, n, -1), NEW loops \in Seq(Loops), NEW at,
         InStep(toks, n, loops, at), loops # << >>,
         loops[Len(loops)].kind # "skip", loops[Len(loops)].left > 0
  PROVE  \A f \in 1 .. Len(loops) :
            LET loop == Round(loops, loops[Len(loops)].left - 1)[f]
            IN  Reads(toks, n, loop, at + 1, at + 1)
<1>1. /\ at \in 1 .. n - 1 /\ Len(loops) \in Nat \ {0}
      /\ toks[at].parent = loops[Len(loops)].of /\ Ahead(loops, at) = at
  BY NextBelongs
<1>2. loops[Len(loops)].left \in Nat \ {0}
  <2>1. loops[Len(loops)] \in Loops
    BY <1>1
  <2> QED
    BY <2>1 DEF Loops
<1>3. PICK left \in Nat : left = loops[Len(loops)].left - 1
  BY <1>2
<1> DEFINE r == Round(loops, left)
<1>4. \A f \in 1 .. Len(loops) :
          /\ r[f].kind = loops[f].kind /\ r[f].of = loops[f].of
          /\ r[f].left = IF f = Len(loops) THEN left ELSE loops[f].left
  BY RoundKeeps
<1> HIDE DEF r
<1>5. ASSUME NEW f \in 1 .. Len(loops)
      PROVE  Reads(toks, n, r[f], at + 1, at + 1)
  <2>1. /\ loops[f] \in Loops /\ loops[f].of \in 0 .. n - 1
        /\ Reads(toks, n, loops[f], at, at)
    BY <1>1 DEF InStep, Belongs
  <2>2. CASE f # Len(loops)
    <3>1. loops[f].of # toks[at].parent
      BY <1>1, <2>2 DEF InStep, Belongs
    <3>2. PICK from \in at .. at + 1 : from = at
      BY <1>1
    <3>3. Reads(toks, n, loops[f], at + 1, at + 1)
      BY <1>1, <2>1, <3>1, <3>2, ReadsOn
    <3> QED
      BY <1>4, <2>2, <3>3 DEF Reads
  <2>3. CASE f = Len(loops)
    <3>1. Cardinality(Unread(toks, n, loops[f].of, at + 1)) =
              Cardinality(Unread(toks, n, loops[f].of, at)) - 1
      BY <1>1, <2>3, UnreadNext
    <3> QED
      BY <1>1, <1>3, <1>4, <2>1, <2>3, <3>1 DEF Reads
  <2> QED
    BY <2>2, <2>3
<1> QED
  BY <1>3, <1>5 DEF r

(* A token without children is read.                                       *)
LEMMA LeafInStep ==
  ASSUME NEW toks, NEW n \in Nat, Tree(toks, n, -1), NEW loops \in Seq(Loops), NEW at,
         InStep(toks, n, loops, at), loops # << >>,
         loops[Len(loops)].kind # "skip", loops[Len(loops)].left > 0, toks[at].size = 0
  PROVE  InStep(toks, n, Round(loops, loops[Len(loops)].left - 1), at + 1)
<1>1. /\ at \in 1 .. n - 1 /\ Len(loops) \in Nat \ {0}
      /\ toks[at].parent = loops[Len(loops)].of
  BY NextBelongs
<1>2. loops[Len(loops)].left \in Nat \ {0}
  <2>1. loops[Len(loops)] \in Loops
    BY <1>1
  <2> QED
    BY <2>1 DEF Loops
<1>3. PICK left \in Nat : left = loops[Len(loops)].left - 1
  BY <1>2
<1> DEFINE r == Round(loops, left)
<1>4. /\ Len(r) = Len(loops) /\ r \in Seq(Loops)
      /\ \A f \in 1 .. Len(loops) :
          /\ r[f].kind = loops[f].kind /\ r[f].of = loops[f].of
          /\ r[f].left = IF f = Len(loops) THEN left ELSE loops[f].left
  BY RoundKeeps
<1>5. \A f \in 1 .. Len(loops) : Reads(toks, n, r[f], at + 1, at + 1)
  BY <1>3, RoundInStep
<1> HIDE DEF r
<1>6. r # << >> /\ r[Len(r)].kind # "skip" /\ Ahead(r, at + 1) = at + 1
  BY <1>1, <1>4 DEF Ahead
<1>7. ASSUME NEW f \in 1 .. Len(r)
      PROVE  Belongs(toks, n, r, f)
  <2>1. f \in 1 .. Len(loops) /\ Belongs(toks, n, loops, f)
    BY <1>4 DEF InStep
  <2>2. f > 1 => f - 1 \in 1 .. Len(loops)
    BY <1>1, <2>1
  <2>3. loops[f].kind # "skip"
    BY <2>1 DEF Belongs
  <2> QED
    BY <1>4, <2>1, <2>2, <2>3 DEF Belongs
<1>8. at + 1 < n => toks[at + 1].parent <= r[Len(r)].of
  <2>1. SUFFICES ASSUME at + 1 < n
                 PROVE  toks[at + 1].parent <= toks[at].parent
    BY <1>1, <1>4
  <2>2. toks[at + 1].parent <= at
    BY <1>1, <2>1 DEF Tree, Rooted
  <2>3. Cardinality(Children(toks, n, at)) = 0
    BY <1>1 DEF Tree, Sized
  <2>4. Unread(toks, n, at, at + 1) = {}
    BY <1>1, <2>3, ChildrenAreFinite, FS_EmptySet DEF Unread
  <2>5. PICK next \in 0 .. n - 1 : next = at + 1
    BY <1>1, <2>1
  <2> QED
    BY <1>1, <2>2, <2>4, <2>5, UpAgain DEF Tree
<1>9. InStep(toks, n, r, at + 1)
  BY <1>1, <1>4, <1>5, <1>6, <1>7, <1>8 DEF InStep
<1> QED
  BY <1>3, <1>9 DEF r

(* A loop that is entered from a round of another one.                     *)
LEMMA Entered ==
  ASSUME NEW toks, NEW n \in Nat, Tree(toks, n, -1), NEW loops \in Seq(Loops), NEW at,
         InStep(toks, n, loops, at), loops # << >>,
         loops[Len(loops)].kind # "skip", loops[Len(loops)].left > 0,
         NEW inner \in Loops, inner.of = at, Suits(inner.kind, toks[at].type),
         inner.kind = "skip" => loops[Len(loops)].kind = "value",
         inner.kind # "skip" => inner.left = toks[at].size,
         inner.kind = "skip" => inner.left = 1,
         NEW next, next = IF inner.kind = "skip" THEN at ELSE at + 1
  PROVE  InStep(toks, n, Append(Round(loops, loops[Len(loops)].left - 1), inner), next)
<1>1. /\ at \in 1 .. n - 1 /\ Len(loops) \in Nat \ {0}
      /\ toks[at].parent = loops[Len(loops)].of
  BY NextBelongs
<1>2. loops[Len(loops)].left \in Nat \ {0}
  <2>1. loops[Len(loops)] \in Loops
    BY <1>1
  <2> QED
    BY <2>1 DEF Loops
<1>3. PICK left \in Nat : left = loops[Len(loops)].left - 1
  BY <1>2
<1>4. PICK last \in Nat \ {0} : last = Len(loops)
  BY <1>1
<1> DEFINE r == Round(loops, left)
           p == Append(r, inner)
<1>5. /\ Len(r) = last /\ r \in Seq(Loops)
      /\ \A f \in 1 .. last :
          /\ r[f].kind = loops[f].kind /\ r[f].of = loops[f].of
          /\ r[f].left = IF f = last THEN left ELSE loops[f].left
  BY <1>4, RoundKeeps
<1>6. \A f \in 1 .. last : Reads(toks, n, r[f], at + 1, at + 1)
  BY <1>3, <1>4, RoundInStep
<1> HIDE DEF r
<1>7. /\ p \in Seq(Loops) /\ Len(p) = last + 1 /\ p[last + 1] = inner
      /\ \A f \in 1 .. last : p[f] = r[f]
  BY <1>5, AppendProperties
<1> HIDE DEF p
<1>8. p # << >> /\ Ahead(p, next) = at + 1
  BY <1>1, <1>7 DEF Ahead
<1>9. ASSUME NEW f \in 1 .. last
      PROVE  /\ Belongs(toks, n, p, f) /\ Reads(toks, n, p[f], at + 1, next)
             /\ p[f].of < at
  <2>1. /\ Belongs(toks, n, loops, f) /\ Reads(toks, n, loops[f], Ahead(loops, at), at)
        /\ f \in 1 .. Len(loops)
    BY <1>4 DEF InStep
  <2>2. f > 1 => f - 1 \in 1 .. last
    OBVIOUS
  <2>3. loops[f].kind # "skip"
    BY <1>4, <2>1 DEF Belongs
  <2>4. Belongs(toks, n, p, f)
    BY <1>4, <1>5, <1>7, <2>1, <2>2, <2>3 DEF Belongs
  <2>5. p[f].of < at
    BY <1>5, <1>7, <2>1, <2>3 DEF Reads
  <2>6. Reads(toks, n, p[f], at + 1, next)
    BY <1>1, <1>6, <1>7, <2>5 DEF Reads
  <2> QED
    BY <2>4, <2>5, <2>6
<1>10. Belongs(toks, n, p, last + 1)
  BY <1>1, <1>4, <1>5, <1>7 DEF Belongs
<1>11. Reads(toks, n, inner, at + 1, next)
  <2>1. SUFFICES ASSUME inner.kind # "skip"
                 PROVE  inner.left = Cardinality(Unread(toks, n, at, at + 1)) /\ at < next
    BY DEF Reads
  <2>2. Unread(toks, n, at, at + 1) = Children(toks, n, at)
    BY <1>1, UnreadAll DEF Tree
  <2> QED
    BY <1>1, <2>1, <2>2 DEF Tree, Sized
<1>12. \A f \in 1 .. Len(p) : \A g \in 1 .. Len(p) : f < g => p[f].of < p[g].of
  <2> SUFFICES ASSUME NEW f \in 1 .. last + 1, NEW g \in 1 .. last + 1, f < g
               PROVE  p[f].of < p[g].of
    BY <1>7
  <2>1. CASE g = last + 1
    BY <1>7, <1>9, <2>1
  <2>2. CASE g # last + 1
    <3>1. f \in 1 .. last /\ g \in 1 .. last
      BY <2>2
    <3>2. loops[f].of < loops[g].of
      BY <1>4, <3>1 DEF InStep
    <3> QED
      BY <1>5, <1>7, <3>1, <3>2
  <2> QED
    BY <2>1, <2>2
<1>13. CASE inner.kind = "skip"
  <2>1. Skips(toks, n, inner, at)
    BY <1>1, <1>13, PendingFirst DEF Skips
  <2> QED
    <3>1. InStep(toks, n, p, at)
      BY <1>1, <1>7, <1>8, <1>9, <1>10, <1>11, <1>12, <1>13, <2>1 DEF InStep
    <3> QED
      BY <1>3, <1>13, <3>1 DEF p, r
<1>14. CASE inner.kind # "skip"
  <2>1. at + 1 < n => toks[at + 1].parent <= at
    BY <1>1 DEF Tree, Rooted
  <2> QED
    <3>1. InStep(toks, n, p, at + 1)
      BY <1>1, <1>7, <1>8, <1>9, <1>10, <1>11, <1>12, <1>14, <2>1 DEF InStep
    <3> QED
      BY <1>3, <1>14, <3>1 DEF p, r
<1> QED
  BY <1>13, <1>14

(* A round of cgltf_skip_json.                                             *)
LEMMA SkipInStep ==
  ASSUME NEW toks, NEW n \in Nat, Tree(toks, n, -1), NEW loops \in Seq(Loops), NEW at,
         InStep(toks, n, loops, at), loops # << >>,
         loops[Len(loops)].kind = "skip", loops[Len(loops)].left > 0, at < n,
         NEW parts, parts = CASE toks[at].type = "OBJECT" -> toks[at].size * 2
                              [] toks[at].type = "ARRAY"  -> toks[at].size
                              [] OTHER                    -> 0
  PROVE  InStep(toks, n, Round(loops, loops[Len(loops)].left - 1 + parts), at + 1)
<1>1. PICK last \in Nat : last = Len(loops) /\ last > 1
  BY EmptySeq DEF InStep, Belongs
<1> DEFINE v == loops[last].of
<1>2. /\ loops[last] \in Loops /\ at \in 1 .. n - 1 /\ v \in 0 .. n - 1 /\ v <= at
      /\ Skips(toks, n, loops[last], at) /\ loops[last - 1].kind = "value"
      /\ toks[v].parent = loops[last - 1].of
  BY <1>1 DEF InStep, Belongs, Skips
<1>3. ~IsKey(toks, v)
  <2>1. toks[loops[last - 1].of].type = "STRING" /\ loops[last - 1].of \in 0 .. n - 1
    BY <1>1, <1>2 DEF InStep, Belongs, Suits
  <2> QED
    BY <1>2, <2>1, KeyFacts
<1>4. \A t \in v + 1 .. at - 1 : toks[t].parent >= v
  BY <1>2 DEF Skips
<1>5. loops[last].left = Cardinality(Pending(toks, n, v, at)) /\ loops[last].left > 0
  BY <1>1, <1>2 DEF Skips
<1>6. at = v \/ toks[at].parent >= v
  <2>1. ASSUME at # v
        PROVE  toks[at].parent >= v
    <3>1. at \in v + 1 .. n
      BY <1>2, <2>1
    <3> HIDE DEF v
    <3> QED
      BY <1>2, <1>5, <3>1, PendingIsBelow
  <2> QED
    BY <2>1
<1>7. at \in v .. n - 1
  BY <1>2
<1>8. /\ at \in Pending(toks, n, v, at)
      /\ Cardinality(Announced(toks, n, at)) = parts /\ parts \in Nat
  <2> HIDE DEF v
  <2>1. at \in Pending(toks, n, v, at)
    BY <1>2, <1>3, <1>4, <1>6, <1>7, BelowIsPending
  <2>2. Cardinality(Announced(toks, n, at)) = parts
    <3>1. CASE toks[at].type = "OBJECT"
      BY <1>2, <3>1, ObjectAnnounces
    <3>2. CASE toks[at].type # "OBJECT"
      BY <1>2, <3>2, OthersAnnounce
    <3> QED
      BY <3>1, <3>2
  <2>3. Announced(toks, n, at) \in SUBSET (0 .. n - 1)
    BY DEF Announced
  <2>4. Cardinality(Announced(toks, n, at)) \in Nat
    BY <2>3, ChildrenAreFinite
  <2> QED
    BY <2>1, <2>2, <2>4
<1>9. PICK left \in Nat : left = loops[Len(loops)].left - 1 + parts
  <2>1. PICK was \in Nat : was = loops[last].left /\ was > 0
    BY <1>1, <1>2 DEF Loops
  <2>2. PICK more \in Nat : more = parts
    BY <1>8
  <2>3. was - 1 + more \in Nat
    BY <2>1
  <2> QED
    BY <1>1, <2>1, <2>2, <2>3
<1>10. left = Cardinality(Pending(toks, n, v, at + 1))
  <2> HIDE DEF v
  <2> QED
    BY <1>1, <1>2, <1>5, <1>7, <1>8, <1>9, PendingNext
<1> DEFINE r == Round(loops, left)
<1>11. /\ Len(r) = last /\ r \in Seq(Loops)
       /\ \A f \in 1 .. last :
          /\ r[f].kind = loops[f].kind /\ r[f].of = loops[f].of
          /\ r[f].left = IF f = last THEN left ELSE loops[f].left
  BY <1>1, RoundKeeps
<1> HIDE DEF r
<1>12. Ahead(r, at + 1) = at + 1
  BY <1>1, <1>2, <1>11 DEF Ahead
<1>13. Skips(toks, n, r[last], at + 1)
  <2>1. r[last].of = v /\ r[last].left = left
    BY <1>1, <1>11
  <2>2. \A t \in v + 1 .. at + 1 - 1 : toks[t].parent >= v
    BY <1>2, <1>4, <1>6
  <2> HIDE DEF v
  <2> QED
    BY <1>2, <1>10, <2>1, <2>2 DEF Skips
<1>14. ASSUME NEW f \in 1 .. last
       PROVE  Belongs(toks, n, r, f) /\ Reads(toks, n, r[f], at + 1, at + 1)
  <2>1. /\ Belongs(toks, n, loops, f) /\ Reads(toks, n, loops[f], Ahead(loops, at), at)
        /\ loops[f] \in Loops
    BY <1>1 DEF InStep
  <2>2. f > 1 => f - 1 \in 1 .. last
    OBVIOUS
  <2>3. Belongs(toks, n, r, f)
    BY <1>1, <1>2, <1>11, <2>1, <2>2 DEF Belongs
  <2>4. CASE f = last
    BY <1>1, <1>11, <2>3, <2>4 DEF Reads
  <2>5. CASE f # last
    <3>1. PICK from \in at .. at + 1 : from = Ahead(loops, at)
      BY <1>2 DEF Ahead
    <3>2. loops[f].of < v
      BY <1>1, <2>5 DEF InStep
    <3>3. from = at => toks[at].parent # loops[f].of
      <4>1. from = at => at # v
        BY <1>1, <1>2, <3>1 DEF Ahead
      <4>2. loops[f].of \in 0 .. n - 1
        BY <2>1 DEF Belongs
      <4> QED
        BY <1>2, <1>6, <3>2, <4>1, <4>2
    <3>4. Reads(toks, n, loops[f], at + 1, at + 1)
      <4>1. at \in 0 .. n - 1 /\ loops[f].of \in 0 .. n - 1
        BY <1>2, <2>1 DEF Belongs
      <4>2. Reads(toks, n, loops[f], from, at)
        BY <2>1, <3>1
      <4> HIDE DEF Reads
      <4> QED
        BY <2>1, <3>3, <4>1, <4>2, ReadsOn
    <3> QED
      BY <1>11, <2>3, <2>5, <3>4 DEF Reads
  <2> QED
    BY <2>3, <2>4, <2>5
<1>15. \A f \in 1 .. last : \A g \in 1 .. last : f < g => r[f].of < r[g].of
  BY <1>1, <1>11 DEF InStep
<1>16. InStep(toks, n, r, at + 1)
  <2>1. r # << >> /\ r[Len(r)].kind = "skip" /\ at + 1 \in 1 .. n
    BY <1>1, <1>2, <1>11
  <2> QED
    BY <1>11, <1>12, <1>13, <1>14, <1>15, <2>1 DEF InStep
<1> QED
  BY <1>9, <1>16 DEF r

(* A loop ends.                                                            *)
LEMMA EndInStep ==
  ASSUME NEW toks, NEW n \in Nat, Tree(toks, n, -1), NEW loops \in Seq(Loops), NEW at,
         InStep(toks, n, loops, at), loops # << >>, loops[Len(loops)].left = 0
  PROVE  InStep(toks, n, SubSeq(loops, 1, Len(loops) - 1), at)
<1>1. PICK last \in Nat \ {0} : last = Len(loops)
  BY EmptySeq
<1> DEFINE rest == SubSeq(loops, 1, last - 1)
           k == loops[last].of
<1>2. Len(rest) = last - 1 /\ \A f \in 1 .. last - 1 : rest[f] = loops[f]
  <2>1. PICK m \in Nat : m = last - 1
    OBVIOUS
  <2>2. \A f \in 1 .. m : loops[f] \in Loops
    BY <1>1, <2>1, ElementOfSeq
  <2> DEFINE q == SubSeq(loops, 1, m)
  <2>3. /\ Len(q) = (IF 1 <= m THEN m - 1 + 1 ELSE 0)
        /\ \A f \in 1 .. (m - 1 + 1) : q[f] = loops[1 + f - 1]
    BY <2>2, SubSeqProperties
  <2> HIDE DEF q
  <2>4. Len(q) = m /\ \A f \in 1 .. m : q[f] = loops[f]
    BY <2>3
  <2> QED
    BY <2>1, <2>4 DEF q
<1>3. /\ at \in 1 .. n /\ k \in 0 .. n - 1 /\ loops[last] \in Loops
      /\ Belongs(toks, n, loops, last) /\ Reads(toks, n, loops[last], Ahead(loops, at), at)
  BY <1>1 DEF InStep, Belongs
<1>4. /\ k < at /\ Ahead(loops, at) = at
      /\ at < n => toks[at].parent <= toks[k].parent
  <2>1. CASE loops[last].kind = "skip"
    <3>1. Skips(toks, n, loops[last], at)
      BY <1>1, <2>1 DEF InStep
    <3>2. ~IsKey(toks, k)
      <4>1. last > 1 /\ loops[last - 1].kind = "value" /\ toks[k].parent = loops[last - 1].of
        BY <1>3, <2>1 DEF Belongs
      <4>2. toks[loops[last - 1].of].type = "STRING" /\ loops[last - 1].of \in 0 .. n - 1
        BY <1>1, <4>1 DEF InStep, Belongs, Suits
      <4> QED
        BY <1>3, <4>1, <4>2, KeyFacts
    <3>3. /\ at \in k .. n /\ \A t \in k + 1 .. at - 1 : toks[t].parent >= k
          /\ Cardinality(Pending(toks, n, k, at)) = 0
      BY <1>1, <1>3, <3>1 DEF Skips
    <3>4. at > k /\ (at < n => toks[at].parent <= toks[k].parent)
      <4> HIDE DEF k
      <4> QED
        BY <1>3, <3>2, <3>3, PendingNone
    <3> QED
      BY <1>1, <1>3, <3>4 DEF Ahead
  <2>2. CASE loops[last].kind # "skip"
    <3>1. Ahead(loops, at) = at
      BY <1>1, <2>2 DEF Ahead
    <3>2. k < at /\ Cardinality(Unread(toks, n, k, at)) = 0
      BY <1>1, <1>3, <2>2, <3>1 DEF Reads
    <3>3. at < n => toks[at].parent <= k
      BY <1>1, <2>2 DEF InStep
    <3>4. Unread(toks, n, k, at) = {}
      <4> HIDE DEF k
      <4> QED
        BY <3>2, UnreadNone
    <3>5. at < n => toks[at].parent <= toks[k].parent
      <4> HIDE DEF k
      <4> QED
        BY <1>3, <3>2, <3>3, <3>4, UpAgain DEF Tree
    <3> QED
      BY <3>1, <3>2, <3>5
  <2> QED
    BY <2>1, <2>2
<1> HIDE DEF rest
<1>5. rest # << >> => last > 1 /\ rest[Len(rest)] = loops[last - 1]
  BY <1>2, EmptySeq
<1>6. \A f \in 1 .. last - 1 : loops[f].kind # "skip" /\ f \in 1 .. Len(loops)
  BY <1>1 DEF InStep, Belongs
<1>7. Ahead(rest, at) = at
  <2>1. rest # << >> => rest[Len(rest)].kind # "skip"
    BY <1>5, <1>6
  <2> QED
    BY <2>1 DEF Ahead
<1>8. ASSUME NEW f \in 1 .. last - 1
      PROVE  Belongs(toks, n, rest, f) /\ Reads(toks, n, rest[f], at, at)
  <2>1. Belongs(toks, n, loops, f) /\ Reads(toks, n, loops[f], at, at)
    BY <1>4, <1>6 DEF InStep
  <2>2. f > 1 => f - 1 \in 1 .. last - 1
    OBVIOUS
  <2> QED
    BY <1>2, <1>6, <2>1, <2>2 DEF Belongs
<1>9. \A f \in 1 .. last - 1 : \A g \in 1 .. last - 1 : f < g => rest[f].of < rest[g].of
  BY <1>2, <1>6 DEF InStep
<1>10. rest # << >> =>
          rest[Len(rest)].kind # "skip" /\ (at < n => toks[at].parent <= rest[Len(rest)].of)
  <2>1. last > 1 => toks[k].parent = loops[last - 1].of
    BY <1>3 DEF Belongs
  <2> QED
    BY <1>4, <1>5, <1>6, <2>1
<1>11. rest = << >> => at = n
  <2>1. SUFFICES ASSUME rest = << >>, at < n
                 PROVE  FALSE
    BY <1>3
  <2>2. last = 1
    BY <1>2, <2>1, EmptySeq
  <2>3. k = 0
    BY <1>3, <2>2 DEF Belongs
  <2>4. toks[at].parent <= toks[0].parent /\ 0 \in 0 .. n - 1
    BY <1>3, <1>4, <2>1, <2>3
  <2>5. /\ toks[0].parent \in -1 .. 0 - 1
        /\ toks[at].parent \in -1 .. at - 1 /\ (toks[at].parent = -1 => at = 0)
    BY <1>3, <2>1, <2>4 DEF Tree, Rooted
  <2> QED
    BY <1>3, <2>4, <2>5
<1>12. InStep(toks, n, rest, at)
  BY <1>2, <1>3, <1>7, <1>8, <1>9, <1>10, <1>11 DEF InStep
<1> QED
  BY <1>1, <1>12 DEF rest

--------------------------------------------------------------------------------
(* A tree grows.                                                           *)

(* One more token, under super.                                            *)
Grown(toks, new, n, super, type, end) ==
    /\ \A k \in 0 .. n - 1 :
          /\ new[k].type = toks[k].type /\ new[k].parent = toks[k].parent
          /\ new[k].end = toks[k].end
          /\ new[k].size = toks[k].size + (IF k = super THEN 1 ELSE 0)
    /\ new[n].type = type /\ new[n].parent = super /\ new[n].size = 0 /\ new[n].end = end

(* Where a token may be put: behind the last one below super; it is a key  *)
(* in an object, the one value of a key, anything in an array.             *)
Open(toks, n, super, type, fresh) ==
    /\ super \in -1 .. n - 1 /\ (super = -1 => n = 0)
    /\ \A j \in 0 .. n - 1 : j > super => toks[j].parent >= super
    /\ fresh # -1 => fresh = super
    /\ super # -1 =>
          /\ toks[super].type # "PRIMITIVE"
          /\ toks[super].type = "OBJECT" => type = "STRING"
          /\ toks[super].type = "STRING" =>
                /\ toks[super].size = 0 /\ toks[super].parent # -1
                /\ toks[toks[super].parent].type = "OBJECT"

(* Of the tokens, the parent alone has one child more.                     *)
LEMMA ChildrenOfGrown ==
  ASSUME NEW toks, NEW n \in Nat, NEW new, NEW super \in -1 .. n - 1, NEW type, NEW end,
         Grown(toks, new, n, super, type, end), NEW k \in 0 .. n - 1
  PROVE  Cardinality(Children(new, n + 1, k)) =
             Cardinality(Children(toks, n, k)) + (IF k = super THEN 1 ELSE 0)
<1> DEFINE C == Children(toks, n, k)
<1>1. Children(new, n + 1, k) = IF k = super THEN C \cup {n} ELSE C
  <2>1. \A j \in 0 .. n : j = n \/ j \in 0 .. n - 1
    OBVIOUS
  <2>2. \A j \in 0 .. n - 1 : new[j].parent = toks[j].parent
    BY DEF Grown
  <2>3. new[n].parent = super
    BY DEF Grown
  <2> QED
    BY <2>1, <2>2, <2>3 DEF Children
<1>2. n \notin C
  BY DEF Children
<1>3. IsFiniteSet(C) /\ Cardinality(C) \in Nat
  BY ChildrenAreFinite
<1> HIDE DEF C
<1>4. Cardinality(C \cup {n}) = Cardinality(C) + 1
  BY <1>2, <1>3, FS_AddElement
<1>5. Cardinality(Children(new, n + 1, k)) = Cardinality(C) + (IF k = super THEN 1 ELSE 0)
  BY <1>1, <1>3, <1>4
<1> QED
  BY <1>5 DEF C

(* Where a token may be put, the tokens stay a tree.                       *)
LEMMA TreeGrows ==
  ASSUME NEW toks, NEW n \in Nat, NEW new, NEW super, NEW end,
         NEW type \in {"OBJECT", "ARRAY", "STRING", "PRIMITIVE"}, NEW fresh,
         Tree(toks, n, fresh), Open(toks, n, super, type, fresh),
         Grown(toks, new, n, super, type, end)
  PROVE  Tree(new, n + 1, IF super # -1 /\ toks[super].type = "OBJECT" THEN n ELSE -1)
<1> DEFINE later == IF super # -1 /\ toks[super].type = "OBJECT" THEN n ELSE -1
<1>1. super \in -1 .. n - 1 /\ super \in Int
  BY DEF Open
<1>2. \A k \in 0 .. n : k = n \/ k \in 0 .. n - 1
  OBVIOUS
<1>3. \A k \in 0 .. n - 1 : new[k].type = toks[k].type /\ new[k].parent = toks[k].parent
  BY DEF Grown
<1>4. new[n].type = type /\ new[n].parent = super /\ new[n].size = 0
  BY DEF Grown
<1>5. Rooted(new, n + 1)
  BY <1>1, <1>2, <1>3, <1>4 DEF Tree, Rooted, Open
<1>6. Nested(new, n + 1)
  <2> SUFFICES ASSUME NEW t \in 0 .. n, NEW j \in 0 .. n, new[t].parent < j, j < t
               PROVE  new[j].parent >= new[t].parent
    BY DEF Nested
  <2>1. j \in 0 .. n - 1
    OBVIOUS
  <2>2. CASE t = n
    BY <1>3, <1>4, <2>1, <2>2 DEF Open
  <2>3. CASE t \in 0 .. n - 1
    BY <1>3, <2>1, <2>3 DEF Tree, Nested
  <2> QED
    BY <1>2, <2>2, <2>3
<1>7. Sized(new, n + 1)
  <2> SUFFICES ASSUME NEW k \in 0 .. n
               PROVE  new[k].size = Cardinality(Children(new, n + 1, k))
    BY DEF Sized
  <2>1. CASE k = n
    <3>1. Children(new, n + 1, n) = {}
      <4>1. \A j \in 0 .. n : new[j].parent \in -1 .. j - 1
        BY <1>5 DEF Rooted
      <4> QED
        BY <4>1 DEF Children
    <3> QED
      BY <1>4, <2>1, <3>1, FS_EmptySet
  <2>2. CASE k \in 0 .. n - 1
    <3>1. new[k].size = toks[k].size + (IF k = super THEN 1 ELSE 0)
      BY <2>2 DEF Grown
    <3>2. toks[k].size = Cardinality(Children(toks, n, k))
      BY <2>2 DEF Tree, Sized
    <3>3. Cardinality(Children(new, n + 1, k)) =
              Cardinality(Children(toks, n, k)) + (IF k = super THEN 1 ELSE 0)
      BY <1>1, <2>2, ChildrenOfGrown
    <3> QED
      BY <3>1, <3>2, <3>3
  <2> QED
    BY <1>2, <2>1, <2>2
<1>8. Shaped(new, n + 1, later)
  <2> SUFFICES ASSUME NEW k \in 0 .. n
               PROVE  /\ new[k].type \in {"OBJECT", "ARRAY", "STRING", "PRIMITIVE"}
                      /\ new[k].parent # -1 /\ new[new[k].parent].type = "OBJECT" =>
                            new[k].type = "STRING" /\ (k # later => new[k].size = 1)
                      /\ new[k].type = "STRING" /\ new[k].size # 0 =>
                            /\ new[k].size = 1 /\ new[k].parent # -1
                            /\ new[new[k].parent].type = "OBJECT"
                      /\ new[k].type = "PRIMITIVE" => new[k].size = 0
    BY DEF Shaped
  <2>1. CASE k = n
    <3>1. super # -1 => new[super].type = toks[super].type
      BY <1>1, <1>3
    <3> QED
      BY <1>4, <2>1, <3>1 DEF Open
  <2>2. CASE k \in 0 .. n - 1
    <3>1. PICK p \in -1 .. k - 1 : p = toks[k].parent /\ p = new[k].parent
      BY <1>3, <2>2 DEF Tree, Rooted
    <3>2. p # -1 => new[p].type = toks[p].type
      BY <1>3, <2>2, <3>1
    <3>3. toks[k].size \in Nat
      BY <2>2, ChildrenAreFinite DEF Tree, Sized
    <3>4. /\ toks[k].type \in {"OBJECT", "ARRAY", "STRING", "PRIMITIVE"}
          /\ p # -1 /\ toks[p].type = "OBJECT" =>
                toks[k].type = "STRING" /\ (k # fresh => toks[k].size = 1)
          /\ toks[k].type = "STRING" /\ toks[k].size # 0 =>
                toks[k].size = 1 /\ p # -1 /\ toks[p].type = "OBJECT"
          /\ toks[k].type = "PRIMITIVE" => toks[k].size = 0
      BY <2>2, <3>1 DEF Tree, Shaped
    <3>5. new[k].size = toks[k].size + (IF k = super THEN 1 ELSE 0)
      BY <2>2 DEF Grown
    <3>6. CASE k = super
      <4>1. /\ toks[k].type # "PRIMITIVE"
            /\ toks[k].type = "STRING" => toks[k].size = 0 /\ p # -1 /\ toks[p].type = "OBJECT"
        <5>1. super # -1
          BY <2>2, <3>6
        <5>2. /\ toks[super].type # "PRIMITIVE"
              /\ toks[super].type = "STRING" =>
                    /\ toks[super].size = 0 /\ toks[super].parent # -1
                    /\ toks[toks[super].parent].type = "OBJECT"
          BY <5>1 DEF Open
        <5>3. p = toks[super].parent
          BY <3>1, <3>6
        <5> QED
          BY Zenon, <3>6, <5>2, <5>3
      <4> QED
        BY <1>3, <2>2, <3>1, <3>2, <3>3, <3>4, <3>5, <3>6, <4>1
    <3>7. CASE k # super
      <4>1. k # fresh
        BY <2>2, <3>7 DEF Open
      <4> QED
        BY <1>3, <2>2, <3>1, <3>2, <3>3, <3>4, <3>5, <3>7, <4>1
    <3> QED
      BY <3>6, <3>7
  <2> QED
    BY <1>2, <2>1, <2>2
<1> QED
  BY <1>5, <1>6, <1>7, <1>8 DEF Tree

(* A tree is in the links, the types and the sizes.                        *)
LEMMA TreeStays ==
  ASSUME NEW toks, NEW n \in Nat, NEW new, NEW fresh, Tree(toks, n, fresh),
         \A k \in 0 .. n - 1 : /\ new[k].type = toks[k].type /\ new[k].size = toks[k].size
                               /\ new[k].parent = toks[k].parent
  PROVE  Tree(new, n, fresh)
<1>1. Rooted(new, n) /\ Nested(new, n)
  BY DEF Tree, Rooted, Nested
<1>2. \A k : Children(new, n, k) = Children(toks, n, k)
  BY DEF Children
<1>3. Sized(new, n)
  BY <1>2 DEF Tree, Sized
<1>4. \A k \in 0 .. n - 1 :
          toks[k].parent # -1 => new[toks[k].parent].type = toks[toks[k].parent].type
  BY DEF Tree, Rooted
<1>5. Shaped(new, n, fresh)
  BY <1>4 DEF Tree, Shaped
<1> QED
  BY <1>1, <1>3, <1>5 DEF Tree

--------------------------------------------------------------------------------
(* The text.                                                               *)

(* What the text is expected to go on with, and the brackets around it.    *)
Brackets == {"{", "["}

(* The places in a text.                                                   *)
TextStates ==
    [open : Seq(Brackets),
     expect : {"value", "element", "key", "member", "colon", "separator", "end", "error"}]

(* The innermost bracket is that of an object.                             *)
InObject(text) == text.open # << >> /\ Last(text.open) = "{"

(* Such as may be met in JSON.                                             *)
TextFits(text) ==
    /\ text \in TextStates /\ text.expect # "error"
    /\ text.expect = "element" => text.open # << >> /\ ~InObject(text)
    /\ text.expect \in {"key", "member", "colon"} => InObject(text)
    /\ text.expect = "separator" => text.open # << >>
    /\ text.expect = "end" => text.open = << >>

(* What may come where, the other way round.                               *)
LEMMA WhereAllowed ==
  ASSUME NEW text, TextFits(text), NEW lexeme \in Allowed(text)
  PROVE  /\ lexeme \in Lexemes
         /\ lexeme \in Brackets => text.expect \in {"value", "element"}
         /\ lexeme = "primitive" => text.expect \in {"value", "element"}
         /\ lexeme = "string" => text.expect \in {"value", "element", "key", "member"}
         /\ lexeme = ":" => text.expect = "colon"
         /\ lexeme = "," => text.expect = "separator"
         /\ lexeme \in {"}", "]"} =>
               text.open # << >> /\ text.expect \in {"element", "member", "separator"}
         /\ lexeme = "}" => InObject(text)
         /\ lexeme = "]" => ~InObject(text)
<1>1. text.expect \in {"value", "element", "key", "member", "colon", "separator", "end"}
  BY DEF TextFits, TextStates
<1>2. CASE text.expect \in {"value", "element", "key", "member", "colon", "end"}
  BY <1>2 DEF Allowed, Lexemes, Brackets, TextFits, InObject
<1>3. CASE text.expect = "separator"
  <2>1. lexeme \in {",", Closes(text.open)}
    BY <1>3 DEF Allowed
  <2>2. /\ Closes(text.open) = IF Last(text.open) = "{" THEN "}" ELSE "]"
        /\ text.open # << >>
    BY <1>3 DEF Closes, TextFits
  <2>3. /\ lexeme = "," \/ (lexeme = "}" /\ InObject(text)) \/ (lexeme = "]" /\ ~InObject(text))
    BY <2>1, <2>2 DEF InObject
  <2> QED
    BY <1>3, <2>2, <2>3 DEF Lexemes, Brackets
<1> QED
  BY <1>1, <1>2, <1>3

(* After a value comes a separator, or the end.                            *)
LEMMA AfterValueFits ==
  ASSUME NEW open \in Seq(Brackets)
  PROVE  /\ TextFits(AfterValue(open)) /\ AfterValue(open).open = open
         /\ AfterValue(open).expect = IF open = << >> THEN "end" ELSE "separator"
<1>1. /\ AfterValue(open).open = open
      /\ AfterValue(open).expect = IF open = << >> THEN "end" ELSE "separator"
  BY DEF AfterValue
<1>2. AfterValue(open) \in TextStates
  BY DEF AfterValue, TextStates
<1> QED
  BY <1>1, <1>2 DEF TextFits

(* What a change of expect leaves.                                         *)
LEMMA ExpectIs ==
  ASSUME NEW text \in TextStates, NEW e
  PROVE  [text EXCEPT !.expect = e].open = text.open /\ [text EXCEPT !.expect = e].expect = e
  BY DEF TextStates

(* In an object, a key, a colon or a value may be next.                    *)
LEMMA ExpectFits ==
  ASSUME NEW text, TextFits(text), NEW e \in {"key", "colon", "value"},
         e \in {"key", "colon"} => InObject(text)
  PROVE  TextFits([text EXCEPT !.expect = e])
<1>1. text \in TextStates
  BY DEF TextFits
<1> DEFINE t == [text EXCEPT !.expect = e]
<1>2. t \in TextStates
  BY <1>1 DEF TextStates
<1>3. t.open = text.open /\ t.expect = e
  BY <1>1, ExpectIs
<1> HIDE DEF t
<1>4. TextFits(t)
  BY <1>2, <1>3 DEF TextFits, InObject
<1> QED
  BY <1>4 DEF t

(* One bracket more.                                                       *)
LEMMA OpenedIs ==
  ASSUME NEW o \in Seq(Brackets), NEW b \in Brackets
  PROVE  /\ Append(o, b) \in Seq(Brackets) /\ Append(o, b) # << >>
         /\ Len(o) \in Nat /\ Len(Append(o, b)) = Len(o) + 1
         /\ Append(o, b)[Len(o) + 1] = b /\ Last(Append(o, b)) = b
         /\ \A j \in 1 .. Len(o) : Append(o, b)[j] = o[j]
<1>1. /\ Append(o, b) \in Seq(Brackets) /\ Len(Append(o, b)) = Len(o) + 1 /\ Len(o) \in Nat
      /\ Append(o, b)[Len(o) + 1] = b /\ \A j \in 1 .. Len(o) : Append(o, b)[j] = o[j]
  OBVIOUS
<1> QED
  BY <1>1 DEF Last

(* One bracket less.                                                       *)
LEMMA ClosedIs ==
  ASSUME NEW o \in Seq(Brackets), o # << >>
  PROVE  /\ Front(o) \in Seq(Brackets) /\ Len(o) \in Nat \ {0}
         /\ Len(Front(o)) = Len(o) - 1 /\ \A j \in 1 .. Len(o) - 1 : Front(o)[j] = o[j]
         /\ Last(o) = o[Len(o)] /\ Last(o) \in Brackets
<1>1. Len(o) \in Nat \ {0} /\ DOMAIN o = 1 .. Len(o)
  BY EmptySeq
<1>2. PICK m \in Nat : m = Len(o) - 1
  <2>1. Len(o) - 1 \in Nat
    BY <1>1
  <2> QED
    BY <2>1
<1>3. \A j \in 1 .. m : o[j] \in Brackets
  BY <1>1, <1>2, ElementOfSeq
<1> DEFINE q == SubSeq(o, 1, m)
<1>4. /\ q \in Seq(Brackets) /\ Len(q) = (IF 1 <= m THEN m - 1 + 1 ELSE 0)
      /\ \A j \in 1 .. (m - 1 + 1) : q[j] = o[1 + j - 1]
  BY <1>3, SubSeqProperties
<1> HIDE DEF q
<1>5. Len(q) = m /\ \A j \in 1 .. m : q[j] = o[j]
  BY <1>4
<1>6. Front(o) = q
  BY <1>2 DEF Front, q
<1>7. Last(o) = o[Len(o)] /\ Last(o) \in Brackets
  <2>1. o[Len(o)] \in Brackets
    BY <1>1, ElementOfSeq
  <2> QED
    BY <2>1 DEF Last
<1> QED
  BY <1>1, <1>2, <1>4, <1>5, <1>6, <1>7

(* What each lexeme makes of the text.                                     *)
LEMMA ReadIs ==
  ASSUME NEW text, TextFits(text), NEW lexeme \in Allowed(text)
  PROVE  /\ lexeme = "{" => Read(text, lexeme) =
                [open |-> Append(text.open, "{"), expect |-> "member"]
         /\ lexeme = "[" => Read(text, lexeme) =
                [open |-> Append(text.open, "["), expect |-> "element"]
         /\ lexeme \in {"}", "]"} => Read(text, lexeme) = AfterValue(Front(text.open))
         /\ lexeme = ":" => Read(text, lexeme) = [text EXCEPT !.expect = "value"]
         /\ lexeme = "," => Read(text, lexeme) =
                [text EXCEPT !.expect = IF Last(text.open) = "{" THEN "key" ELSE "value"]
         /\ lexeme = "string" /\ text.expect \in {"key", "member"} =>
                Read(text, lexeme) = [text EXCEPT !.expect = "colon"]
         /\ lexeme = "primitive" \/ (lexeme = "string" /\ text.expect \notin {"key", "member"}) =>
                Read(text, lexeme) = AfterValue(text.open)
  BY DEF Read

(* It goes on as expected.                                                 *)
LEMMA ReadFits ==
  ASSUME NEW text, TextFits(text), NEW lexeme \in Allowed(text)
  PROVE  TextFits(Read(text, lexeme))
<1>1. text \in TextStates /\ text.open \in Seq(Brackets)
  BY DEF TextFits, TextStates
<1>2. CASE lexeme \in Brackets
  <2>1. PICK e \in {"member", "element"} :
            /\ Read(text, lexeme) = [open |-> Append(text.open, lexeme), expect |-> e]
            /\ e = "member" <=> lexeme = "{"
    BY <1>2, ReadIs DEF Brackets
  <2>2. Append(text.open, lexeme) \in Seq(Brackets) /\ Append(text.open, lexeme) # << >>
        /\ Last(Append(text.open, lexeme)) = lexeme
    BY <1>1, <1>2, OpenedIs
  <2>3. PICK o \in Seq(Brackets) : o = Append(text.open, lexeme)
    BY <2>2
  <2>4. Read(text, lexeme) = [open |-> o, expect |-> e]
    BY <2>1, <2>3
  <2>5. Read(text, lexeme) \in TextStates /\ Read(text, lexeme).open = o
        /\ Read(text, lexeme).expect = e
    BY <2>4 DEF TextStates
  <2> QED
    BY <2>1, <2>2, <2>3, <2>5 DEF TextFits, InObject
<1>3. CASE lexeme \in {"}", "]"}
  <2>1. text.open # << >> /\ Read(text, lexeme) = AfterValue(Front(text.open))
    BY <1>3, ReadIs, WhereAllowed
  <2>2. Front(text.open) \in Seq(Brackets)
    BY <1>1, <2>1, ClosedIs
  <2> QED
    BY <2>1, <2>2, AfterValueFits
<1>4. CASE lexeme = ":"
  <2>1. Read(text, lexeme) = [text EXCEPT !.expect = "value"]
    BY <1>4, ReadIs
  <2>2. TextFits([text EXCEPT !.expect = "value"])
    BY ExpectFits
  <2> QED
    BY Zenon, <2>1, <2>2
<1>5. CASE lexeme = ","
  <2>1. text.open # << >>
    BY <1>5, WhereAllowed DEF TextFits
  <2>2. PICK e \in {"key", "value"} : e = IF Last(text.open) = "{" THEN "key" ELSE "value"
    OBVIOUS
  <2>3. Read(text, lexeme) = [text EXCEPT !.expect = e]
    BY <1>5, <2>2, ReadIs
  <2> QED
    BY <2>1, <2>2, <2>3, ExpectFits DEF InObject
<1>6. CASE lexeme = "string" /\ text.expect \in {"key", "member"}
  <2>1. Read(text, lexeme) = [text EXCEPT !.expect = "colon"]
    BY <1>6, ReadIs
  <2>2. InObject(text)
    BY <1>6 DEF TextFits
  <2>3. TextFits([text EXCEPT !.expect = "colon"])
    BY <2>2, ExpectFits
  <2> QED
    BY Zenon, <2>1, <2>3
<1>7. CASE lexeme = "primitive" \/ (lexeme = "string" /\ text.expect \notin {"key", "member"})
  BY <1>1, <1>7, ReadIs, AfterValueFits
<1> QED
  BY <1>2, <1>3, <1>4, <1>5, <1>6, <1>7, WhereAllowed DEF Lexemes, Brackets

--------------------------------------------------------------------------------
(* The text and its tokens.                                                *)

(* A string that is to be a key has no value yet.                          *)
Fresh(text, n) ==
    IF text.expect = "colon" \/ (text.expect = "value" /\ InObject(text)) THEN n - 1 ELSE -1

(* The key of c that has no value yet.                                     *)
Keyless(toks, p, c) ==
    toks[p].type = "STRING" /\ toks[p].size = 0 /\ toks[p].parent = c

(* Where the values in the container c are linked to, one being there: to  *)
(* an array itself, in an object to a key of it.                           *)
Slot(toks, n, p, c) ==
    \/ p = c /\ toks[c].type = "ARRAY"
    \/ /\ toks[c].type = "OBJECT" /\ p \in 0 .. n - 1
       /\ toks[p].type = "STRING" /\ toks[p].parent = c /\ toks[p].size = 1

(* The tokens b are those of the brackets that are open, the outermost     *)
(* first: each is linked to the one around it, no other has no end, and    *)
(* what is behind one is below it.                                         *)
Chain(toks, n, open, b) ==
    /\ \A j \in 1 .. Len(open) :
          /\ b[j] \in 0 .. n - 1 /\ toks[b[j]].type = TypeOf(open[j]) /\ toks[b[j]].end = -1
          /\ j = 1 => b[j] = 0
          /\ j > 1 => Slot(toks, n, toks[b[j]].parent, b[j - 1])
    /\ \A j \in 1 .. Len(open) : \A m \in 1 .. Len(open) : j < m => b[j] < b[m]
    /\ \A k \in 0 .. n - 1 : toks[k].end = -1 => \E j \in 1 .. Len(open) : k = b[j]
    /\ \A j \in 1 .. Len(open) : \A t \in 0 .. n - 1 : t > b[j] => toks[t].parent >= b[j]

(* Where jsmn will link the next token to, at each place of the text.      *)
Cursor(toks, n, text, b, super) ==
    /\ text.open = << >> => super = -1 /\ (text.expect = "value" => n = 0)
    /\ text.open # << >> =>
          LET c == b[Len(text.open)]
          IN  /\ text.expect = "separator" => Slot(toks, n, super, c)
              /\ text.expect = "value" /\ InObject(text) =>
                    super = n - 1 /\ Keyless(toks, super, c)
              /\ text.expect = "colon" => Keyless(toks, n - 1, c)
              /\ \/ text.expect \in {"element", "key", "member", "colon"}
                 \/ text.expect = "value" /\ ~InObject(text)
                 => super = c

(* The tokens fit the text that has been read.                             *)
Fits(toks, n, text, super, b) ==
    /\ TextFits(text) /\ Tree(toks, n, Fresh(text, n))
    /\ Chain(toks, n, text.open, b) /\ Cursor(toks, n, text, b, super)

(* The innermost bracket.                                                  *)
Inner(toks, n, text, b, c) ==
    /\ Len(text.open) \in Nat \ {0} /\ c = b[Len(text.open)] /\ c \in 0 .. n - 1
    /\ toks[c].end = -1
    /\ toks[c].type = IF InObject(text) THEN "OBJECT" ELSE "ARRAY"
    /\ \A j \in 1 .. Len(text.open) : b[j] <= c /\ b[j] \in 0 .. n - 1

(* It is the last token without an end.                                    *)
LEMMA Innermost ==
  ASSUME NEW toks, NEW n \in Nat, NEW text, NEW super, NEW b,
         Fits(toks, n, text, super, b), text.open # << >>
  PROVE  Inner(toks, n, text, b, b[Len(text.open)])
<1>1. text.open \in Seq(Brackets)
  BY DEF Fits, TextFits, TextStates
<1>2. /\ Len(text.open) \in Nat \ {0} /\ Last(text.open) = text.open[Len(text.open)]
      /\ Last(text.open) \in Brackets
  BY <1>1, ClosedIs
<1>3. TypeOf(Last(text.open)) = IF InObject(text) THEN "OBJECT" ELSE "ARRAY"
  BY <1>2 DEF InObject, TypeOf, Brackets
<1> DEFINE c == b[Len(text.open)]
<1>4. /\ c \in 0 .. n - 1 /\ toks[c].end = -1 /\ toks[c].type = TypeOf(Last(text.open))
  BY <1>2 DEF Fits, Chain
<1>5. \A j \in 1 .. Len(text.open) : b[j] <= c /\ b[j] \in 0 .. n - 1
  <2> SUFFICES ASSUME NEW j \in 1 .. Len(text.open)
               PROVE  b[j] <= c /\ b[j] \in 0 .. n - 1
    OBVIOUS
  <2>1. b[j] \in 0 .. n - 1
    BY DEF Fits, Chain
  <2>2. j = Len(text.open) \/ j < Len(text.open)
    BY <1>2
  <2>3. j < Len(text.open) => b[j] < c
    BY <1>2 DEF Fits, Chain
  <2> QED
    BY <1>4, <2>1, <2>2, <2>3
<1> QED
  BY <1>2, <1>3, <1>4, <1>5 DEF Inner

(* Where the text may have a value or a key, jsmn may put a token.         *)
Ready(toks, n, text, super, b, type) ==
    /\ Open(toks, n, super, type, Fresh(text, n)) /\ super \in -1 .. n - 1
    /\ text.open = << >> => n = 0 /\ super = -1
    /\ text.open # << >> => super # -1 /\ super >= b[Len(text.open)]
    /\ text.expect \in {"key", "member"} <=> super # -1 /\ toks[super].type = "OBJECT"
    /\ text.expect \in {"key", "member"} => super = b[Len(text.open)] /\ text.open # << >>
    /\ text.open # << >> /\ text.expect \in {"value", "element"} =>
          \/ super = b[Len(text.open)] /\ toks[super].type = "ARRAY"
          \/ /\ toks[b[Len(text.open)]].type = "OBJECT"
             /\ Keyless(toks, super, b[Len(text.open)])

(* There the next token may be put.                                        *)
LEMMA MayOpen ==
  ASSUME NEW toks, NEW n \in Nat, NEW text, NEW super, NEW b,
         Fits(toks, n, text, super, b), NEW lexeme \in Allowed(text), lexeme \in Starts
  PROVE  Ready(toks, n, text, super, b, TypeOf(lexeme))
<1>1. TextFits(text)
  BY DEF Fits
<1>2. /\ text.expect \in {"value", "element", "key", "member"}
      /\ text.expect \in {"key", "member"} => TypeOf(lexeme) = "STRING"
  BY <1>1, WhereAllowed DEF Starts, Brackets, TypeOf
<1>3. CASE text.open = << >>
  <2>1. n = 0 /\ super = -1 /\ Fresh(text, n) = -1 /\ text.expect = "value"
    BY <1>1, <1>2, <1>3 DEF Fits, Cursor, Fresh, TextFits, InObject
  <2> QED
    BY <1>3, <2>1 DEF Open, Ready
<1>4. CASE text.open # << >>
  <2> DEFINE c == b[Len(text.open)]
  <2>1. /\ c \in 0 .. n - 1 /\ Len(text.open) \in Nat \ {0}
        /\ toks[c].type = IF InObject(text) THEN "OBJECT" ELSE "ARRAY"
        /\ toks[c].parent \in -1 .. c - 1
        /\ \A t \in 0 .. n - 1 : t > c => toks[t].parent >= c
    <3>0. Inner(toks, n, text, b, c)
      BY <1>4, Innermost
    <3>1. /\ c \in 0 .. n - 1 /\ Len(text.open) \in Nat \ {0}
          /\ toks[c].type = IF InObject(text) THEN "OBJECT" ELSE "ARRAY"
      BY <3>0 DEF Inner
    <3>2. toks[c].parent \in -1 .. c - 1
      BY <3>1 DEF Fits, Tree, Rooted
    <3>3. \A t \in 0 .. n - 1 : t > c => toks[t].parent >= c
      <4>1. Chain(toks, n, text.open, b) /\ Len(text.open) \in 1 .. Len(text.open)
        BY <3>1 DEF Fits
      <4> QED
        BY <4>1 DEF Chain
    <3> QED
      BY <3>1, <3>2, <3>3
  <2>2. CASE text.expect \in {"key", "member"}
    <3>1. super = c /\ InObject(text) /\ Fresh(text, n) = -1 /\ toks[c].type = "OBJECT"
      BY <1>1, <1>4, <2>1, <2>2 DEF Fits, Cursor, TextFits, Fresh
    <3> HIDE DEF c
    <3>2. Open(toks, n, super, TypeOf(lexeme), Fresh(text, n))
      BY <1>2, <2>1, <2>2, <3>1 DEF Open
    <3> QED
      BY <1>4, <2>1, <2>2, <3>1, <3>2 DEF c, Ready
  <2>3. CASE text.expect \in {"value", "element"} /\ ~InObject(text)
    <3>1. super = c /\ Fresh(text, n) = -1 /\ toks[c].type = "ARRAY"
      BY <1>4, <2>1, <2>3 DEF Fits, Cursor, Fresh
    <3> HIDE DEF c
    <3>2. Open(toks, n, super, TypeOf(lexeme), Fresh(text, n))
      BY <2>1, <3>1 DEF Open
    <3> QED
      BY <1>4, <2>1, <2>3, <3>1, <3>2 DEF c, Ready
  <2>4. CASE text.expect \in {"value", "element"} /\ InObject(text)
    <3>1. /\ super = n - 1 /\ Keyless(toks, super, c) /\ Fresh(text, n) = n - 1
          /\ toks[c].type = "OBJECT" /\ text.expect = "value"
      BY <1>1, <1>4, <2>1, <2>4 DEF Fits, Cursor, Fresh, TextFits
    <3> HIDE DEF c
    <3>2. Open(toks, n, super, TypeOf(lexeme), Fresh(text, n))
      BY <2>1, <3>1 DEF Open, Keyless
    <3>3. super # -1 /\ super >= c /\ super \in -1 .. n - 1 /\ toks[super].type # "OBJECT"
      BY <2>1, <3>1 DEF Keyless
    <3> QED
      BY <1>4, <2>1, <2>4, <3>1, <3>2, <3>3 DEF c, Ready
  <2> QED
    BY <1>2, <2>2, <2>3, <2>4
<1> QED
  BY <1>3, <1>4

(* No open bracket is behind the parent of new tokens.                     *)
Under(open, b, super) == \A j \in 1 .. Len(open) : b[j] <= super

(* A key that new tokens go under has no value yet.                        *)
Single(toks, super) == super # -1 /\ toks[super].type = "STRING" => toks[super].size = 0

(* Of Chain, what a new token leaves whether it is open or not.            *)
Linked(toks, n, open, b) ==
    /\ \A j \in 1 .. Len(open) :
          /\ b[j] \in 0 .. n - 2 /\ toks[b[j]].type = TypeOf(open[j]) /\ toks[b[j]].end = -1
          /\ j = 1 => b[j] = 0
          /\ j > 1 => Slot(toks, n, toks[b[j]].parent, b[j - 1])
    /\ \A j \in 1 .. Len(open) : \A t \in 0 .. n - 1 : t > b[j] => toks[t].parent >= b[j]

(* Where values are linked to, one more token changes nothing.             *)
LEMMA SlotGrows ==
  ASSUME NEW toks, NEW n \in Nat, NEW new, NEW super \in -1 .. n - 1, NEW type, NEW end,
         Grown(toks, new, n, super, type, end),
         Single(toks, super), NEW p, NEW c \in 0 .. n - 1, Slot(toks, n, p, c)
  PROVE  Slot(new, n + 1, p, c)
<1>1. new[c].type = toks[c].type
  BY DEF Grown
<1>2. CASE p = c /\ toks[c].type = "ARRAY"
  BY <1>1, <1>2 DEF Slot
<1>3. CASE /\ toks[c].type = "OBJECT" /\ p \in 0 .. n - 1
           /\ toks[p].type = "STRING" /\ toks[p].parent = c /\ toks[p].size = 1
  <2>1. p # super
    BY <1>3 DEF Single
  <2>2. /\ new[p].type = toks[p].type /\ new[p].parent = toks[p].parent
        /\ new[p].size = 1 + 0
    BY <1>3, <2>1 DEF Grown
  <2> QED
    BY <1>1, <1>3, <2>2 DEF Slot
<1> QED
  BY <1>2, <1>3 DEF Slot

(* A token that is not open is put behind the open ones.                   *)
LEMMA ChainGrows ==
  ASSUME NEW toks, NEW n \in Nat, NEW new, NEW super \in -1 .. n - 1, NEW type, NEW end,
         Grown(toks, new, n, super, type, end),
         Single(toks, super), NEW open \in Seq(Brackets), NEW b, Chain(toks, n, open, b),
         Under(open, b, super)
  PROVE  Linked(new, n + 1, open, b) /\ (end # -1 => Chain(new, n + 1, open, b))
<1>1. ASSUME NEW j \in 1 .. Len(open)
      PROVE  /\ b[j] \in 0 .. n - 1 /\ new[b[j]].type = TypeOf(open[j]) /\ new[b[j]].end = -1
             /\ j = 1 => b[j] = 0
             /\ j > 1 => Slot(new, n + 1, new[b[j]].parent, b[j - 1])
  <2>1. /\ b[j] \in 0 .. n - 1 /\ toks[b[j]].type = TypeOf(open[j]) /\ toks[b[j]].end = -1
        /\ j = 1 => b[j] = 0
        /\ j > 1 => Slot(toks, n, toks[b[j]].parent, b[j - 1])
    BY DEF Chain
  <2>2. /\ new[b[j]].type = toks[b[j]].type /\ new[b[j]].end = toks[b[j]].end
        /\ new[b[j]].parent = toks[b[j]].parent
    BY <2>1 DEF Grown
  <2>3. ASSUME j > 1
        PROVE  Slot(new, n + 1, toks[b[j]].parent, b[j - 1])
    <3>1. j - 1 \in 1 .. Len(open)
      BY <2>3
    <3>2. b[j - 1] \in 0 .. n - 1
      BY <3>1 DEF Chain
    <3> QED
      BY <2>1, <2>3, <3>2, SlotGrows
  <2> QED
    BY <2>1, <2>2, <2>3
<1>2. ASSUME NEW j \in 1 .. Len(open), NEW t \in 0 .. n, t > b[j]
      PROVE  new[t].parent >= b[j]
  <2>1. CASE t = n
    BY <1>1, <2>1 DEF Grown, Under
  <2>2. CASE t # n
    <3>1. t \in 0 .. n - 1
      BY <2>2
    <3>2. new[t].parent = toks[t].parent
      BY <3>1 DEF Grown
    <3> QED
      BY <1>2, <3>1, <3>2 DEF Chain
  <2> QED
    BY <2>1, <2>2
<1>3. ASSUME end # -1, NEW k \in 0 .. n, new[k].end = -1
      PROVE  \E j \in 1 .. Len(open) : k = b[j]
  <2>1. k # n
    BY <1>3 DEF Grown
  <2>2. k \in 0 .. n - 1
    BY <2>1
  <2>3. toks[k].end = -1
    BY <1>3, <2>2 DEF Grown
  <2> QED
    BY <2>2, <2>3 DEF Chain
<1>4. \A j \in 1 .. Len(open) : \A m \in 1 .. Len(open) : j < m => b[j] < b[m]
  BY DEF Chain
<1>5. ASSUME end # -1
      PROVE  Chain(new, n + 1, open, b)
  <2>1. \A j \in 1 .. Len(open) : b[j] \in 0 .. n
    BY <1>1
  <2>2. n + 1 - 1 = n
    OBVIOUS
  <2> QED
    BY <1>1, <1>2, <1>3, <1>4, <1>5, <2>1, <2>2 DEF Chain
<1>6. Linked(new, n + 1, open, b)
  <2>1. n + 1 - 2 = n - 1 /\ n + 1 - 1 = n
    OBVIOUS
  <2> QED
    BY <1>1, <1>2, <2>1 DEF Linked
<1> QED
  BY <1>5, <1>6

(* An opening bracket is the innermost then.                               *)
LEMMA ChainPushes ==
  ASSUME NEW toks, NEW n \in Nat, NEW new, NEW super \in -1 .. n - 1, NEW bracket \in Brackets,
         Grown(toks, new, n, super, TypeOf(bracket), -1),
         Single(toks, super), NEW open \in Seq(Brackets), NEW b, Chain(toks, n, open, b),
         Under(open, b, super),
         open = << >> => n = 0,
         open # << >> => Slot(new, n + 1, super, b[Len(open)])
  PROVE  \E c : Chain(new, n + 1, Append(open, bracket), c) /\ c[Len(open) + 1] = n
<1> DEFINE more == Append(open, bracket)
<1>1. PICK d \in Nat : d = Len(open)
  BY OpenedIs
<1>2. /\ Len(more) = d + 1 /\ more[d + 1] = bracket
      /\ \A j \in 1 .. d : more[j] = open[j]
  BY <1>1, OpenedIs
<1> HIDE DEF more
<1> DEFINE c == [j \in 1 .. d + 1 |-> IF j = d + 1 THEN n ELSE b[j]]
<1>3. c[d + 1] = n /\ \A j \in 1 .. d : c[j] = b[j]
  OBVIOUS
<1> HIDE DEF c
<1>4. /\ \A j \in 1 .. d :
            /\ b[j] \in 0 .. n - 1 /\ new[b[j]].type = TypeOf(open[j]) /\ new[b[j]].end = -1
            /\ j = 1 => b[j] = 0
            /\ j > 1 => Slot(new, n + 1, new[b[j]].parent, b[j - 1])
      /\ \A j \in 1 .. d : \A t \in 0 .. n : t > b[j] => new[t].parent >= b[j]
  <2>1. Linked(new, n + 1, open, b)
    BY ChainGrows
  <2>2. n + 1 - 2 = n - 1 /\ n + 1 - 1 = n
    OBVIOUS
  <2> QED
    BY <1>1, <2>1, <2>2 DEF Linked
<1>5. new[n].type = TypeOf(bracket) /\ new[n].parent = super /\ new[n].end = -1
  BY DEF Grown
<1>6. d = 0 <=> open = << >>
  BY <1>1, EmptySeq
<1>7. ASSUME NEW j \in 1 .. d + 1
      PROVE  /\ c[j] \in 0 .. n /\ new[c[j]].type = TypeOf(more[j]) /\ new[c[j]].end = -1
             /\ j = 1 => c[j] = 0
             /\ j > 1 => Slot(new, n + 1, new[c[j]].parent, c[j - 1])
  <2>1. CASE j = d + 1
    <3>1. j = 1 => n = 0
      BY <1>6, <2>1
    <3>2. j > 1 => d \in 1 .. d /\ j - 1 = d
      BY <2>1
    <3>3. j > 1 => Slot(new, n + 1, super, c[j - 1])
      BY <1>1, <1>3, <1>6, <3>2
    <3> QED
      BY <1>2, <1>3, <1>5, <2>1, <3>1, <3>3
  <2>2. CASE j # d + 1
    <3>1. j \in 1 .. d /\ (j > 1 => j - 1 \in 1 .. d)
      BY <2>2
    <3>2. c[j] = b[j] /\ (j > 1 => c[j - 1] = b[j - 1]) /\ more[j] = open[j]
      BY <1>2, <1>3, <3>1
    <3> QED
      BY <1>4, <3>1, <3>2
  <2> QED
    BY <2>1, <2>2
<1>8. ASSUME NEW j \in 1 .. d + 1, NEW m \in 1 .. d + 1, j < m
      PROVE  c[j] < c[m]
  <2>1. j \in 1 .. d
    BY <1>8
  <2>2. CASE m = d + 1
    BY <1>3, <1>4, <2>1, <2>2
  <2>3. CASE m # d + 1
    <3>1. m \in 1 .. d
      BY <2>3
    <3> QED
      BY <1>1, <1>3, <1>8, <2>1, <3>1 DEF Chain
  <2> QED
    BY <2>2, <2>3
<1>9. ASSUME NEW k \in 0 .. n, new[k].end = -1
      PROVE  \E j \in 1 .. d + 1 : k = c[j]
  <2>1. CASE k = n
    BY <1>3, <2>1
  <2>2. CASE k # n
    <3>1. k \in 0 .. n - 1
      BY <2>2
    <3>2. toks[k].end = -1
      BY <1>9, <3>1 DEF Grown
    <3>3. PICK j \in 1 .. d : k = b[j]
      BY <1>1, <3>1, <3>2 DEF Chain
    <3> QED
      BY <1>3, <3>3
  <2> QED
    BY <2>1, <2>2
<1>10. ASSUME NEW j \in 1 .. d + 1, NEW t \in 0 .. n, t > c[j]
       PROVE  new[t].parent >= c[j]
  <2>1. j \in 1 .. d
    BY <1>3, <1>10
  <2> QED
    BY <1>3, <1>4, <1>10, <2>1
<1>11. Chain(new, n + 1, more, c)
  <2>1. n + 1 - 1 = n
    OBVIOUS
  <2> QED
    BY <1>2, <1>7, <1>8, <1>9, <1>10, <2>1 DEF Chain
<1> QED
  BY <1>1, <1>3, <1>11 DEF more

(* What a token that is put behind the others leaves for the next one.     *)
Taken(toks, new, n, text, super, b, end) ==
    /\ Tree(new, n + 1, IF text.expect \in {"key", "member"} THEN n ELSE -1)
    /\ text.open # << >> /\ text.expect \in {"value", "element"} =>
          Slot(new, n + 1, super, b[Len(text.open)])
    /\ Single(toks, super) /\ Under(text.open, b, super)
    /\ end # -1 => Chain(new, n + 1, text.open, b)

(* It is met by the token of every lexeme that starts one.                 *)
LEMMA TokenFits ==
  ASSUME NEW toks, NEW n \in Nat, NEW text, NEW super, NEW b,
         Fits(toks, n, text, super, b), NEW lexeme \in Allowed(text), lexeme \in Starts,
         NEW new, NEW end, Grown(toks, new, n, super, TypeOf(lexeme), end)
  PROVE  Taken(toks, new, n, text, super, b, end)
<1>1. TypeOf(lexeme) \in {"OBJECT", "ARRAY", "STRING", "PRIMITIVE"}
  BY DEF TypeOf, Starts
<1>0. Ready(toks, n, text, super, b, TypeOf(lexeme))
  BY MayOpen
<1>2. /\ Open(toks, n, super, TypeOf(lexeme), Fresh(text, n)) /\ super \in -1 .. n - 1
      /\ text.open # << >> => super # -1 /\ super >= b[Len(text.open)]
      /\ text.expect \in {"key", "member"} <=> super # -1 /\ toks[super].type = "OBJECT"
  BY <1>0 DEF Ready
<1>3. Tree(new, n + 1, IF text.expect \in {"key", "member"} THEN n ELSE -1)
  <2>1. Tree(new, n + 1, IF super # -1 /\ toks[super].type = "OBJECT" THEN n ELSE -1)
    BY <1>1, <1>2, TreeGrows DEF Fits
  <2> QED
    BY <1>2, <2>1
<1>4. Single(toks, super)
  BY <1>2 DEF Open, Single
<1>5. text.open \in Seq(Brackets)
  BY DEF Fits, TextFits, TextStates
<1>6. Under(text.open, b, super)
  <2> SUFFICES ASSUME NEW j \in 1 .. Len(text.open)
               PROVE  b[j] <= super
    BY DEF Under
  <2>1. text.open # << >>
    BY <1>5, EmptySeq
  <2>2. Inner(toks, n, text, b, b[Len(text.open)])
    BY <2>1, Innermost
  <2>3. b[j] <= b[Len(text.open)] /\ b[j] \in 0 .. n - 1 /\ b[Len(text.open)] \in 0 .. n - 1
    BY <2>2 DEF Inner
  <2> QED
    BY <1>2, <2>1, <2>3
<1>7. ASSUME text.open # << >>, text.expect \in {"value", "element"}
      PROVE  Slot(new, n + 1, super, b[Len(text.open)])
  <2>0. Inner(toks, n, text, b, b[Len(text.open)])
    BY <1>7, Innermost
  <2>1. PICK c \in 0 .. n - 1 : c = b[Len(text.open)]
    BY <2>0 DEF Inner
  <2>2. \/ super = c /\ toks[c].type = "ARRAY"
        \/ toks[c].type = "OBJECT" /\ Keyless(toks, super, c)
    BY <1>0, <1>7, <2>1 DEF Ready
  <2>3. super \in 0 .. n - 1
    BY <1>2, <1>7
  <2>4. /\ new[c].type = toks[c].type /\ new[super].type = toks[super].type
        /\ new[super].parent = toks[super].parent
        /\ new[super].size = toks[super].size + 1
    BY <2>3 DEF Grown
  <2> QED
    BY <2>1, <2>2, <2>3, <2>4 DEF Slot, Keyless
<1>8. end # -1 => Chain(new, n + 1, text.open, b)
  <2>1. Chain(toks, n, text.open, b)
    BY DEF Fits
  <2> QED
    BY <1>2, <1>4, <1>5, <1>6, <2>1, ChainGrows
<1> QED
  BY <1>3, <1>4, <1>6, <1>7, <1>8 DEF Taken

(* A string or a primitive.                                                *)
LEMMA ScalarFits ==
  ASSUME NEW toks, NEW n \in Nat, NEW text, NEW super, NEW b,
         Fits(toks, n, text, super, b), NEW lexeme \in Allowed(text),
         lexeme \in {"string", "primitive"},
         NEW new, NEW end, end # -1, Grown(toks, new, n, super, TypeOf(lexeme), end)
  PROVE  Fits(new, n + 1, Read(text, lexeme), super, b)
<1> DEFINE t == Read(text, lexeme)
<1>1. lexeme \in Starts /\ TextFits(text) /\ text \in TextStates
  BY DEF Starts, Fits, TextFits
<1>2. TextFits(t)
  BY <1>1, ReadFits
<1>3. /\ text.expect \in {"value", "element", "key", "member"}
      /\ text.expect \in {"key", "member"} => lexeme = "string"
  BY <1>1, WhereAllowed
<1>6. Ready(toks, n, text, super, b, TypeOf(lexeme))
  BY <1>1, MayOpen
<1>7. Taken(toks, new, n, text, super, b, end)
  BY <1>1, TokenFits
<1>4. CASE text.expect \in {"key", "member"}
  <2>0. PICK e \in {"colon"} : e = "colon"
    OBVIOUS
  <2>1. t = [text EXCEPT !.expect = e] /\ InObject(text)
    BY <1>1, <1>3, <1>4, <2>0, ReadIs DEF TextFits
  <2> HIDE DEF t
  <2>7. t.open = text.open /\ t.expect = e
    BY <1>1, <2>1, ExpectIs
  <2>2. t.open = text.open /\ t.expect = "colon" /\ InObject(t) /\ t.open # << >>
    BY <2>0, <2>1, <2>7 DEF InObject
  <2>3. Tree(new, n + 1, Fresh(t, n + 1)) /\ Chain(new, n + 1, t.open, b)
    <3>1. Fresh(t, n + 1) = n
      BY <2>2 DEF Fresh
    <3>2. Tree(new, n + 1, n) /\ Chain(new, n + 1, text.open, b)
      BY <1>4, <1>7 DEF Taken
    <3> QED
      BY <2>2, <3>1, <3>2
  <2>4. super = b[Len(text.open)]
    BY <1>4, <1>6 DEF Ready
  <2>5. Keyless(new, n, super)
    <3>1. TypeOf(lexeme) = "STRING"
      BY <1>3, <1>4 DEF TypeOf
    <3> QED
      BY <3>1 DEF Keyless, Grown
  <2>6. Cursor(new, n + 1, t, b, super)
    <3>1. n + 1 - 1 = n
      OBVIOUS
    <3> QED
      BY <2>2, <2>4, <2>5, <3>1 DEF Cursor
  <2> QED
    BY <1>2, <2>3, <2>6 DEF Fits, t
<1>5. CASE text.expect \in {"value", "element"}
  <2>1. t = AfterValue(text.open)
    BY <1>1, <1>5, ReadIs
  <2>2. t.open = text.open /\ t.expect = IF text.open = << >> THEN "end" ELSE "separator"
    BY <1>1, <2>1, AfterValueFits DEF TextStates
  <2> HIDE DEF t
  <2>3. Tree(new, n + 1, Fresh(t, n + 1)) /\ Chain(new, n + 1, t.open, b)
    <3>1. Fresh(t, n + 1) = -1
      BY <2>2 DEF Fresh
    <3>2. Tree(new, n + 1, -1) /\ Chain(new, n + 1, text.open, b)
      BY <1>5, <1>7 DEF Taken
    <3> QED
      BY <2>2, <3>1, <3>2
  <2>4. text.open = << >> => super = -1
    BY <1>6 DEF Ready
  <2>5. text.open # << >> => Slot(new, n + 1, super, b[Len(text.open)])
    BY <1>5, <1>7 DEF Taken
  <2>6. Cursor(new, n + 1, t, b, super)
    BY <2>2, <2>4, <2>5 DEF Cursor
  <2> QED
    BY <1>2, <2>3, <2>6 DEF Fits, t
<1> QED
  BY <1>3, <1>4, <1>5

(* An opening bracket.                                                     *)
LEMMA BracketFits ==
  ASSUME NEW toks, NEW n \in Nat, NEW text, NEW super, NEW b,
         Fits(toks, n, text, super, b), NEW lexeme \in Allowed(text), lexeme \in Brackets,
         NEW new, Grown(toks, new, n, super, TypeOf(lexeme), -1)
  PROVE  \E c : Fits(new, n + 1, Read(text, lexeme), n, c)
<1> DEFINE t == Read(text, lexeme)
<1>1. lexeme \in Starts /\ TextFits(text) /\ text \in TextStates /\ text.open \in Seq(Brackets)
  BY DEF Starts, Fits, TextFits, Brackets, TextStates
<1>2. TextFits(t) /\ text.expect \in {"value", "element"}
  BY <1>1, ReadFits, WhereAllowed
<1>9. Taken(toks, new, n, text, super, b, -1)
  BY <1>1, TokenFits
<1>10. Ready(toks, n, text, super, b, TypeOf(lexeme))
  BY <1>1, MayOpen
<1>3. PICK e \in {"member", "element"} :
          t = [open |-> Append(text.open, lexeme), expect |-> e]
  BY <1>1, ReadIs DEF Brackets
<1>4. t.open = Append(text.open, lexeme) /\ t.expect = e
  BY <1>3
<1> HIDE DEF t
<1>5. Tree(new, n + 1, Fresh(t, n + 1))
  <2>1. Fresh(t, n + 1) = -1
    BY <1>4 DEF Fresh
  <2>2. Tree(new, n + 1, -1)
    BY <1>2, <1>9 DEF Taken
  <2> QED
    BY <2>1, <2>2
<1>6. PICK c : Chain(new, n + 1, Append(text.open, lexeme), c) /\ c[Len(text.open) + 1] = n
  <2>1. /\ text.open # << >> => Slot(new, n + 1, super, b[Len(text.open)])
        /\ Single(toks, super) /\ Under(text.open, b, super)
    BY <1>2, <1>9 DEF Taken
  <2>2. super \in -1 .. n - 1 /\ (text.open = << >> => n = 0)
    BY <1>10 DEF Ready
  <2>3. Chain(toks, n, text.open, b)
    BY DEF Fits
  <2> QED
    BY <1>1, <2>1, <2>2, <2>3, ChainPushes
<1>7. t.open # << >> /\ c[Len(t.open)] = n
  BY <1>1, <1>4, <1>6, OpenedIs
<1>8. Cursor(new, n + 1, t, c, n)
  <2>1. e = "member" \/ e = "element"
    OBVIOUS
  <2>2. t.expect # "colon"
    BY <1>4
  <2> QED
    BY <1>4, <1>7, <2>2 DEF Cursor
<1> QED
  BY <1>2, <1>4, <1>5, <1>6, <1>8 DEF Fits, t

Colons == {":"}

Commas == {","}

Closers == {"}", "]"}

(* A colon: the key before it becomes the parent.                          *)
LEMMA ColonFits ==
  ASSUME NEW toks, NEW n \in Nat, NEW text, NEW super, NEW b,
         Fits(toks, n, text, super, b), NEW lexeme \in Allowed(text), lexeme \in Colons
  PROVE  Fits(toks, n, Read(text, lexeme), n - 1, b)
<1> DEFINE t == Read(text, lexeme)
<1>1. TextFits(text) /\ text \in TextStates /\ text.expect = "colon" /\ InObject(text)
  BY WhereAllowed DEF Fits, TextFits, Colons, Commas
<1>0. PICK e \in {"value"} : e = "value"
  OBVIOUS
<1>2. TextFits(t) /\ t = [text EXCEPT !.expect = e]
  BY <1>0, <1>1, ReadFits, ReadIs DEF Colons, Commas
<1>3. t.open = text.open /\ t.expect = "value" /\ InObject(t) /\ t.open # << >>
  BY <1>0, <1>1, <1>2, ExpectIs DEF InObject
<1> HIDE DEF t
<1>4. Fresh(t, n) = Fresh(text, n)
  BY <1>1, <1>3 DEF Fresh
<1>5. Keyless(toks, n - 1, b[Len(text.open)])
  BY <1>1, <1>3 DEF Fits, Cursor
<1>6. Cursor(toks, n, t, b, n - 1)
  BY <1>3, <1>5 DEF Cursor
<1> QED
  BY <1>2, <1>3, <1>4, <1>6 DEF Fits, t

(* A comma: what Comma makes the parent is the innermost bracket.          *)
LEMMA CommaFits ==
  ASSUME NEW toks, NEW n \in Nat, NEW text, NEW super, NEW b,
         Fits(toks, n, text, super, b), NEW lexeme \in Allowed(text), lexeme \in Commas
  PROVE  Fits(toks, n, Read(text, lexeme),
              IF super # -1 /\ toks[super].type \notin Containers
                THEN toks[super].parent ELSE super, b)
<1> DEFINE t == Read(text, lexeme)
           there == IF super # -1 /\ toks[super].type \notin Containers
                      THEN toks[super].parent ELSE super
<1>1. /\ TextFits(text) /\ text \in TextStates /\ text.expect = "separator"
      /\ text.open # << >>
  BY WhereAllowed DEF Fits, TextFits, Colons, Commas
<1>2. PICK e \in {"key", "value"} : e = IF InObject(text) THEN "key" ELSE "value"
  OBVIOUS
<1>3. TextFits(t) /\ t = [text EXCEPT !.expect = e]
  <2>1. e = IF Last(text.open) = "{" THEN "key" ELSE "value"
    BY <1>1, <1>2 DEF InObject
  <2> QED
    BY <1>1, <2>1, ReadFits, ReadIs DEF Colons, Commas
<1>4. t.open = text.open /\ t.expect = e /\ (InObject(t) <=> InObject(text))
  BY <1>1, <1>3, ExpectIs DEF InObject
<1> HIDE DEF t
<1>5. Fresh(t, n) = Fresh(text, n)
  BY <1>1, <1>2, <1>4 DEF Fresh
<1> HIDE DEF there
<1>6. there = b[Len(text.open)]
  <2>1. PICK c : c = b[Len(text.open)]
    OBVIOUS
  <2>7. Inner(toks, n, text, b, c)
    BY <1>1, <2>1, Innermost
  <2>9. Cursor(toks, n, text, b, super)
    BY DEF Fits
  <2>8. Slot(toks, n, super, c)
    <3>1. Slot(toks, n, super, b[Len(text.open)])
      BY <1>1, <2>9 DEF Cursor
    <3> QED
      BY <2>1, <3>1
  <2>2. Inner(toks, n, text, b, c) /\ Slot(toks, n, super, c)
    BY <2>7, <2>8
  <2>3. c \in 0 .. n - 1
    BY <2>2 DEF Inner
  <2>4. super # -1
    <3>1. super = c \/ super \in 0 .. n - 1
      BY <2>8 DEF Slot
    <3> QED
      BY <2>3, <3>1
  <2>5. CASE super = c /\ toks[c].type = "ARRAY"
    <3>1. toks[super].type \in Containers
      BY <2>5 DEF Containers
    <3> QED
      BY <2>1, <2>5, <3>1 DEF there
  <2>6. CASE toks[super].type = "STRING" /\ toks[super].parent = c
    <3>1. toks[super].type \notin Containers
      BY <2>6 DEF Containers
    <3> QED
      BY <2>1, <2>4, <2>6, <3>1 DEF there
  <2> QED
    BY <2>5, <2>6, <2>8 DEF Slot
<1>7. Cursor(toks, n, t, b, there)
  BY <1>1, <1>2, <1>4, <1>6 DEF Cursor
<1>8. Fits(toks, n, t, there, b)
  BY <1>3, <1>4, <1>5, <1>7 DEF Fits
<1> QED
  BY <1>8 DEF t, there

(* A closing bracket closes the innermost one.                             *)
Ended(toks, new, n, c) ==
    /\ \A k \in 0 .. n - 1 : /\ new[k].type = toks[k].type /\ new[k].size = toks[k].size
                            /\ new[k].parent = toks[k].parent
    /\ \A k \in 0 .. n - 1 : new[k].end = -1 <=> toks[k].end = -1 /\ k # c

(* Then the text and the tokens go on around it.                           *)
LEMMA ClosingFits ==
  ASSUME NEW toks, NEW n \in Nat, NEW text, NEW super, NEW b,
         Fits(toks, n, text, super, b), NEW lexeme \in Allowed(text),
         lexeme \in Closers, NEW new,
         Ended(toks, new, n, b[Len(text.open)])
  PROVE  /\ text.open # << >> /\ toks[b[Len(text.open)]].type = TypeOf(lexeme)
         /\ Fits(new, n, Read(text, lexeme), toks[b[Len(text.open)]].parent, b)
<1> DEFINE t == Read(text, lexeme)
<1> DEFINE c == b[Len(text.open)]
<1>1. /\ TextFits(text) /\ text \in TextStates /\ text.open # << >>
      /\ text.open \in Seq(Brackets)
      /\ text.expect \in {"element", "member", "separator"}
      /\ TypeOf(lexeme) = IF InObject(text) THEN "OBJECT" ELSE "ARRAY"
  BY WhereAllowed DEF Fits, TextFits, TextStates, Closers, TypeOf
<1>2. PICK d \in Nat \ {0} : d = Len(text.open)
  BY <1>1, ClosedIs
<1>3. /\ c \in 0 .. n - 1 /\ toks[c].type = IF InObject(text) THEN "OBJECT" ELSE "ARRAY"
      /\ toks[c].type = TypeOf(lexeme)
  <2>1. Inner(toks, n, text, b, c)
    BY <1>1, Innermost
  <2>2. c \in 0 .. n - 1 /\ toks[c].type = IF InObject(text) THEN "OBJECT" ELSE "ARRAY"
    BY <2>1 DEF Inner
  <2> QED
    BY <1>1, <2>2
<1>4. TextFits(t) /\ t = AfterValue(Front(text.open))
  BY <1>1, ReadFits, ReadIs DEF Closers
<1>5. /\ Front(text.open) \in Seq(Brackets) /\ Len(Front(text.open)) = d - 1
      /\ \A j \in 1 .. d - 1 : Front(text.open)[j] = text.open[j]
  BY <1>1, <1>2, ClosedIs
<1>6. PICK rest \in Seq(Brackets) : rest = Front(text.open)
  BY <1>5
<1>7. t.open = rest /\ t.expect = IF rest = << >> THEN "end" ELSE "separator"
  BY <1>4, <1>6, AfterValueFits
<1>8. Len(rest) = d - 1 /\ \A j \in 1 .. d - 1 : rest[j] = text.open[j] /\ j \in 1 .. d
  BY <1>2, <1>5, <1>6
<1> HIDE DEF t
<1>9. Tree(new, n, Fresh(t, n))
  <2>1. Fresh(t, n) = -1 /\ Fresh(text, n) = -1
    BY <1>1, <1>7 DEF Fresh
  <2>2. Tree(toks, n, -1)
    BY <2>1 DEF Fits
  <2>3. Tree(new, n, -1)
    BY <2>2, TreeStays DEF Ended
  <2> QED
    BY <2>1, <2>3
<1>10. \A p : \A k \in 0 .. n - 1 : Slot(toks, n, p, k) => Slot(new, n, p, k)
  BY DEF Slot, Ended
<1>11. \A j \in 1 .. d :
          /\ b[j] \in 0 .. n - 1 /\ toks[b[j]].type = TypeOf(text.open[j])
          /\ toks[b[j]].end = -1
          /\ j = 1 => b[j] = 0
          /\ j > 1 => Slot(toks, n, toks[b[j]].parent, b[j - 1])
  BY <1>2 DEF Fits, Chain
<1>12. Chain(new, n, rest, b)
  <2>1. ASSUME NEW j \in 1 .. d - 1
        PROVE  /\ b[j] \in 0 .. n - 1 /\ new[b[j]].type = TypeOf(rest[j])
               /\ new[b[j]].end = -1
               /\ j = 1 => b[j] = 0
               /\ j > 1 => Slot(new, n, new[b[j]].parent, b[j - 1])
    <3>1. j \in 1 .. d /\ d \in 1 .. d /\ j < d /\ (j > 1 => j - 1 \in 1 .. d)
      BY <1>2
    <3>2. b[j] < c
      BY <1>2, <3>1 DEF Fits, Chain
    <3>3. b[j] # c /\ b[j] \in 0 .. n - 1 /\ (j > 1 => b[j - 1] \in 0 .. n - 1)
      BY <1>3, <1>11, <3>1, <3>2
    <3> HIDE DEF c
    <3>4. new[b[j]].type = toks[b[j]].type /\ new[b[j]].parent = toks[b[j]].parent
      BY <3>3 DEF Ended
    <3>5. new[b[j]].end = -1
      BY <1>2, <1>11, <3>1, <3>3 DEF c, Ended
    <3>6. toks[b[j]].type = TypeOf(text.open[j]) /\ text.open[j] = rest[j]
      BY <1>8, <1>11, <3>1
    <3>7. j > 1 => Slot(new, n, toks[b[j]].parent, b[j - 1])
      BY <1>10, <1>11, <3>1, <3>3
    <3>8. j = 1 => b[j] = 0
      BY <1>11, <3>1
    <3> QED
      BY <3>3, <3>4, <3>5, <3>6, <3>7, <3>8
  <2>2. \A j \in 1 .. d - 1 : \A m \in 1 .. d - 1 : j < m => b[j] < b[m]
    BY <1>2, <1>8 DEF Fits, Chain
  <2>3. ASSUME NEW k \in 0 .. n - 1, new[k].end = -1
        PROVE  \E j \in 1 .. d - 1 : k = b[j]
    <3>1. toks[k].end = -1 /\ k # c
      BY <2>3 DEF Ended
    <3>2. PICK j \in 1 .. d : k = b[j]
      BY <1>2, <3>1 DEF Fits, Chain
    <3>3. j # d
      BY <1>2, <3>1, <3>2
    <3>4. j \in 1 .. d - 1
      BY <3>3
    <3> QED
      BY <3>2, <3>4
  <2>4. \A j \in 1 .. d - 1 : \A s \in 0 .. n - 1 : s > b[j] => new[s].parent >= b[j]
    BY <1>2, <1>8 DEF Fits, Chain, Ended
  <2> QED
    BY <1>8, <2>1, <2>2, <2>3, <2>4 DEF Chain
<1>13. rest = << >> <=> d = 1
  BY <1>8, EmptySeq
<1>14. Cursor(new, n, t, b, toks[c].parent)
  <2>1. CASE rest = << >>
    <3>1. c = 0 /\ d \in 1 .. d
      BY <1>2, <1>11, <1>13, <2>1
    <3>2. toks[c].parent = -1
      <4>1. toks[0].parent \in -1 .. 0 - 1
        BY <1>3, <3>1 DEF Fits, Tree, Rooted
      <4> QED
        BY <3>1, <4>1
    <3> QED
      BY <1>7, <2>1, <3>2 DEF Cursor
  <2>2. CASE rest # << >>
    <3>1. d \in 1 .. d /\ d > 1 /\ d - 1 \in 1 .. d
      BY <1>13, <2>2
    <3>2. Slot(toks, n, toks[c].parent, b[d - 1]) /\ b[d - 1] \in 0 .. n - 1
      BY <1>2, <1>11, <3>1
    <3>3. Slot(new, n, toks[c].parent, b[d - 1])
      BY <1>10, <3>2
    <3> QED
      BY <1>7, <1>8, <2>2, <3>3 DEF Cursor
  <2> QED
    BY <2>1, <2>2
<1>15. Fits(new, n, t, toks[c].parent, b)
  BY <1>4, <1>7, <1>9, <1>12, <1>14 DEF Fits
<1> QED
  BY <1>1, <1>3, <1>15 DEF t

--------------------------------------------------------------------------------
(* Texts that are JSON.                                                    *)

(* Induction over the numbers, without an operator for a parameter.        *)
Less == {pair \in Nat \X Nat : pair[1] < pair[2]}

\* The order of the numbers has no endless descent.
LEMMA LessIsWellFounded == IsWellFoundedOn(Less, Nat)
  BY NatLessThanWellFounded, Zenon DEF OpToRel, Less

\* Induction, said of a set.
LEMMA CountsThroughNat ==
  ASSUME NEW S, 0 \in S, \A n \in Nat : n \in S => n + 1 \in S
  PROVE  Nat \subseteq S
<1> DEFINE T == Nat \ S
<1>1. SUFFICES ASSUME T # {} PROVE FALSE
  OBVIOUS
<1>2. PICK t \in T : \A u \in T : <<u, t>> \notin Less
  BY <1>1, LessIsWellFounded, WFMin
<1>3. t # 0 /\ t \in Nat /\ t \notin S
  OBVIOUS
<1>4. t - 1 \in Nat /\ t - 1 + 1 = t
  BY <1>3
<1>5. t - 1 \in S
  <2>1. <<t - 1, t>> \in Less
    BY <1>3, <1>4 DEF Less
  <2> QED  BY <1>2, <1>4, <2>1
<1> QED
  BY <1>3, <1>4, <1>5

\* What is read lexeme by lexeme.
LEMMA Readings ==
  ASSUME NEW t, NEW s, Len(s) \in Nat
  PROVE  \E r : /\ r[0] = t
                /\ \A n \in 1 .. Len(s) : r[n] = Read(r[n - 1], s[n])
                /\ ReadAll(t, s) = r[Len(s)]
<1> DEFINE Rule(r, n) == r = [m \in 0 .. n |-> IF m = 0 THEN t ELSE Read(r[m - 1], s[m])]
           S == {n \in Nat : \E r : Rule(r, n)}
<1>1. 0 \in S
  <2> DEFINE r == [m \in 0 .. 0 |-> t]
  <2>1. Rule(r, 0)
    OBVIOUS
  <2> QED  BY <2>1
<1>2. ASSUME NEW n \in Nat, n \in S PROVE n + 1 \in S
  <2>1. PICK r : Rule(r, n)
    BY <1>2
  <2> DEFINE q == [m \in 0 .. n + 1 |-> IF m = n + 1 THEN Read(r[n], s[n + 1]) ELSE r[m]]
  <2>2. \A m \in 0 .. n : q[m] = r[m]
    OBVIOUS
  <2>3. ASSUME NEW m \in 0 .. n + 1
        PROVE  q[m] = IF m = 0 THEN t ELSE Read(q[m - 1], s[m])
    <3>1. CASE m = n + 1
      BY <2>2, <3>1
    <3>2. CASE m \in 0 .. n
      <4>1. q[m] = r[m] /\ (m # 0 => q[m - 1] = r[m - 1])
        BY <2>2, <3>2
      <4>2. r[m] = IF m = 0 THEN t ELSE Read(r[m - 1], s[m])
        BY <2>1, <3>2
      <4> QED  BY <4>1, <4>2
    <3> QED  BY <3>1, <3>2
  <2>4. Rule(q, n + 1)
    BY <2>3
  <2>5. \E p : Rule(p, n + 1)
    <3> HIDE DEF Rule, q
    <3> QED  BY <2>4
  <2> QED  BY <2>5
<1>3. Len(s) \in S
  <2> HIDE DEF S
  <2> QED  BY <1>1, <1>2, CountsThroughNat
<1> DEFINE after == CHOOSE r : Rule(r, Len(s))
<1>4. Rule(after, Len(s))
  BY <1>3
<1>5. ReadAll(t, s) = after[Len(s)]
  BY Zenon DEF ReadAll
<1>6. /\ after[0] = t
      /\ \A n \in 1 .. Len(s) : after[n] = Read(after[n - 1], s[n])
  <2> HIDE DEF after
  <2> QED  BY <1>4
<1> QED  BY <1>5, <1>6


(* The text after each of its lexemes.                                     *)
Reading(text) ==
    CHOOSE r : /\ r[0] = StartOfText
               /\ \A n \in 1 .. Len(text) : r[n] = Read(r[n - 1], text[n])
               /\ ReadAll(StartOfText, text) = r[Len(text)]

(* It is what ReadAll computes.                                            *)
LEMMA ReadingIs ==
  ASSUME NEW text, Len(text) \in Nat
  PROVE  /\ Reading(text)[0] = StartOfText
         /\ \A n \in 1 .. Len(text) : Reading(text)[n] = Read(Reading(text)[n - 1], text[n])
         /\ ReadAll(StartOfText, text) = Reading(text)[Len(text)]
<1>1. \E r : /\ r[0] = StartOfText
             /\ \A n \in 1 .. Len(text) : r[n] = Read(r[n - 1], text[n])
             /\ ReadAll(StartOfText, text) = r[Len(text)]
  BY Readings
<1> QED
  BY Zenon, <1>1 DEF Reading

(* What is malformed stays so.                                             *)
LEMMA MalformedIs == Malformed # EndOfText /\ \A lexeme : Read(Malformed, lexeme) = Malformed
<1>1. Malformed # EndOfText
  BY DEF Malformed, EndOfText, AfterValue
<1>2. Malformed.expect = "error"
  BY DEF Malformed
<1>3. Allowed(Malformed) = {}
  BY <1>2 DEF Allowed
<1> QED
  BY <1>1, <1>3 DEF Read

(* What JSON does not allow can be followed by nothing that makes it JSON. *)
LEMMA JsonIsAllowed ==
  ASSUME NEW text, Len(text) \in Nat, IsJson(text), NEW p \in 0 .. Len(text) - 1
  PROVE  text[p + 1] \in Allowed(Reading(text)[p])
<1> DEFINE r == Reading(text)
<1>1. /\ \A n \in 1 .. Len(text) : r[n] = Read(r[n - 1], text[n])
      /\ r[Len(text)] = EndOfText
  BY ReadingIs DEF IsJson
<1> HIDE DEF r
<1> SUFFICES ASSUME text[p + 1] \notin Allowed(r[p])
             PROVE  FALSE
  BY DEF r
<1> DEFINE S == {n \in Nat : p + 1 + n <= Len(text) => r[p + 1 + n] = Malformed}
<1>2. 0 \in S
  <2>1. p + 1 \in 1 .. Len(text) /\ p + 1 - 1 = p /\ p + 1 + 0 = p + 1
    OBVIOUS
  <2>2. r[p + 1] = Read(r[p], text[p + 1])
    BY <1>1, <2>1
  <2>3. r[p + 1] = Malformed
    BY <2>2 DEF Read
  <2> QED
    BY <2>1, <2>3
<1>3. ASSUME NEW n \in Nat, n \in S
      PROVE  n + 1 \in S
  <2> SUFFICES ASSUME p + 1 + (n + 1) <= Len(text)
               PROVE  r[p + 1 + (n + 1)] = Malformed
    OBVIOUS
  <2>1. r[p + 1 + n] = Malformed
    BY <1>3
  <2>2. PICK m \in 1 .. Len(text) : m = p + 1 + (n + 1) /\ m - 1 = p + 1 + n
    <3>1. p + 1 + (n + 1) \in 1 .. Len(text) /\ p + 1 + (n + 1) - 1 = p + 1 + n
      OBVIOUS
    <3> QED
      BY <3>1
  <2>3. r[m] = Read(r[m - 1], text[m])
    BY <1>1
  <2>4. r[m] = Malformed
    BY <2>1, <2>2, <2>3, MalformedIs
  <2> QED
    BY <2>2, <2>4
<1> HIDE DEF S
<1>4. Nat \subseteq S
  BY <1>2, <1>3, CountsThroughNat
<1>5. PICK n \in Nat : p + 1 + n = Len(text)
  <2>1. Len(text) - p - 1 \in Nat /\ p + 1 + (Len(text) - p - 1) = Len(text)
    OBVIOUS
  <2> QED
    BY <2>1
<1>6. r[Len(text)] = Malformed
  <2>1. n \in S
    BY <1>4
  <2>2. p + 1 + n <= Len(text)
    BY <1>5
  <2>3. r[p + 1 + n] = Malformed
    BY <2>1, <2>2 DEF S
  <2> QED
    BY <1>5, <2>3
<1> QED
  BY <1>1, <1>6, MalformedIs

(* The places of the text, while there is more of it.                      *)
Here == Reading(js)[pos]

(* There JSON goes on with what is allowed.                                *)
LEMMA HereIs ==
  ASSUME IInv, IsJson(js), ~AtEnd
  PROVE  /\ Lexeme \in Allowed(Here)
         /\ Reading(js)[pos + 1] = Read(Here, Lexeme)
<1>1. Len(js) \in Nat /\ pos \in 0 .. Len(js) - 1
  BY LenProperties DEF IInv, TypeOK, AtEnd
<1>2. Lexeme \in Allowed(Here)
  BY <1>1, JsonIsAllowed DEF Here, Lexeme
<1>3. pos + 1 \in 1 .. Len(js) /\ pos + 1 - 1 = pos
  BY <1>1
<1>4. Reading(js)[pos + 1] = Read(Reading(js)[pos], js[pos + 1])
  BY <1>1, <1>3, ReadingIs
<1> QED
  BY <1>2, <1>4 DEF Here, Lexeme

--------------------------------------------------------------------------------
(* The filling pass, on JSON.                                              *)

(* The tokens fit what has been read of JSON; and a search for an opening  *)
(* bracket has not gone past the innermost one.                            *)
FitsHere(b) == Fits(tokens, toknext, Here, toksuper, b)

(* Said of the two phases of the filling pass.                             *)
JsonFills ==
    json /\ phase \in {"fill", "close"} =>
        \E b : FitsHere(b) /\ (phase = "close" => token >= b[Len(Here.open)])

(* What json says.                                                         *)
JsonIsKnown == json <=> IsJson(js)

(* JSON is no error.                                                       *)
Accepted == json /\ given = 0 => error = "none"

(* A token that is allocated is put behind the others.                     *)
LEMMA AllocGrows ==
  ASSUME IInv, phase = "fill", NEW e, NEW s, jsmn_alloc_token(e, s), ~(toknext >= num_tokens)
  PROVE  /\ Grown(tokens, tokens', toknext, toksuper, TypeOf(Lexeme), e)
         /\ toknext' = toknext + 1 /\ pos' = pos + 1 /\ toksuper' = s
         /\ phase' = phase /\ error' = error /\ js' = js
<1> DEFINE new == [type |-> TypeOf(Lexeme), start |-> pos, end |-> e,
                   size |-> 0, parent |-> toksuper]
           at(k) == IF k = toknext THEN new
                    ELSE IF k = toksuper THEN [tokens[k] EXCEPT !.size = @ + 1]
                    ELSE tokens[k]
<1>1. /\ tokens' = [k \in 0 .. toknext |-> at(k)]
      /\ toknext' = toknext + 1 /\ pos' = pos + 1 /\ toksuper' = s
      /\ phase' = phase /\ error' = error /\ js' = js
  BY DEF jsmn_alloc_token
<1>2. new.type = TypeOf(Lexeme) /\ new.parent = toksuper /\ new.size = 0 /\ new.end = e
  OBVIOUS
<1> HIDE DEF new
<1>3. \A k \in 0 .. toknext - 1 :
          /\ at(k).type = tokens[k].type /\ at(k).parent = tokens[k].parent
          /\ at(k).end = tokens[k].end
          /\ at(k).size = tokens[k].size + (IF k = toksuper THEN 1 ELSE 0)
  <2> SUFFICES ASSUME NEW k \in 0 .. toknext - 1
               PROVE  /\ at(k).type = tokens[k].type /\ at(k).parent = tokens[k].parent
                      /\ at(k).end = tokens[k].end
                      /\ at(k).size = tokens[k].size + (IF k = toksuper THEN 1 ELSE 0)
    OBVIOUS
  <2>1. toknext \in Nat /\ tokens[k] \in Tokens
    BY FillingTokens
  <2>2. k # toknext
    BY <2>1
  <2>3. PICK t \in Tokens : t = tokens[k]
    BY <2>1
  <2>4. /\ [t EXCEPT !.size = @ + 1].type = t.type /\ [t EXCEPT !.size = @ + 1].parent = t.parent
        /\ [t EXCEPT !.size = @ + 1].end = t.end
        /\ [t EXCEPT !.size = @ + 1].size = t.size + 1
    BY DEF Tokens
  <2>5. t.size \in Nat
    BY DEF Tokens
  <2>6. CASE k = toksuper
    BY <2>2, <2>3, <2>4, <2>6
  <2>7. CASE k # toksuper
    BY <2>2, <2>3, <2>5, <2>7
  <2> QED
    BY <2>6, <2>7
<1>4. at(toknext) = new
  OBVIOUS
<1> HIDE DEF at
<1>5. toknext \in Nat
  BY FillingTokens
<1>6. /\ \A k \in 0 .. toknext - 1 : tokens'[k] = at(k)
      /\ tokens'[toknext] = at(toknext)
  BY <1>1, <1>5
<1>7. Grown(tokens, tokens', toknext, toksuper, TypeOf(Lexeme), e)
  BY <1>2, <1>3, <1>4, <1>6 DEF Grown
<1> QED
  BY <1>1, <1>7

(* The error of a lack of tokens, where the caller counts them.            *)
LEMMA NoMemory ==
  ASSUME IInv', Accepted, Stop("NOMEM"), UNCHANGED <<given, capacity, walkVars, result>>
  PROVE  JsonFills' /\ Accepted'
<1>1. given' # 0 /\ phase' = "failed"
  BY DEF IInv, PassesAgree, Stop
<1> QED
  BY <1>1 DEF JsonFills, Accepted

(* What the text is after a lexeme.                                        *)
LEMMA ReadHere ==
  ASSUME IInv, JsonIsKnown, json, ~AtEnd, js' = js, pos' = pos + 1
  PROVE  Here' = Read(Here, Lexeme) /\ Lexeme \in Allowed(Here)
<1>1. Lexeme \in Allowed(Here) /\ Reading(js)[pos + 1] = Read(Here, Lexeme)
  BY HereIs DEF JsonIsKnown
<1>2. Here' = Reading(js)[pos + 1]
  BY DEF Here
<1> QED
  BY <1>1, <1>2

(* The steps of the filling pass, on JSON.                                 *)
LEMMA BracketFills ==
  ASSUME IInv, IInv', JsonIsKnown, JsonFills, Accepted, json, OpenBracket,
         UNCHANGED <<given, capacity, walkVars, result>>
  PROVE  JsonFills' /\ Accepted'
<1>1. /\ phase = "fill" /\ ~AtEnd /\ Lexeme \in Brackets
      /\ jsmn_alloc_token(-1, toknext)
  BY DEF OpenBracket, Sees, Brackets
<1>2. CASE toknext >= num_tokens
  BY <1>1, <1>2, NoMemory DEF jsmn_alloc_token
<1>3. CASE ~(toknext >= num_tokens)
  <2>1. /\ Grown(tokens, tokens', toknext, toksuper, TypeOf(Lexeme), -1)
        /\ toknext' = toknext + 1 /\ pos' = pos + 1 /\ toksuper' = toknext
        /\ phase' = phase /\ error' = error /\ js' = js
    BY <1>1, <1>3, AllocGrows
  <2>2. PICK b : FitsHere(b)
    BY <1>1 DEF JsonFills
  <2>3. Here' = Read(Here, Lexeme) /\ Lexeme \in Allowed(Here)
    BY <1>1, <2>1, ReadHere
  <2>4. toknext \in Nat
    BY <1>1, FillingTokens
  <2>5. PICK c : Fits(tokens', toknext + 1, Read(Here, Lexeme), toknext, c)
    BY <1>1, <2>1, <2>2, <2>3, <2>4, BracketFits DEF FitsHere
  <2>6. FitsHere(c)'
    BY <2>1, <2>3, <2>5 DEF FitsHere
  <2> QED
    BY <1>1, <2>1, <2>6 DEF JsonFills, Accepted
<1> QED
  BY <1>2, <1>3

(* A string or a primitive that gets a token.                              *)
LEMMA ScalarFills ==
  ASSUME IInv, IInv', JsonIsKnown, JsonFills, Accepted, json, phase = "fill", ~AtEnd,
         Lexeme \in {"string", "primitive"}, jsmn_alloc_token(pos + 1, toksuper),
         UNCHANGED <<given, capacity, walkVars, result>>
  PROVE  JsonFills' /\ Accepted'
<1>2. CASE toknext >= num_tokens
  BY <1>2, NoMemory DEF jsmn_alloc_token
<1>3. CASE ~(toknext >= num_tokens)
  <2>1. /\ Grown(tokens, tokens', toknext, toksuper, TypeOf(Lexeme), pos + 1)
        /\ toknext' = toknext + 1 /\ pos' = pos + 1 /\ toksuper' = toksuper
        /\ phase' = phase /\ error' = error /\ js' = js
    BY <1>3, AllocGrows
  <2>2. PICK b : FitsHere(b)
    BY DEF JsonFills
  <2>3. Here' = Read(Here, Lexeme) /\ Lexeme \in Allowed(Here)
    BY <2>1, ReadHere
  <2>4. toknext \in Nat /\ pos + 1 # -1
    BY FillingTokens
  <2>5. Fits(tokens', toknext + 1, Read(Here, Lexeme), toksuper, b)
    BY <2>1, <2>2, <2>3, <2>4, ScalarFits DEF FitsHere
  <2>6. FitsHere(b)'
    BY <2>1, <2>3, <2>5 DEF FitsHere
  <2> QED
    BY <2>1, <2>6 DEF JsonFills, Accepted
<1> QED
  BY <1>2, <1>3

(* JSON has no primitive where there is to be a key.                       *)
LEMMA NoKeyPosition ==
  ASSUME IInv, JsonIsKnown, JsonFills, json, phase = "fill", ~AtEnd, Lexeme = "primitive"
  PROVE  ~IsKeyPosition
<1>1. PICK b : FitsHere(b)
  BY DEF JsonFills
<1>2. Lexeme \in Allowed(Here) /\ Lexeme \in Starts /\ TypeOf(Lexeme) # "STRING"
  BY HereIs DEF JsonIsKnown, Starts, TypeOf
<1>3. toknext \in Nat
  BY FillingTokens
<1>4. Ready(tokens, toknext, Here, toksuper, b, TypeOf(Lexeme))
  BY <1>1, <1>2, <1>3, MayOpen DEF FitsHere
<1>5. Open(tokens, toknext, toksuper, TypeOf(Lexeme), Fresh(Here, toknext))
  BY <1>4 DEF Ready
<1> QED
  BY <1>2, <1>5 DEF Open, IsKeyPosition

(* So jsmn refuses no primitive.                                           *)
LEMMA PrimitiveFills ==
  ASSUME IInv, IInv', JsonIsKnown, JsonFills, Accepted, json, Primitive,
         UNCHANGED <<given, capacity, walkVars, result>>
  PROVE  JsonFills' /\ Accepted'
<1>1. phase = "fill" /\ ~AtEnd /\ Lexeme = "primitive"
  BY DEF Primitive, Sees
<1>2. jsmn_alloc_token(pos + 1, toksuper)
  BY <1>1, NoKeyPosition DEF Primitive
<1> QED
  BY <1>1, <1>2, ScalarFills

(* Strings it never refuses.                                               *)
LEMMA StringFills ==
  ASSUME IInv, IInv', JsonIsKnown, JsonFills, Accepted, json, String,
         UNCHANGED <<given, capacity, walkVars, result>>
  PROVE  JsonFills' /\ Accepted'
<1>1. phase = "fill" /\ ~AtEnd /\ Lexeme = "string" /\ jsmn_alloc_token(pos + 1, toksuper)
  BY DEF String, Sees
<1> QED
  BY <1>1, ScalarFills

(* A colon.                                                                *)
LEMMA ColonFills ==
  ASSUME IInv, IInv', JsonIsKnown, JsonFills, Accepted, json, Colon,
         UNCHANGED <<given, capacity, walkVars, result>>
  PROVE  JsonFills' /\ Accepted'
<1>1. /\ phase = "fill" /\ ~AtEnd /\ Lexeme \in Colons
      /\ toksuper' = toknext - 1 /\ pos' = pos + 1
      /\ js' = js /\ toknext' = toknext /\ tokens' = tokens /\ phase' = phase
      /\ error' = error
  BY DEF Colon, Sees, Colons
<1>2. PICK b : FitsHere(b)
  BY <1>1 DEF JsonFills
<1>3. Here' = Read(Here, Lexeme) /\ Lexeme \in Allowed(Here)
  BY <1>1, ReadHere
<1>4. toknext \in Nat
  BY <1>1, FillingTokens
<1>5. Fits(tokens, toknext, Read(Here, Lexeme), toknext - 1, b)
  BY <1>1, <1>2, <1>3, <1>4, ColonFits DEF FitsHere
<1>6. FitsHere(b)'
  BY <1>1, <1>3, <1>5 DEF FitsHere
<1> QED
  BY <1>1, <1>6 DEF JsonFills, Accepted

(* A comma.                                                                *)
LEMMA CommaFills ==
  ASSUME IInv, IInv', JsonIsKnown, JsonFills, Accepted, json, Comma,
         UNCHANGED <<given, capacity, walkVars, result>>
  PROVE  JsonFills' /\ Accepted'
<1> DEFINE there == IF toksuper # -1 /\ tokens[toksuper].type \notin Containers
                      THEN tokens[toksuper].parent ELSE toksuper
<1>1. /\ phase = "fill" /\ ~AtEnd /\ Lexeme \in Commas
      /\ toksuper' = there /\ pos' = pos + 1
      /\ js' = js /\ toknext' = toknext /\ tokens' = tokens /\ phase' = phase
      /\ error' = error
  BY DEF Comma, Sees, Commas
<1>2. PICK b : FitsHere(b)
  BY <1>1 DEF JsonFills
<1>3. Here' = Read(Here, Lexeme) /\ Lexeme \in Allowed(Here)
  BY <1>1, ReadHere
<1>4. toknext \in Nat
  BY <1>1, FillingTokens
<1>5. Fits(tokens, toknext, Read(Here, Lexeme), there, b)
  BY <1>1, <1>2, <1>3, <1>4, CommaFits DEF FitsHere
<1> HIDE DEF there
<1>6. FitsHere(b)'
  BY <1>1, <1>3, <1>5 DEF FitsHere
<1> QED
  BY <1>1, <1>6 DEF JsonFills, Accepted

(* A closing bracket in JSON is that of the innermost one; and the search  *)
(* has not gone past it.                                                   *)
Searches(b, c) ==
    /\ FitsHere(b) /\ Here.open # << >> /\ c = b[Len(Here.open)]
    /\ Inner(tokens, toknext, Here, b, c) /\ tokens[c].type = TypeOf(Lexeme)
    /\ c \in 0 .. toknext - 1

(* Such is the search at its start.                                        *)
LEMMA ClosingIs ==
  ASSUME IInv, JsonIsKnown, json, ~AtEnd, Lexeme \in Closers, phase \in {"fill", "close"},
         NEW b, FitsHere(b)
  PROVE  Searches(b, b[Len(Here.open)])
<1>1. Lexeme \in Allowed(Here)
  BY HereIs DEF JsonIsKnown
<1>2. /\ TextFits(Here) /\ Here.open # << >>
      /\ TypeOf(Lexeme) = IF InObject(Here) THEN "OBJECT" ELSE "ARRAY"
  BY <1>1, WhereAllowed DEF FitsHere, Fits, TextFits, TextStates, Closers, TypeOf
<1>3. toknext \in Nat
  BY FillingTokens
<1>4. Inner(tokens, toknext, Here, b, b[Len(Here.open)])
  BY <1>2, <1>3, Innermost DEF FitsHere
<1> QED
  BY <1>2, <1>4 DEF Inner, Searches

(* So there is a token to start it from.                                   *)
LEMMA CloseFills ==
  ASSUME IInv, IInv', JsonIsKnown, JsonFills, Accepted, json, CloseBracket,
         UNCHANGED <<given, capacity, walkVars, result>>
  PROVE  JsonFills' /\ Accepted'
<1>1. phase = "fill" /\ ~AtEnd /\ Lexeme \in Closers
  BY DEF CloseBracket, Sees, Closers
<1>2. PICK b : FitsHere(b)
  BY <1>1 DEF JsonFills
<1>3. Searches(b, b[Len(Here.open)])
  BY <1>1, <1>2, ClosingIs
<1>4. PICK c : c = b[Len(Here.open)] /\ c \in 0 .. toknext - 1
  BY <1>3 DEF Searches
<1>5. toknext \in Nat
  BY <1>1, FillingTokens
<1>6. ~(toknext < 1)
  BY <1>4, <1>5
<1>7. /\ token' = toknext - 1 /\ phase' = "close"
      /\ js' = js /\ pos' = pos /\ toknext' = toknext /\ tokens' = tokens
      /\ toksuper' = toksuper /\ error' = error
  BY <1>6 DEF CloseBracket
<1>8. Here' = Here
  BY <1>7 DEF Here
<1>9. FitsHere(b)'
  BY <1>2, <1>7, <1>8 DEF FitsHere
<1>10. token' >= b[Len(Here.open)]
  BY <1>4, <1>5, <1>7
<1> QED
  BY <1>7, <1>8, <1>9, <1>10 DEF JsonFills, Accepted

(* Where the search is.                                                    *)
LEMMA SearchIs ==
  ASSUME IInv, JsonIsKnown, JsonFills, json, phase = "close"
  PROVE  /\ \E b : \E c : Searches(b, c) /\ token >= c
         /\ ~AtEnd /\ Lexeme \in Closers /\ toknext \in Nat /\ token \in 0 .. toknext - 1
<1>1. /\ ~AtEnd /\ Lexeme \in Closers /\ toknext \in Nat /\ token \in 0 .. toknext - 1
  <2>1. ~AtEnd /\ Lexeme \in Closers /\ token \in 0 .. toknext - 1
    BY DEF IInv, Filling, Sees, Closers
  <2> QED
    BY <2>1, FillingTokens
<1>2. PICK b : FitsHere(b) /\ token >= b[Len(Here.open)]
  BY DEF JsonFills
<1>3. Searches(b, b[Len(Here.open)])
  BY <1>1, <1>2, ClosingIs
<1> QED
  BY <1>1, <1>2, <1>3

(* An open token behind the innermost bracket there is not.                *)
LEMMA FoundIs ==
  ASSUME IInv, NEW b, NEW c, Searches(b, c), toknext \in Nat, token \in 0 .. toknext - 1,
         token >= c
  PROVE  /\ tokens[token].end = -1 => token = c
         /\ tokens[token].end # -1 => tokens[token].parent >= c /\ tokens[token].parent # -1
<1>1. /\ \A k \in 0 .. toknext - 1 :
            tokens[k].end = -1 => \E j \in 1 .. Len(Here.open) : k = b[j]
      /\ \A j \in 1 .. Len(Here.open) : b[j] <= c
      /\ tokens[c].end = -1 /\ c \in 0 .. toknext - 1
      /\ \A t \in 0 .. toknext - 1 : t > c => tokens[t].parent >= c
  <2>1. Chain(tokens, toknext, Here.open, b) /\ Inner(tokens, toknext, Here, b, c)
    BY DEF Searches, FitsHere, Fits
  <2>2. Len(Here.open) \in 1 .. Len(Here.open) /\ c = b[Len(Here.open)]
    BY <2>1 DEF Inner
  <2>3. \A t \in 0 .. toknext - 1 : t > c => tokens[t].parent >= c
    BY <2>1, <2>2 DEF Chain
  <2>4. \A k \in 0 .. toknext - 1 :
            tokens[k].end = -1 => \E j \in 1 .. Len(Here.open) : k = b[j]
    BY <2>1 DEF Chain
  <2> QED
    BY <2>1, <2>3, <2>4 DEF Inner
<1>2. tokens[token].end = -1 => token = c
  <2> SUFFICES ASSUME tokens[token].end = -1
               PROVE  token = c
    OBVIOUS
  <2>1. PICK j \in 1 .. Len(Here.open) : token = b[j]
    BY <1>1
  <2> QED
    BY <1>1, <2>1
<1>3. tokens[token].end # -1 => tokens[token].parent >= c /\ tokens[token].parent # -1
  <2> SUFFICES ASSUME tokens[token].end # -1
               PROVE  tokens[token].parent >= c /\ tokens[token].parent # -1
    OBVIOUS
  <2>1. token > c
    BY <1>1
  <2> QED
    BY <1>1, <2>1
<1> QED
  BY <1>2, <1>3

(* What it finds open is the innermost bracket, and of its type.           *)
LEMMA OpenFills ==
  ASSUME IInv, IInv', JsonIsKnown, JsonFills, Accepted, json, CloseOpen,
         UNCHANGED <<given, capacity, walkVars, result>>
  PROVE  JsonFills' /\ Accepted'
<1>1. phase = "close" /\ tokens[token].end = -1
  BY DEF CloseOpen
<1>2. PICK b : \E c : Searches(b, c) /\ token >= c
  BY <1>1, SearchIs
<1>3. PICK c : Searches(b, c) /\ token >= c
  BY <1>2
<1>4. ~AtEnd /\ Lexeme \in Closers /\ toknext \in Nat /\ token \in 0 .. toknext - 1
  BY <1>1, SearchIs
<1>5. token = c
  BY <1>1, <1>3, <1>4, FoundIs
<1>6. tokens[token].type = TypeOf(Lexeme)
  BY <1>3, <1>5 DEF Searches
<1>7. /\ tokens' = [tokens EXCEPT ![token].end = pos + 1]
      /\ toksuper' = tokens[token].parent /\ pos' = pos + 1 /\ phase' = "fill"
      /\ js' = js /\ toknext' = toknext /\ error' = error
  BY <1>6 DEF CloseOpen
<1>8. Here' = Read(Here, Lexeme) /\ Lexeme \in Allowed(Here)
  BY <1>4, <1>7, ReadHere
<1>9. Ended(tokens, tokens', toknext, c)
  <2>1. DOMAIN tokens = 0 .. toknext - 1 /\ pos \in Nat
    BY <1>1, FillingTokens
  <2>2. \A k \in 0 .. toknext - 1 :
            tokens'[k] = IF k = token THEN [tokens[token] EXCEPT !.end = pos + 1]
                                      ELSE tokens[k]
    BY <1>7, <2>1
  <2>3. PICK t \in Tokens : t = tokens[token]
    BY <1>1, <1>4, FillingTokens
  <2>4. /\ [t EXCEPT !.end = pos + 1].type = t.type /\ [t EXCEPT !.end = pos + 1].size = t.size
        /\ [t EXCEPT !.end = pos + 1].parent = t.parent
        /\ [t EXCEPT !.end = pos + 1].end # -1
    BY <2>1 DEF Tokens
  <2> DEFINE new == [t EXCEPT !.end = pos + 1]
  <2>5. \A k \in 0 .. toknext - 1 : tokens'[k] = IF k = token THEN new ELSE tokens[k]
    BY <2>2, <2>3
  <2> HIDE DEF new
  <2>6. new.type = t.type /\ new.size = t.size /\ new.parent = t.parent /\ new.end # -1
    BY <2>4 DEF new
  <2> QED
    BY <1>5, <2>3, <2>5, <2>6 DEF Ended
<1>10. Fits(tokens', toknext, Read(Here, Lexeme), tokens[c].parent, b)
  <2>1. c = b[Len(Here.open)] /\ Fits(tokens, toknext, Here, toksuper, b)
    BY <1>3 DEF Searches, FitsHere
  <2>2. Ended(tokens, tokens', toknext, b[Len(Here.open)])
    BY <1>9, <2>1
  <2>3. Fits(tokens', toknext, Read(Here, Lexeme), tokens[b[Len(Here.open)]].parent, b)
    BY <1>4, <1>8, <2>1, <2>2, ClosingFits
  <2> QED
    BY <2>1, <2>3
<1>11. FitsHere(b)'
  BY <1>5, <1>7, <1>8, <1>10 DEF FitsHere
<1> QED
  BY <1>7, <1>11 DEF JsonFills, Accepted

(* It does not reach the top.                                              *)
LEMMA NothingFills ==
  ASSUME IInv, JsonIsKnown, JsonFills, json, CloseNothing
  PROVE  FALSE
<1>1. phase = "close" /\ tokens[token].end # -1 /\ tokens[token].parent = -1
  BY DEF CloseNothing
<1>2. PICK b : \E c : Searches(b, c) /\ token >= c
  BY <1>1, SearchIs
<1>3. PICK c : Searches(b, c) /\ token >= c
  BY <1>2
<1> QED
  BY <1>1, <1>3, FoundIs, SearchIs

(* It goes up, but not past it.                                            *)
LEMMA ParentFills ==
  ASSUME IInv, IInv', JsonIsKnown, JsonFills, Accepted, json, CloseParent,
         UNCHANGED <<given, capacity, walkVars, result>>
  PROVE  JsonFills' /\ Accepted'
<1>1. /\ phase = "close" /\ tokens[token].end # -1
      /\ token' = tokens[token].parent /\ phase' = phase
      /\ js' = js /\ pos' = pos /\ toknext' = toknext /\ tokens' = tokens
      /\ toksuper' = toksuper /\ error' = error
  BY DEF CloseParent
<1>2. PICK b : \E c : Searches(b, c) /\ token >= c
  BY <1>1, SearchIs
<1>3. PICK c : Searches(b, c) /\ token >= c
  BY <1>2
<1>4. token' >= c
  BY <1>1, <1>3, FoundIs, SearchIs
<1>5. Here' = Here
  BY <1>1 DEF Here
<1>6. FitsHere(b)' /\ token' >= b[Len(Here.open)]
  BY <1>1, <1>3, <1>4, <1>5 DEF FitsHere, Searches
<1> QED
  BY <1>1, <1>5, <1>6 DEF JsonFills, Accepted

(* JSON holds nothing that cannot be scanned.                              *)
LEMMA NothingBad ==
  ASSUME IInv, JsonIsKnown, JsonFills, json, Bad
  PROVE  FALSE
<1>1. phase = "fill" /\ ~AtEnd /\ Lexeme = "bad"
  BY DEF Bad, Sees
<1>2. PICK b : FitsHere(b)
  BY <1>1 DEF JsonFills
<1>3. Lexeme \in Lexemes
  BY <1>1, <1>2, HereIs, WhereAllowed DEF JsonIsKnown, FitsHere, Fits
<1> QED
  BY <1>1, <1>3 DEF Lexemes

(* At the end of JSON the text has ended, with no bracket open.            *)
LEMMA EndIs ==
  ASSUME IInv, JsonIsKnown, json, AtEnd
  PROVE  Here = EndOfText /\ Here.open = << >> /\ Here.expect = "end"
<1>1. Here = EndOfText
  <2>1. Len(js) \in Nat
    BY LenProperties DEF IInv, TypeOK
  <2> QED
    BY <2>1, ReadingIs DEF Here, AtEnd, JsonIsKnown, IsJson
<1> QED
  BY <1>1 DEF EndOfText, AfterValue

(* So nothing is unclosed then.                                            *)
LEMMA NothingUnclosed ==
  ASSUME IInv, JsonIsKnown, JsonFills, json, FillUnclosed
  PROVE  FALSE
<1>1. phase = "fill" /\ AtEnd
  BY DEF FillUnclosed, Unclosed
<1>2. PICK b : FitsHere(b)
  BY <1>1 DEF JsonFills
<1>3. PICK k \in 0 .. toknext - 1 : tokens[k].end = -1
  BY DEF FillUnclosed, Unclosed
<1>4. PICK j \in 1 .. Len(Here.open) : k = b[j]
  BY <1>2, <1>3 DEF FitsHere, Fits, Chain
<1>5. Len(Here.open) = 0
  BY <1>1, EndIs
<1> QED
  BY <1>4, <1>5

(* All of the filling pass.                                                *)
LEMMA FillTokensFills ==
  ASSUME IInv, IInv', JsonIsKnown, JsonFills, Accepted, json, FillTokens
  PROVE  JsonFills' /\ Accepted'
<1>1. Fill /\ UNCHANGED <<given, capacity, walkVars, result>>
  BY DEF FillTokens
<1> QED
  BY <1>1, BracketFills, StringFills, PrimitiveFills, ColonFills, CommaFills, CloseFills,
     OpenFills, NothingFills, ParentFills, NothingBad, NothingUnclosed DEF Fill

--------------------------------------------------------------------------------
(* The walk, on JSON.                                                      *)

(* The tokens of JSON are a tree, and what is left of it is what the loops *)
(* have before them.                                                       *)
JsonWalks ==
    json /\ phase \in {"root", "walk"} =>
        /\ Tree(tokens, count, -1)
        /\ phase = "walk" /\ ~strayed => InStep(tokens, count, frames, i)

(* Nothing is read before the filling pass.                                *)
LEMMA AllocateFills ==
  ASSUME IInv, Accepted, JsonIsKnown, AllocateTokens
  PROVE  JsonFills' /\ Accepted' /\ JsonWalks'
<1>1. CASE Return("out_of_memory")
  BY <1>1 DEF Return, JsonFills, Accepted, JsonWalks, walkVars
<1>2. CASE /\ jsmn_init /\ count' = 0
           /\ capacity' = num_tokens + 1 /\ phase' = "fill"
           /\ UNCHANGED <<js, tokens, num_tokens, token, error, given, walkVars, result>>
  <2>1. /\ pos' = 0 /\ toknext' = 0 /\ toksuper' = -1 /\ phase' = "fill" /\ js' = js
        /\ error' = error /\ given' = given /\ json' = json
    BY <1>2 DEF jsmn_init, walkVars
  <2>2. Here' = StartOfText
    <3>1. Len(js) \in Nat
      BY LenProperties DEF IInv, TypeOK
    <3>2. Here' = Reading(js)[0]
      BY <2>1 DEF Here
    <3> QED
      BY <3>1, <3>2, ReadingIs
  <2>3. PICK start : start = StartOfText
    OBVIOUS
  <2>4. start.open = << >> /\ start.expect = "value" /\ start \in TextStates /\ Len(start.open) = 0
    BY <2>3 DEF StartOfText, TextStates
  <2>5. TextFits(start)
    BY <2>4 DEF TextFits
  <2>6. Tree(tokens', 0, Fresh(start, 0))
    <3>1. \A k \in 0 .. 0 - 1 : FALSE
      OBVIOUS
    <3> QED
      BY <3>1 DEF Tree, Rooted, Nested, Sized, Shaped
  <2>7. Chain(tokens', 0, start.open, << >>)
    <3>1. (\A k \in 0 .. 0 - 1 : FALSE) /\ \A j \in 1 .. Len(start.open) : FALSE
      BY <2>4
    <3> QED
      BY <3>1 DEF Chain
  <2>8. Cursor(tokens', 0, start, << >>, -1)
    BY <2>4 DEF Cursor
  <2>9. FitsHere(<< >>)'
    BY <2>1, <2>2, <2>3, <2>5, <2>6, <2>7, <2>8 DEF FitsHere, Fits
  <2> QED
    BY <2>1, <2>9 DEF JsonFills, Accepted, JsonWalks
<1> QED
  BY <1>1, <1>2 DEF AllocateTokens

(* The tokens of JSON are a tree.                                          *)
LEMMA FilledWalks ==
  ASSUME IInv, JsonIsKnown, JsonFills, Accepted, Filled
  PROVE  JsonFills' /\ Accepted' /\ JsonWalks'
<1>1. CASE count <= 0
  BY <1>1 DEF Filled, Return, JsonFills, Accepted, JsonWalks, walkVars
<1>2. CASE ~(count <= 0)
  <2>1. /\ phase' = "root" /\ phase = "fill" /\ AtEnd /\ json' = json /\ count' = count
        /\ tokens' = [k \in 0 .. count |-> IF k = count THEN UNDEFINED ELSE tokens[k]]
        /\ error' = error /\ given' = given
    BY <1>2 DEF Filled, walkVars
  <2>2. ASSUME json
        PROVE  Tree(tokens', count, -1)
    <3>1. PICK b : FitsHere(b)
      BY <2>1, <2>2 DEF JsonFills
    <3>2. Here.open = << >> /\ Here.expect = "end"
      BY <2>1, <2>2, EndIs
    <3>3. Fresh(Here, toknext) = -1
      BY <3>2 DEF Fresh
    <3>4. toknext \in Nat /\ count = toknext
      BY <2>1, FillingTokens DEF IInv, Filling
    <3>5. Tree(tokens, count, -1)
      BY <3>1, <3>3, <3>4 DEF FitsHere, Fits
    <3>6. \A k \in 0 .. count - 1 : tokens'[k] = tokens[k]
      BY <2>1, <3>4
    <3> QED
      BY <3>4, <3>5, <3>6, TreeStays
  <2> QED
    BY <2>1, <2>2 DEF JsonFills, Accepted, JsonWalks
<1> QED
  BY <1>1, <1>2

(* What is known during a walk.                                            *)
LEMMA WalkIs ==
  ASSUME IInv, phase \in {"root", "walk"}
  PROVE  /\ count \in Nat \ {0} /\ i \in 0 .. count /\ frames \in Seq(Loops)
         /\ tokens[count].type = "UNDEFINED"
  BY DEF IInv, TypeOK, Walking

(* A step that has stayed in step.                                         *)
LEMMA StepWalks ==
  ASSUME JsonWalks, Accepted, phase = "walk",
         json /\ ~strayed' => InStep(tokens, count, frames', i'),
         UNCHANGED <<jsmnVars, given, capacity, json, result>>
  PROVE  JsonFills' /\ Accepted' /\ JsonWalks'
  BY DEF JsonFills, Accepted, JsonWalks, jsmnVars

(* A return ends it.                                                       *)
LEMMA ReturnWalks ==
  ASSUME Accepted, Return("success") \/ Return("invalid_json") \/ Return("out_of_memory")
                     \/ Return("invalid_gltf") \/ Return("legacy_gltf")
  PROVE  JsonFills' /\ Accepted' /\ JsonWalks'
  BY DEF Return, JsonFills, Accepted, JsonWalks, walkVars

(* The walk begins in step.                                                *)
LEMMA RootWalks ==
  ASSUME IInv, Accepted, JsonWalks, Root
  PROVE  JsonFills' /\ Accepted' /\ JsonWalks'
<1>1. CASE Return("out_of_memory") \/ Unless(At.type = "OBJECT")
  BY <1>1, ReturnWalks DEF Unless
<1>2. CASE /\ At.type = "OBJECT"
           /\ phase' = "walk" /\ i' = 1
           /\ frames' = <<Loop("keys", At.size)>>
           /\ UNCHANGED <<js, pos, toknext, toksuper, tokens, num_tokens, count, token,
                          error, given, capacity, json, strayed, result>>
  <2>1. phase = "root" /\ i = 0 /\ count \in Nat \ {0} /\ At = tokens[0]
    BY WalkIs DEF Root, IInv, Walking, At
  <2>2. PICK loop : loop = Loop("keys", At.size)
    OBVIOUS
  <2>3. loop.kind = "keys" /\ loop.left = tokens[0].size /\ loop.of = 0
    BY <2>1, <2>2 DEF Loop
  <2>4. PICK loops : loops = <<loop>>
    OBVIOUS
  <2>5. Len(loops) = 1 /\ loops[1] = loop /\ loops # << >>
    BY <2>4
  <2>6. ASSUME json
        PROVE  InStep(tokens, count, loops, 1)
    <3>1. Tree(tokens, count, -1)
      BY <2>1, <2>6 DEF JsonWalks
    <3>2. Ahead(loops, 1) = 1
      BY <2>3, <2>5 DEF Ahead
    <3>3. 0 \in 0 .. count - 1
      BY <2>1
    <3>4. Suits(loop.kind, tokens[loop.of].type)
      BY <1>2, <2>1, <2>3 DEF Suits
    <3>5. tokens[0].size = Cardinality(Unread(tokens, count, 0, 0 + 1))
      BY <2>1, <3>1, <3>3, UnreadAll DEF Tree, Sized
    <3>6. 1 < count => tokens[1].parent <= 0
      <4> SUFFICES ASSUME 1 < count
                   PROVE  tokens[1].parent <= 0
        OBVIOUS
      <4>1. 1 \in 0 .. count - 1
        BY <2>1
      <4>2. tokens[1].parent \in -1 .. 1 - 1
        BY <3>1, <4>1 DEF Tree, Rooted
      <4> QED
        BY <4>2
    <3>7. Belongs(tokens, count, loops, 1)
      BY <2>3, <2>5, <3>3, <3>4 DEF Belongs
    <3>8. Reads(tokens, count, loops[1], 1, 1)
      <4>1. 0 + 1 = 1
        OBVIOUS
      <4> QED
        BY <2>3, <2>5, <3>5, <4>1 DEF Reads
    <3>9. \A f \in 1 .. Len(loops) : f = 1
      BY <2>5
    <3>10. loops[Len(loops)].kind # "skip" /\ loops[Len(loops)].of = 0 /\ 1 \in 1 .. count
      BY <2>1, <2>3, <2>5
    <3> QED
      BY <2>5, <3>2, <3>6, <3>7, <3>8, <3>9, <3>10 DEF InStep
  <2> QED
    BY <1>2, <2>1, <2>2, <2>4, <2>6 DEF JsonFills, Accepted, JsonWalks
<1> QED
  BY <1>1, <1>2 DEF Root

(* What is known where a loop has a value or key to read.                  *)
LEMMA ValueIs ==
  ASSUME IInv, JsonWalks, json, ~strayed, phase = "walk", frames # << >>,
         Top.kind # "skip", Top.left > 0
  PROVE  /\ count \in Nat /\ Tree(tokens, count, -1) /\ frames \in Seq(Loops)
         /\ InStep(tokens, count, frames, i) /\ i \in 1 .. count - 1
         /\ frames[Len(frames)].kind # "skip" /\ frames[Len(frames)].left > 0
         /\ frames[Len(frames)].kind = Top.kind
         /\ NextRound = Round(frames, frames[Len(frames)].left - 1)
         /\ At.parent = Top.of /\ At = tokens[i]
         /\ Suits(Top.kind, tokens[Top.of].type) /\ Top.of \in 0 .. count - 1
<1>1. /\ count \in Nat /\ Tree(tokens, count, -1) /\ frames \in Seq(Loops)
      /\ InStep(tokens, count, frames, i)
  BY WalkIs DEF JsonWalks
<1>2. Top = frames[Len(frames)] /\ At = tokens[i]
  BY DEF Top, At
<1>3. NextRound = Round(frames, frames[Len(frames)].left - 1)
  BY <1>2, TopLoop
<1>4. /\ i \in 1 .. count - 1 /\ Len(frames) \in Nat \ {0} /\ At.parent = Top.of
  BY <1>1, <1>2, NextBelongs
<1>5. Belongs(tokens, count, frames, Len(frames))
  BY <1>1, <1>4 DEF InStep
<1> QED
  BY <1>1, <1>2, <1>3, <1>4, <1>5 DEF Belongs

(* Another loop is entered.                                                *)
LEMMA EnterWalks ==
  ASSUME IInv, JsonWalks, Accepted, phase = "walk", frames # << >>,
         Top.kind # "skip", Top.left > 0,
         NEW kind \in {"keys", "value", "values", "scalars", "skip"},
         NEW left \in Nat, Suits(kind, At.type),
         kind = "skip" => Top.kind = "value" /\ left = 1,
         kind # "skip" /\ json /\ ~strayed => left = At.size,
         NEW next, next = IF kind = "skip" THEN i ELSE i + 1,
         Walk(next, Append(NextRound, Loop(kind, left)))
  PROVE  JsonFills' /\ Accepted' /\ JsonWalks'
<1>1. i \in Nat
  BY WalkIs
<1>2. PICK inner \in Loops : /\ inner = Loop(kind, left) /\ inner.kind = kind
                             /\ inner.left = left /\ inner.of = i
  BY <1>1 DEF Loop, Loops
<1>3. /\ i' = next /\ frames' = Append(NextRound, inner) /\ strayed' = strayed
      /\ UNCHANGED <<jsmnVars, given, capacity, json, result>>
  BY <1>2 DEF Walk
<1>4. ASSUME json, ~strayed'
      PROVE  InStep(tokens, count, frames', i')
  <2>1. ~strayed
    BY <1>3, <1>4
  <2>2. /\ count \in Nat /\ Tree(tokens, count, -1) /\ frames \in Seq(Loops)
        /\ InStep(tokens, count, frames, i)
        /\ frames[Len(frames)].kind # "skip" /\ frames[Len(frames)].left > 0
        /\ frames[Len(frames)].kind = Top.kind
        /\ NextRound = Round(frames, frames[Len(frames)].left - 1) /\ At = tokens[i]
    BY <1>4, <2>1, ValueIs
  <2>3. /\ inner.kind = "skip" => frames[Len(frames)].kind = "value"
        /\ inner.kind # "skip" => inner.left = tokens[i].size
        /\ inner.kind = "skip" => inner.left = 1
        /\ Suits(inner.kind, tokens[i].type)
    BY <1>2, <1>4, <2>1, <2>2
  <2>4. next = IF inner.kind = "skip" THEN i ELSE i + 1
    BY <1>2
  <2>5. InStep(tokens, count, Append(Round(frames, frames[Len(frames)].left - 1), inner), next)
    BY <1>2, <2>2, <2>3, <2>4, Entered
  <2> QED
    BY <1>3, <2>2, <2>5
<1> QED
  BY <1>3, <1>4, StepWalks

(* A key is read: its one value is next.                                   *)
LEMMA KeyWalks ==
  ASSUME IInv, Accepted, JsonWalks, Key
  PROVE  JsonFills' /\ Accepted' /\ JsonWalks'
<1>1. CASE Unless(At.type = "STRING" /\ At.size # 0)
  BY <1>1, ReturnWalks DEF Unless
<1>2. CASE /\ At.type = "STRING" /\ At.size # 0
           /\ Walk(i + 1, Append(NextRound, Loop("value", 1)))
  <2>1. phase = "walk" /\ frames # << >> /\ Top.kind = "keys" /\ Top.left > 0
    BY DEF Key, InLoop
  <2>2. json /\ ~strayed => 1 = At.size
    <3> SUFFICES ASSUME json, ~strayed
                 PROVE  1 = At.size
      OBVIOUS
    <3>1. i \in 0 .. count - 1 /\ At = tokens[i] /\ Tree(tokens, count, -1)
      BY <2>1, ValueIs
    <3> QED
      BY <1>2, <3>1 DEF Tree, Shaped
  <2>3. Suits("value", At.type)
    BY <1>2 DEF Suits
  <2>4. PICK next : next = i + 1
    OBVIOUS
  <2> QED
    BY <1>2, <2>1, <2>2, <2>3, <2>4, EnterWalks
<1> QED
  BY <1>1, <1>2 DEF Key

(* An object is entered.                                                   *)
LEMMA ObjectWalks ==
  ASSUME IInv, Accepted, JsonWalks, Object
  PROVE  JsonFills' /\ Accepted' /\ JsonWalks'
<1>1. CASE Unless(At.type = "OBJECT")
  BY <1>1, ReturnWalks DEF Unless
<1>2. CASE At.type = "OBJECT" /\ Walk(i + 1, Append(NextRound, Loop("keys", At.size)))
  <2>1. /\ phase = "walk" /\ frames # << >> /\ Top.kind \in {"value", "values"}
        /\ Top.left > 0
    BY DEF Object, InLoop
  <2>2. Suits("keys", At.type)
    BY <1>2 DEF Suits
  <2>3. PICK left \in Nat : left = At.size
    BY <1>2, <2>1, AtToken
  <2>4. PICK next : next = i + 1
    OBVIOUS
  <2> QED
    BY <1>2, <2>1, <2>2, <2>3, <2>4, EnterWalks
<1> QED
  BY <1>1, <1>2 DEF Object

(* An array is entered.                                                    *)
LEMMA ArrayWalks ==
  ASSUME IInv, Accepted, JsonWalks, Array
  PROVE  JsonFills' /\ Accepted' /\ JsonWalks'
<1>1. CASE Unless(At.type = "ARRAY")
  BY <1>1, ReturnWalks DEF Unless
<1>2. ASSUME At.type = "ARRAY", NEW kind \in {"values", "scalars"},
             Walk(i + 1, Append(NextRound, Loop(kind, At.size)))
      PROVE  JsonFills' /\ Accepted' /\ JsonWalks'
  <2>1. phase = "walk" /\ frames # << >> /\ Top.kind = "value" /\ Top.left > 0
    BY DEF Array, InLoop
  <2>2. Suits(kind, At.type)
    BY <1>2 DEF Suits
  <2>3. PICK left \in Nat : left = At.size
    BY <1>2, <2>1, AtToken
  <2>4. PICK next : next = i + 1
    OBVIOUS
  <2> QED
    BY <1>2, <2>1, <2>2, <2>3, <2>4, EnterWalks
<1> QED
  BY <1>1, <1>2 DEF Array

(* A value is to be skipped.                                               *)
LEMMA SkipWalks ==
  ASSUME IInv, Accepted, JsonWalks, Skip
  PROVE  JsonFills' /\ Accepted' /\ JsonWalks'
<1>1. phase = "walk" /\ frames # << >> /\ Top.kind = "value" /\ Top.left > 0
  BY DEF Skip, InLoop
<1>2. Suits("skip", At.type)
  BY DEF Suits
<1>3. PICK next : next = i
  OBVIOUS
<1> QED
  BY <1>1, <1>2, <1>3, EnterWalks DEF Skip

(* A token without parts is read.                                          *)
LEMMA LeafWalks ==
  ASSUME IInv, JsonWalks, Accepted, phase = "walk", frames # << >>,
         Top.kind # "skip", Top.left > 0, i' = i + 1, frames' = NextRound,
         json /\ ~strayed' => ~strayed /\ At.size = 0,
         UNCHANGED <<jsmnVars, given, capacity, json, result>>
  PROVE  JsonFills' /\ Accepted' /\ JsonWalks'
<1>1. ASSUME json, ~strayed'
      PROVE  InStep(tokens, count, frames', i')
  <2>1. /\ count \in Nat /\ Tree(tokens, count, -1) /\ frames \in Seq(Loops)
        /\ InStep(tokens, count, frames, i)
        /\ frames[Len(frames)].kind # "skip" /\ frames[Len(frames)].left > 0
        /\ NextRound = Round(frames, frames[Len(frames)].left - 1) /\ At = tokens[i]
    BY <1>1, ValueIs
  <2>2. tokens[i].size = 0
    BY <1>1, <2>1
  <2>3. InStep(tokens, count, Round(frames, frames[Len(frames)].left - 1), i + 1)
    BY <2>1, <2>2, LeafInStep
  <2> QED
    BY <2>1, <2>3
<1> QED
  BY <1>1, StepWalks

(* A string or primitive that is no key has no children.                   *)
LEMMA CheckedScalarWalks ==
  ASSUME IInv, Accepted, JsonWalks, CheckedScalar
  PROVE  JsonFills' /\ Accepted' /\ JsonWalks'
<1>1. ASSUME NEW type \in {"STRING", "PRIMITIVE"}, Unless(At.type = type)
      PROVE  JsonFills' /\ Accepted' /\ JsonWalks'
  BY <1>1, ReturnWalks DEF Unless
<1>2. ASSUME NEW type \in {"STRING", "PRIMITIVE"}, At.type = type, Walk(i + 1, NextRound)
      PROVE  JsonFills' /\ Accepted' /\ JsonWalks'
  <2>1. /\ phase = "walk" /\ frames # << >> /\ Top.kind \in {"value", "values"}
        /\ Top.left > 0
    BY DEF CheckedScalar, InLoop
  <2>2. ASSUME json, ~strayed
        PROVE  At.size = 0
    <3>1. /\ i \in 1 .. count - 1 /\ At = tokens[i] /\ Tree(tokens, count, -1)
          /\ At.parent = Top.of /\ Suits(Top.kind, tokens[Top.of].type)
          /\ Top.of \in 0 .. count - 1
      BY <2>1, <2>2, ValueIs
    <3>2. i \in 0 .. count - 1
      BY <3>1
    <3>3. /\ At.type = "PRIMITIVE" => At.size = 0
          /\ At.type = "STRING" /\ At.size # 0 => tokens[At.parent].type = "OBJECT"
      BY <3>1, <3>2 DEF Tree, Shaped
    <3>4. tokens[Top.of].type # "OBJECT"
      BY <2>1, <3>1 DEF Suits
    <3> QED
      BY <1>2, <3>1, <3>3, <3>4
  <2>3. /\ i' = i + 1 /\ frames' = NextRound /\ strayed' = strayed
        /\ UNCHANGED <<jsmnVars, given, capacity, json, result>>
    BY <1>2 DEF Walk
  <2> QED
    BY <2>1, <2>2, <2>3, LeafWalks
<1> QED
  BY <1>1, <1>2 DEF CheckedScalar

(* Nor has what is read as a scalar, unless the walk strays.               *)
LEMMA ScalarWalks ==
  ASSUME IInv, Accepted, JsonWalks, Scalar
  PROVE  JsonFills' /\ Accepted' /\ JsonWalks'
<1>1. /\ phase = "walk" /\ frames # << >> /\ Top.kind \in {"value", "scalars"}
      /\ Top.left > 0
  BY DEF Scalar, InLoop
<1>2. /\ i' = i + 1 /\ frames' = NextRound /\ strayed' = (strayed \/ At.size > 0)
      /\ UNCHANGED <<jsmnVars, given, capacity, json, result>>
  BY DEF Scalar
<1>3. PICK size \in Nat : size = At.size
  BY <1>1, AtToken
<1>4. ~strayed' => ~strayed /\ At.size = 0
  <2>1. ~strayed' => ~strayed /\ ~(At.size > 0)
    BY Zenon, <1>2
  <2>2. ~(At.size > 0) => At.size = 0
    BY <1>3
  <2> QED
    BY <2>1, <2>2
<1> QED
  BY <1>1, <1>2, <1>4, LeafWalks

(* A token is skipped.                                                     *)
LEMMA SkipTokenWalks ==
  ASSUME IInv, Accepted, JsonWalks, SkipToken
  PROVE  JsonFills' /\ Accepted' /\ JsonWalks'
<1> DEFINE parts == CASE At.type = "OBJECT" -> At.size * 2
                      [] At.type = "ARRAY"  -> At.size
                      [] OTHER              -> 0
<1>1. CASE Unless(At.type # "UNDEFINED")
  BY <1>1, ReturnWalks DEF Unless
<1>2. CASE /\ At.type # "UNDEFINED"
           /\ Walk(i + 1, [frames EXCEPT ![Len(frames)].left = @ - 1 + parts])
  <2>1. phase = "walk" /\ frames # << >> /\ Top.kind = "skip" /\ Top.left > 0
    BY DEF SkipToken, InLoop
  <2>2. [frames EXCEPT ![Len(frames)].left = @ - 1 + parts] =
            Round(frames, frames[Len(frames)].left - 1 + parts)
    BY DEF Round
  <2>3. parts = CASE tokens[i].type = "OBJECT" -> tokens[i].size * 2
                  [] tokens[i].type = "ARRAY"  -> tokens[i].size
                  [] OTHER                     -> 0
    BY DEF At
  <2> HIDE DEF parts
  <2>4. /\ i' = i + 1 /\ frames' = Round(frames, frames[Len(frames)].left - 1 + parts)
        /\ strayed' = strayed /\ UNCHANGED <<jsmnVars, given, capacity, json, result>>
    BY <1>2, <2>2 DEF Walk
  <2>5. ASSUME json, ~strayed'
        PROVE  InStep(tokens, count, frames', i')
    <3>1. /\ count \in Nat /\ Tree(tokens, count, -1) /\ frames \in Seq(Loops)
          /\ InStep(tokens, count, frames, i)
      BY <2>1, <2>4, <2>5, WalkIs DEF JsonWalks
    <3>2. i < count
      BY <1>2, <2>1, WalkIs DEF At
    <3>3. frames[Len(frames)].kind = "skip" /\ frames[Len(frames)].left > 0
      BY <2>1 DEF Top
    <3>4. InStep(tokens, count, Round(frames, frames[Len(frames)].left - 1 + parts), i + 1)
      BY <2>1, <2>3, <3>1, <3>2, <3>3, SkipInStep
    <3> QED
      BY <2>4, <3>4
  <2> QED
    BY <2>1, <2>4, <2>5, StepWalks
<1> QED
  BY <1>1, <1>2 DEF SkipToken

(* A loop ends where the next token is not its own.                        *)
LEMMA LoopEndsWalks ==
  ASSUME IInv, Accepted, JsonWalks, LoopEnds
  PROVE  JsonFills' /\ Accepted' /\ JsonWalks'
<1>1. phase = "walk" /\ frames # << >> /\ frames[Len(frames)].left = 0
  BY DEF LoopEnds, Top
<1> DEFINE rest == SubSeq(frames, 1, Len(frames) - 1)
<1>2. /\ i' = i /\ frames' = rest /\ strayed' = strayed
      /\ UNCHANGED <<jsmnVars, given, capacity, json, result>>
  BY DEF LoopEnds, Walk
<1>3. ASSUME json, ~strayed'
      PROVE  InStep(tokens, count, rest, i)
  <2>1. /\ count \in Nat /\ Tree(tokens, count, -1) /\ frames \in Seq(Loops)
        /\ InStep(tokens, count, frames, i)
    BY <1>1, <1>2, <1>3, WalkIs DEF JsonWalks
  <2> QED
    BY <1>1, <2>1, EndInStep
<1> HIDE DEF rest
<1> QED
  BY <1>1, <1>2, <1>3, StepWalks

(* The invariant for JSON.                                                 *)
JInv == IInv /\ JsonIsKnown /\ JsonFills /\ Accepted /\ JsonWalks

(* The text stays what it is.                                              *)
LEMMA JsonStays ==
  ASSUME [ParseNext]_parseVars
  PROVE  json' = json /\ js' = js
<1> USE DEF parseVars, jsmnVars, walkVars
<1>1. CASE Count \/ Counted \/ CountFails \/ AllocateTokens
  BY <1>1 DEF Count, CountLexeme, Counted, CountFails, AllocateTokens, Return
<1>2. CASE FillTokens
  BY <1>2 DEF FillTokens, Fill, Stop, jsmn_alloc_token, OpenBracket, String, Primitive, Colon,
              Comma, CloseBracket, CloseOpen, CloseNothing, CloseParent, Bad, FillUnclosed
<1>3. CASE FillFailed \/ Filled \/ Root \/ GiveUp \/ WalkEnds
  BY <1>3 DEF FillFailed, Filled, Root, GiveUp, WalkEnds, Return, Unless
<1>4. CASE Key \/ Object \/ Array \/ CheckedScalar \/ Scalar \/ Skip \/ SkipToken \/ LoopEnds
  BY <1>4 DEF Key, Object, Array, CheckedScalar, Scalar, Skip, SkipToken, LoopEnds, Walk,
              Unless, Return
<1>5. CASE UNCHANGED parseVars
  BY <1>5
<1> QED
  BY <1>1, <1>2, <1>3, <1>4, <1>5 DEF ParseNext

(* Counting.                                                               *)
LEMMA CountWalks ==
  ASSUME Accepted, Count \/ Counted
  PROVE  JsonFills' /\ Accepted' /\ JsonWalks'
<1>1. CASE Count
  BY <1>1 DEF Count, CountLexeme, walkVars, JsonFills, Accepted, JsonWalks
<1>2. CASE Counted /\ count <= 0
  BY <1>2, ReturnWalks DEF Counted
<1>3. CASE Counted /\ ~(count <= 0)
  BY <1>3 DEF Counted, walkVars, JsonFills, Accepted, JsonWalks
<1> QED
  BY <1>1, <1>2, <1>3

(* The filling pass, on JSON or not.                                       *)
LEMMA FillTokensWalks ==
  ASSUME JInv, IInv', FillTokens, json' = json
  PROVE  JsonFills' /\ Accepted' /\ JsonWalks'
<1>1. phase' \notin {"root", "walk"}
  BY DEF FillTokens, Fill, Stop, jsmn_alloc_token, OpenBracket, String, Primitive, Colon,
         Comma, CloseBracket, CloseOpen, CloseNothing, CloseParent, Bad, FillUnclosed
<1>2. CASE json
  BY <1>1, <1>2, FillTokensFills DEF JInv, JsonWalks
<1>3. CASE ~json
  BY <1>3 DEF JsonFills, Accepted, JsonWalks
<1> QED
  BY <1>2, <1>3

(* Nothing happens.                                                        *)
LEMMA StutterWalks ==
  ASSUME JInv, UNCHANGED parseVars
  PROVE  JsonFills' /\ Accepted' /\ JsonWalks'
<1>1. /\ js' = js /\ pos' = pos /\ toknext' = toknext /\ toksuper' = toksuper
      /\ tokens' = tokens /\ token' = token /\ phase' = phase /\ error' = error
      /\ count' = count /\ given' = given /\ i' = i /\ frames' = frames
      /\ json' = json /\ strayed' = strayed
  BY DEF parseVars, jsmnVars, walkVars
<1>2. Here' = Here
  BY <1>1 DEF Here
<1>3. \A b : FitsHere(b)' <=> FitsHere(b)
  BY <1>1, <1>2 DEF FitsHere
<1>4. JsonFills'
  BY <1>1, <1>2, <1>3 DEF JInv, JsonFills
<1> QED
  BY <1>1, <1>4 DEF JInv, Accepted, JsonWalks

(* It holds at the start.                                                  *)
LEMMA JsonInitHolds ==
  ASSUME ParseInit
  PROVE  JInv
<1>1. IInv
  BY InitHolds
<1>2. phase \in {"count", "allocate"} /\ error = "none"
  BY DEF ParseInit
<1>3. JsonIsKnown
  BY Zenon DEF ParseInit, JsonIsKnown
<1> QED
  BY <1>1, <1>2, <1>3 DEF JInv, JsonFills, Accepted, JsonWalks

(* And after every step.                                                   *)
LEMMA JsonStepHolds ==
  ASSUME JInv, [ParseNext]_parseVars
  PROVE  JInv'
<1>1. IInv /\ IInv' /\ JsonIsKnown /\ JsonFills /\ Accepted /\ JsonWalks
  BY StepHolds DEF JInv
<1>2. json' = json /\ js' = js
  BY JsonStays
<1>3. JsonIsKnown'
  <2>1. json <=> IsJson(js)
    BY <1>1 DEF JsonIsKnown
  <2>2. json' <=> IsJson(js')
    BY Zenon, <1>2, <2>1
  <2> QED
    BY <2>2 DEF JsonIsKnown
<1>4. ASSUME CountFails \/ FillFailed \/ GiveUp \/ WalkEnds
      PROVE  JsonFills' /\ Accepted' /\ JsonWalks'
  <2>1. \/ Return("success") \/ Return("invalid_json") \/ Return("out_of_memory")
        \/ Return("invalid_gltf") \/ Return("legacy_gltf")
    BY <1>4 DEF CountFails, FillFailed, GiveUp, WalkEnds
  <2> QED
    BY <1>1, <2>1, ReturnWalks
<1>5. JsonFills' /\ Accepted' /\ JsonWalks'
  BY <1>1, <1>2, <1>4, CountWalks, AllocateFills, FillTokensWalks, FilledWalks, RootWalks,
     KeyWalks, ObjectWalks, ArrayWalks, CheckedScalarWalks, ScalarWalks, SkipWalks,
     SkipTokenWalks, LoopEndsWalks, StutterWalks DEF ParseNext
<1> QED
  BY <1>1, <1>3, <1>5 DEF JInv

--------------------------------------------------------------------------------
(* The theorems.                                                           *)

(* The invariant is inductive: of cgltf_parse_json, whatever the text.     *)
THEOREM Inductive == ParseSpec => []IInv
<1>1. ParseInit => IInv
  BY InitHolds
<1>2. IInv /\ [ParseNext]_parseVars => IInv'
  BY StepHolds
<1> QED
  BY <1>1, <1>2, PTL DEF ParseSpec

(* The types of the parser's state; and every parent jsmn links a token to *)
(* is an earlier token, so that its searches go down and end.              *)
THEOREM ParserTypes == ParseSpec => []TypeOK
<1>1. IInv => TypeOK
  BY DEF IInv
<1> QED
  BY <1>1, Inductive, PTL

(* The filling pass of jsmn_parse needs exactly the tokens that the        *)
(* counting pass has returned.                                             *)
THEOREM TokensSuffice == ParseSpec => []PassesAgree
<1>1. IInv => PassesAgree
  BY DEF IInv
<1> QED
  BY <1>1, Inductive, PTL

(* No cgltf_parse_json_* function looks behind the UNDEFINED token, and    *)
(* none that trusts a token's type without a look at it gets there.        *)
THEOREM WalkIsInside == ParseSpec => []WalkStaysInside
<1>1. ASSUME IInv
      PROVE  WalkStaysInside
  <2>1. \A k \in DOMAIN tokens : k < capacity
    BY <1>1 DEF IInv, InArray
  <2>2. phase \in {"root", "walk"} => i \in DOMAIN tokens
    BY <1>1 DEF IInv, TypeOK, Walking
  <2>3. ASSUME InLoop({"value", "scalars"})
        PROVE  At.type # "UNDEFINED"
    <3>1. phase = "walk"
      BY <2>3 DEF InLoop
    <3>2. i + 1 <= count /\ i \in Nat /\ count \in Nat
      BY <1>1, <2>3, <3>1, TrustedToken, AtToken
    <3>3. i \in DOMAIN tokens /\ i < count
      BY <2>2, <3>1, <3>2
    <3> QED
      BY <1>1, <3>3 DEF IInv, SizesFit, At
  <2> QED
    BY <2>1, <2>2, <2>3 DEF WalkStaysInside
<1> QED
  BY <1>1, Inductive, PTL

(* On JSON, what jsmn fills is the tree of the text, its links and sizes;  *)
(* and the loops of the walk have before them what is left of their        *)
(* tokens.                                                                 *)
THEOREM JsonInductive == ParseSpec => []JInv
<1>1. ParseInit => JInv
  BY JsonInitHolds
<1>2. JInv /\ [ParseNext]_parseVars => JInv'
  BY JsonStepHolds
<1> QED
  BY <1>1, <1>2, PTL DEF ParseSpec

(* A text that is JSON is accepted by jsmn_parse, whatever it nests; and   *)
(* the cgltf_parse_json_* functions, calling each other in any way and     *)
(* skipping what they will, are never out of step with it: each key or     *)
(* value is read by the loop of the object or array it is in, unless one   *)
(* was read as a scalar.                                                   *)
THEOREM JsonIsRead == ParseSpec => []JsonIsWalkedInStep
<1>1. ASSUME JInv
      PROVE  JsonIsWalkedInStep
  <2> SUFFICES ASSUME json
               PROVE  /\ given = 0 => error = "none"
                      /\ phase = "walk" /\ ~strayed =>
                            /\ frames # << >> /\ Top.kind # "skip" /\ Top.left > 0 =>
                                  At.parent = Top.of
                            /\ frames = << >> => At.type = "UNDEFINED"
    BY DEF JsonIsWalkedInStep
  <2>1. given = 0 => error = "none"
    BY <1>1 DEF JInv, Accepted
  <2>2. ASSUME phase = "walk", ~strayed, frames # << >>, Top.kind # "skip", Top.left > 0
        PROVE  At.parent = Top.of
    BY <1>1, <2>2, ValueIs DEF JInv
  <2>3. ASSUME phase = "walk", ~strayed, frames = << >>
        PROVE  At.type = "UNDEFINED"
    <3>1. i = count
      BY <1>1, <2>3 DEF JInv, JsonWalks, InStep
    <3> QED
      BY <1>1, <2>3, <3>1, WalkIs DEF JInv, At
  <2> QED
    BY <2>1, <2>2, <2>3
<1> QED
  BY <1>1, JsonInductive, PTL
=============================================================================
