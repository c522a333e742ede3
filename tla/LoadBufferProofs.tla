--------------------------- MODULE LoadBufferProofs ---------------------------
(***************************************************************************)
(* The calls of LoadBuffer, for texts, files and sizes of any length: that *)
(* the decoders write the right bytes in place, and that a call of a read  *)
(* hook returns a full buffer or none.                                     *)
(*                                                                         *)
(* A decoder goes through its string from the left; what its string stands *)
(* for is defined from the right.  An invariant joins the two: whatever    *)
(* begins with what is written, and goes on with what the unread rest      *)
(* stands for, is what the whole string stands for.                        *)
(***************************************************************************)
EXTENDS LoadBuffer, TLAPS, SequenceTheorems, WellFoundedInduction

(* Induction over the numbers, without an operator for a parameter.        *)
Less == {pair \in Nat \X Nat : pair[1] < pair[2]}

\* The order of the numbers has no endless descent.
LEMMA LessIsWellFounded == IsWellFoundedOn(Less, Nat)
  BY NatLessThanWellFounded, Zenon DEF OpToRel, Less

\* Induction, said of a set.
LEMMA CountsThroughNat ==
  ASSUME NEW S, 0 \in S, \A n \in Nat : n \in S => n + 1 \in S
  PROVE  Nat \subseteq S
<1> DEFINE T == Nat \ S
<1>1. SUFFICES ASSUME T # {} PROVE FALSE
  OBVIOUS
<1>2. PICK t \in T : \A u \in T : <<u, t>> \notin Less
  BY <1>1, LessIsWellFounded, WFMin
<1>3. t # 0 /\ t \in Nat /\ t \notin S
  OBVIOUS
<1>4. t - 1 \in Nat /\ t - 1 + 1 = t
  BY <1>3
<1>5. t - 1 \in S
  <2>1. <<t - 1, t>> \in Less
    BY <1>3, <1>4 DEF Less
  <2> QED  BY <1>2, <1>4, <2>1
<1> QED
  BY <1>3, <1>4, <1>5

--------------------------------------------------------------------------------
(* The functions that texts are read with: what they are at a character    *)
(* depends on what they are at later ones.                                 *)

\* What a hexadecimal digit is.
LEMMA HexIs == \A ch \in Hex : ch \in 48 .. 102 /\ cgltf_unhex(ch) \in 0 .. 15
<1> SUFFICES ASSUME NEW ch \in Hex
             PROVE  ch \in 48 .. 102 /\ cgltf_unhex(ch) \in 0 .. 15
  OBVIOUS
<1>1. ch \in 48 .. 102 /\ cgltf_unhex(ch) >= 0
  BY DEF Hex
<1> QED
  BY <1>1 DEF cgltf_unhex

\* Nor is the NUL at the end one.
LEMMA ZeroIsNone == 0 \notin Hex
  BY HexIs

\* A round of jsmn_parse_string goes on behind where it is, and not behind the text.
LEMMA DigitsAreAhead ==
  ASSUME NEW js, Len(js) \in Nat, NEW i \in 1 .. Len(js) + 1,
         NEW next \in BehindDigits(js, i)
  PROVE  next \in i .. Len(js) + 1
<1>1. PICK m \in 0 .. 4 : /\ next = i + m
                          /\ \A k \in 0 .. m - 1 : At(js, i + k) \in Hex
  BY DEF BehindDigits
<1>2. ASSUME i + m > Len(js) + 1
      PROVE  FALSE
  <2>1. Len(js) + 1 - i \in 0 .. m - 1
    BY <1>1, <1>2
  <2>2. i + (Len(js) + 1 - i) = Len(js) + 1
    OBVIOUS
  <2>3. At(js, Len(js) + 1) \in Hex
    BY <1>1, <2>1, <2>2
  <2>4. At(js, Len(js) + 1) = 0
    BY DEF At, NUL
  <2> QED
    BY <2>3, <2>4, ZeroIsNone
<1> QED
  BY <1>1, <1>2

LEMMA MarksDiffer == NUL # Quote /\ NUL # Backslash /\ Quote # Backslash
  BY DEF NUL, Quote, Backslash

\* So what it finds depends on what later rounds find only,
LEMMA ScanLooksAhead ==
  ASSUME NEW js, Len(js) \in Nat, NEW i \in 1 .. Len(js) + 1, NEW f, NEW g,
         \A k \in i + 1 .. Len(js) + 1 : f[k] = g[k]
  PROVE  Scan(js, i, f) = Scan(js, i, g)
<1>1. ASSUME At(js, i) # NUL
      PROVE  i <= Len(js) /\ i + 1 \in i + 1 .. Len(js) + 1
  BY <1>1 DEF At
<1>2. ASSUME i < Len(js)
      PROVE  i + 2 \in i + 1 .. Len(js) + 1
  BY <1>2
<1>3. ASSUME i < Len(js), BehindDigits(js, i + 2) # {}
      PROVE  (CHOOSE next \in BehindDigits(js, i + 2) : TRUE) \in i + 1 .. Len(js) + 1
  <2> DEFINE n == CHOOSE next \in BehindDigits(js, i + 2) : TRUE
  <2>1. n \in BehindDigits(js, i + 2)
    BY <1>3
  <2>2. i + 2 \in 1 .. Len(js) + 1
    BY <1>3
  <2>3. n \in i + 2 .. Len(js) + 1
    BY <2>1, <2>2, DigitsAreAhead
  <2> QED
    BY <2>3
<1> DEFINE n == CHOOSE next \in BehindDigits(js, i + 2) : TRUE
<1>4. At(js, i) # NUL => f[i + 1] = g[i + 1]
  BY <1>1
<1>5. i < Len(js) => f[i + 2] = g[i + 2]
  BY <1>2
<1>6. i < Len(js) /\ BehindDigits(js, i + 2) # {} => f[n] = g[n]
  BY <1>3
<1> HIDE DEF n
<1>7. ASSUME At(js, i) = Backslash, i < Len(js)
      PROVE  Scan(js, i, f) = Scan(js, i, g)
  BY <1>5, <1>6, <1>7 DEF Scan, n, NUL, Backslash, Quote
<1>8. ASSUME ~(At(js, i) = Backslash /\ i < Len(js))
      PROVE  Scan(js, i, f) = Scan(js, i, g)
  BY <1>4, <1>8 DEF Scan
<1> QED
  BY <1>7, <1>8

\* and the places of a text on those of its later characters.
LEMMA PlacesLookAhead ==
  ASSUME NEW b, NEW t, Len(t) \in Nat, NEW i \in 1 .. Len(t) + 1, NEW f, NEW g,
         \A k \in i + 1 .. Len(t) + 1 : f[k] = g[k]
  PROVE  Places(b, t, i, f) = Places(b, t, i, g)
<1>1. i <= Len(t) => f[i + 1] = g[i + 1]
  OBVIOUS
<1>2. i < Len(t) => f[i + 2] = g[i + 2]
  OBVIOUS
<1>3. i + 5 <= Len(t) => f[i + 6] = g[i + 6]
  OBVIOUS
<1> QED
  BY <1>1, <1>2, <1>3, Zenon DEF Places

(* Such a function exists.                                                 *)
LEMMA ScanExists ==
  ASSUME NEW js, Len(js) \in Nat
  PROVE  \E f : /\ \A i \in 1 .. Len(js) + 1 : f[i] = Scan(js, i, f)
                /\ jsmn_parse_string(js) = f[1]
<1> DEFINE L == Len(js)
           Rule(f, m) == f = [i \in L + 1 - m .. L + 1 |-> Scan(js, i, f)]
           S == {m \in Nat : m <= L => \E f : Rule(f, m)}
<1>1. 0 \in S
  <2> DEFINE f == [i \in L + 1 - 0 .. L + 1 |-> 0]
  <2>1. \A i \in L + 1 - 0 .. L + 1 : Scan(js, i, f) = 0
    <3> SUFFICES ASSUME NEW i \in L + 1 - 0 .. L + 1
                 PROVE  Scan(js, i, f) = 0
      OBVIOUS
    <3>1. i > Len(js)
      OBVIOUS
    <3>2. At(js, i) = NUL
      BY <3>1 DEF At
    <3> QED
      BY <3>2, MarksDiffer, Zenon DEF Scan
  <2>2. Rule(f, 0)
    BY <2>1
  <2> QED  BY <2>2
<1>2. ASSUME NEW m \in Nat, m \in S PROVE m + 1 \in S
  <2> SUFFICES ASSUME m + 1 <= L
               PROVE  \E f : Rule(f, m + 1)
    OBVIOUS
  <2>1. PICK f : Rule(f, m)
    BY <1>2
  <2> DEFINE g == [i \in L + 1 - (m + 1) .. L + 1 |->
                     IF i = L + 1 - (m + 1) THEN Scan(js, i, f) ELSE f[i]]
  <2>2. \A i \in L + 1 - m .. L + 1 : g[i] = f[i]
    OBVIOUS
  <2>3. ASSUME NEW i \in L + 1 - (m + 1) .. L + 1
        PROVE  g[i] = Scan(js, i, g)
    <3>1. i \in 1 .. Len(js) + 1 /\ \A k \in i + 1 .. Len(js) + 1 : f[k] = g[k]
      BY <2>2
    <3>2. Scan(js, i, f) = Scan(js, i, g)
      <4> HIDE DEF g
      <4> QED  BY <3>1, ScanLooksAhead
    <3>3. g[i] = Scan(js, i, f)
      BY <2>1
    <3> QED
      <4> HIDE DEF g
      <4> QED  BY <3>2, <3>3
  <2>4. Rule(g, m + 1)
    BY <2>3
  <2>5. \E h : Rule(h, m + 1)
    <3> HIDE DEF Rule, g
    <3> QED  BY <2>4
  <2> QED  BY <2>5
<1>3. L \in S
  <2> HIDE DEF S
  <2> QED  BY <1>1, <1>2, CountsThroughNat
<1> DEFINE scan == CHOOSE f : f = [pos \in 1 .. Len(js) + 1 |-> Scan(js, pos, f)]
<1>4. scan = [pos \in 1 .. Len(js) + 1 |-> Scan(js, pos, scan)]
  <2>1. PICK f : Rule(f, L)
    BY <1>3
  <2>2. f = [pos \in 1 .. Len(js) + 1 |-> Scan(js, pos, f)]
    BY <2>1
  <2> QED
    BY <2>2
<1>5. jsmn_parse_string(js) = scan[1]
  BY Zenon DEF jsmn_parse_string
<1>6. \A i \in 1 .. Len(js) + 1 : scan[i] = Scan(js, i, scan)
  <2> HIDE DEF scan
  <2> QED  BY <1>4
<1> QED
  BY <1>5, <1>6

LEMMA PlacesExist ==
  ASSUME NEW b, NEW t, Len(t) \in Nat
  PROVE  \E f : /\ \A i \in 1 .. Len(t) + 1 : f[i] = Places(b, t, i, f)
                /\ StandsFor(b, t) <=> 1 \in f[1]
<1> DEFINE L == Len(t)
           Rule(f, m) == f = [i \in L + 1 - m .. L + 1 |-> Places(b, t, i, f)]
           S == {m \in Nat : m <= L => \E f : Rule(f, m)}
<1>1. 0 \in S
  <2> DEFINE P == Places(b, t, L + 1, << >>)
             f == [i \in L + 1 - 0 .. L + 1 |-> P]
  <2>1. \A i \in L + 1 - 0 .. L + 1 : Places(b, t, i, f) = P
    <3> SUFFICES ASSUME NEW i \in L + 1 - 0 .. L + 1
                 PROVE  Places(b, t, i, f) = P
      OBVIOUS
    <3>1. i = L + 1 /\ i \in 1 .. Len(t) + 1 /\ \A k \in i + 1 .. Len(t) + 1 : f[k] = << >>[k]
      OBVIOUS
    <3> HIDE DEF f
    <3> QED
      BY <3>1, PlacesLookAhead
  <2>2. Rule(f, 0)
    BY <2>1
  <2>3. \E h : Rule(h, 0)
    <3> HIDE DEF Rule, f
    <3> QED  BY <2>2
  <2> QED  BY <2>3
<1>2. ASSUME NEW m \in Nat, m \in S PROVE m + 1 \in S
  <2> SUFFICES ASSUME m + 1 <= L
               PROVE  \E f : Rule(f, m + 1)
    OBVIOUS
  <2>1. PICK f : Rule(f, m)
    BY <1>2
  <2> DEFINE g == [i \in L + 1 - (m + 1) .. L + 1 |->
                     IF i = L + 1 - (m + 1) THEN Places(b, t, i, f) ELSE f[i]]
  <2>2. \A i \in L + 1 - m .. L + 1 : g[i] = f[i]
    OBVIOUS
  <2>3. ASSUME NEW i \in L + 1 - (m + 1) .. L + 1
        PROVE  g[i] = Places(b, t, i, g)
    <3>1. i \in 1 .. Len(t) + 1 /\ \A k \in i + 1 .. Len(t) + 1 : f[k] = g[k]
      BY <2>2
    <3>2. Places(b, t, i, f) = Places(b, t, i, g)
      <4> HIDE DEF g
      <4> QED  BY <3>1, PlacesLookAhead
    <3>3. g[i] = Places(b, t, i, f)
      BY <2>1
    <3> QED
      <4> HIDE DEF g
      <4> QED  BY <3>2, <3>3
  <2>4. Rule(g, m + 1)
    BY <2>3
  <2>5. \E h : Rule(h, m + 1)
    <3> HIDE DEF Rule, g
    <3> QED  BY <2>4
  <2> QED  BY <2>5
<1>3. L \in S
  <2> HIDE DEF S
  <2> QED  BY <1>1, <1>2, CountsThroughNat
<1> DEFINE from == CHOOSE f : f = [i \in 1 .. Len(t) + 1 |-> Places(b, t, i, f)]
<1>4. from = [i \in 1 .. Len(t) + 1 |-> Places(b, t, i, from)]
  <2>1. PICK f : Rule(f, L)
    BY <1>3
  <2>2. f = [i \in 1 .. Len(t) + 1 |-> Places(b, t, i, f)]
    BY <2>1
  <2> QED
    BY <2>2
<1>5. StandsFor(b, t) <=> 1 \in from[1]
  BY Zenon DEF StandsFor
<1>6. \A i \in 1 .. Len(t) + 1 : from[i] = Places(b, t, i, from)
  <2> HIDE DEF from
  <2> QED  BY <1>4
<1> QED
  BY <1>5, <1>6

\* The rest of a uri, too, is made of the rests from later characters on.
LEMMA RestsLookAhead ==
  ASSUME NEW t, Len(t) \in Nat, NEW i \in 1 .. Len(t) + 1, NEW f, NEW g,
         \A k \in i + 1 .. Len(t) + 1 : f[k] = g[k]
  PROVE  UriRest(t, i, f) = UriRest(t, i, g)
<1>1. i <= Len(t) => f[i + 1] = g[i + 1]
  OBVIOUS
<1>2. i <= Len(t) /\ IsByte(t, i) => f[i + 3] = g[i + 3]
  BY DEF IsByte
<1>3. i > Len(t) <=> ~(i <= Len(t))
  OBVIOUS
<1> QED
  BY <1>1, <1>2, <1>3, Zenon DEF UriRest

LEMMA RestsExist ==
  ASSUME NEW t, Len(t) \in Nat
  PROVE  \E f : /\ \A i \in 1 .. Len(t) + 1 : f[i] = UriRest(t, i, f)
                /\ UriBytes(t) = f[1]
<1> DEFINE L == Len(t)
           Rule(f, m) == f = [i \in L + 1 - m .. L + 1 |-> UriRest(t, i, f)]
           S == {m \in Nat : m <= L => \E f : Rule(f, m)}
<1>1. 0 \in S
  <2> DEFINE P == UriRest(t, L + 1, << >>)
             f == [i \in L + 1 - 0 .. L + 1 |-> P]
  <2>1. \A i \in L + 1 - 0 .. L + 1 : UriRest(t, i, f) = P
    <3> SUFFICES ASSUME NEW i \in L + 1 - 0 .. L + 1
                 PROVE  UriRest(t, i, f) = P
      OBVIOUS
    <3>1. i = L + 1 /\ i \in 1 .. Len(t) + 1 /\ \A k \in i + 1 .. Len(t) + 1 : f[k] = << >>[k]
      OBVIOUS
    <3> HIDE DEF f
    <3> QED
      BY <3>1, RestsLookAhead
  <2>2. Rule(f, 0)
    BY <2>1
  <2>3. \E h : Rule(h, 0)
    <3> HIDE DEF Rule, f
    <3> QED  BY <2>2
  <2> QED  BY <2>3
<1>2. ASSUME NEW m \in Nat, m \in S PROVE m + 1 \in S
  <2> SUFFICES ASSUME m + 1 <= L
               PROVE  \E f : Rule(f, m + 1)
    OBVIOUS
  <2>1. PICK f : Rule(f, m)
    BY <1>2
  <2> DEFINE g == [i \in L + 1 - (m + 1) .. L + 1 |->
                     IF i = L + 1 - (m + 1) THEN UriRest(t, i, f) ELSE f[i]]
  <2>2. \A i \in L + 1 - m .. L + 1 : g[i] = f[i]
    OBVIOUS
  <2>3. ASSUME NEW i \in L + 1 - (m + 1) .. L + 1
        PROVE  g[i] = UriRest(t, i, g)
    <3>1. i \in 1 .. Len(t) + 1 /\ \A k \in i + 1 .. Len(t) + 1 : f[k] = g[k]
      BY <2>2
    <3>2. UriRest(t, i, f) = UriRest(t, i, g)
      <4> HIDE DEF g
      <4> QED  BY <3>1, RestsLookAhead
    <3>3. g[i] = UriRest(t, i, f)
      BY <2>1
    <3> QED
      <4> HIDE DEF g
      <4> QED  BY <3>2, <3>3
  <2>4. Rule(g, m + 1)
    BY <2>3
  <2>5. \E h : Rule(h, m + 1)
    <3> HIDE DEF Rule, g
    <3> QED  BY <2>4
  <2> QED  BY <2>5
<1>3. L \in S
  <2> HIDE DEF S
  <2> QED  BY <1>1, <1>2, CountsThroughNat
<1> DEFINE rest == CHOOSE f : f = [i \in 1 .. Len(t) + 1 |-> UriRest(t, i, f)]
<1>4. rest = [i \in 1 .. Len(t) + 1 |-> UriRest(t, i, rest)]
  <2>1. PICK f : Rule(f, L)
    BY <1>3
  <2>2. f = [i \in 1 .. Len(t) + 1 |-> UriRest(t, i, f)]
    BY <2>1
  <2> QED
    BY <2>2
<1>5. UriBytes(t) = rest[1]
  BY Zenon DEF UriBytes
<1>6. \A i \in 1 .. Len(t) + 1 : rest[i] = UriRest(t, i, rest)
  <2> HIDE DEF rest
  <2> QED  BY <1>4
<1> QED
  BY <1>5, <1>6

--------------------------------------------------------------------------------
(* What jsmn_parse_string has accepted.                                    *)
ScanOf(js) ==
  CHOOSE f : /\ \A i \in 1 .. Len(js) + 1 : f[i] = Scan(js, i, f)
             /\ jsmn_parse_string(js) = f[1]

\* It is what its definition says of it.
LEMMA ScanIs ==
  ASSUME NEW js, Len(js) \in Nat
  PROVE  /\ \A i \in 1 .. Len(js) + 1 : ScanOf(js)[i] = Scan(js, i, ScanOf(js))
         /\ jsmn_parse_string(js) = ScanOf(js)[1]
<1>1. \E f : /\ \A i \in 1 .. Len(js) + 1 : f[i] = Scan(js, i, f)
             /\ jsmn_parse_string(js) = f[1]
  BY ScanExists
<1> QED
  BY <1>1, Zenon DEF ScanOf

\* No character of a text is its end.
LEMMA TextIs ==
  ASSUME NEW js \in Texts
  PROVE  /\ js \in Seq(Int) /\ Len(js) \in Nat /\ DOMAIN js = 1 .. Len(js)
         /\ \A k \in 1 .. Len(js) : js[k] \in 1 .. 255
<1>1. js \in Seq(1 .. 255)
  BY DEF Texts
<1>2. /\ Len(js) \in Nat /\ DOMAIN js = 1 .. Len(js)
      /\ js \in [1 .. Len(js) -> 1 .. 255]
  BY <1>1, LenProperties
<1>3. \A k \in 1 .. Len(js) : js[k] \in 1 .. 255
  BY <1>2
<1>4. 1 .. 255 \subseteq Int
  OBVIOUS
<1>5. js \in Seq(Int)
  BY <1>1, <1>4, SeqMonotonic
<1> QED
  BY <1>2, <1>3, <1>5

LEMMA CharacterAt ==
  ASSUME NEW js \in Texts, NEW k \in 1 .. Len(js)
  PROVE  At(js, k) = js[k] /\ At(js, k) # NUL
<1>1. js[k] \in 1 .. 255 /\ k <= Len(js)
  BY TextIs
<1>2. At(js, k) = js[k]
  BY <1>1 DEF At
<1>3. \A ch \in 1 .. 255 : ch # NUL
  BY DEF NUL
<1> QED
  BY <1>1, <1>2, <1>3, Zenon

\* What the scan finds at a piece of the string, and where it goes on.
LEMMA PieceScanned ==
  ASSUME NEW js \in Texts, NEW i \in 1 .. Len(js) + 1, ScanOf(js)[i] # 0
  PROVE  /\ i <= Len(js)
         /\ \/ js[i] = Quote /\ ScanOf(js)[i] = i
            \/ /\ js[i] # Quote /\ js[i] # Backslash
               /\ ScanOf(js)[i] = ScanOf(js)[i + 1]
            \/ /\ js[i] = Backslash /\ i < Len(js) /\ js[i + 1] \in Simple
               /\ ScanOf(js)[i] = ScanOf(js)[i + 2]
            \/ /\ js[i] = Backslash /\ i + 5 <= Len(js) /\ js[i + 1] = 117
               /\ \A k \in 2 .. 5 : js[i + k] \in Hex
               /\ ScanOf(js)[i] = ScanOf(js)[i + 6]
<1> DEFINE f == ScanOf(js)
<1>0. Len(js) \in Nat /\ \A k \in 1 .. Len(js) : js[k] \in 1 .. 255
  BY TextIs
<1>1. \A k \in 1 .. Len(js) + 1 : f[k] = Scan(js, k, f)
  BY <1>0, ScanIs
<1> HIDE DEF f
<1>2. f[i] # 0 /\ f[i] = Scan(js, i, f)
  BY <1>1 DEF f
<1>3. f[Len(js) + 1] = 0
  <2>1. At(js, Len(js) + 1) = NUL
    BY <1>0 DEF At
  <2>2. f[Len(js) + 1] = Scan(js, Len(js) + 1, f)
    BY <1>0, <1>1
  <2> QED
    BY <2>1, <2>2, MarksDiffer, Zenon DEF Scan
<1>4. i <= Len(js)
  BY <1>0, <1>2, <1>3
<1>5. At(js, i) = js[i] /\ At(js, i) # NUL
  BY <1>0, <1>4, CharacterAt
<1>6. CASE js[i] = Quote
  <2>1. f[i] = i
    BY <1>2, <1>5, <1>6, MarksDiffer, Zenon DEF Scan
  <2> QED
    BY <1>4, <1>6, <2>1 DEF f
<1>7. CASE js[i] # Quote /\ ~(js[i] = Backslash /\ i < Len(js))
  <2>1. f[i] = f[i + 1]
    BY <1>2, <1>5, <1>7, MarksDiffer, Zenon DEF Scan
  <2>2. js[i] # Backslash
    BY <1>0, <1>2, <1>3, <1>4, <1>7, <2>1
  <2> QED
    BY <1>4, <1>7, <2>1, <2>2 DEF f
<1>8. CASE js[i] = Backslash /\ i < Len(js)
  <2> DEFINE n == CHOOSE next \in BehindDigits(js, i + 2) : TRUE
  <2>1. At(js, i + 1) = js[i + 1]
    BY <1>0, <1>8 DEF At
  <2>2. f[i] = CASE At(js, i + 1) \in Simple -> f[i + 2]
                 [] At(js, i + 1) = 117 /\ BehindDigits(js, i + 2) # {} -> f[n]
                 [] OTHER -> 0
    BY <1>2, <1>5, <1>8, MarksDiffer, Zenon DEF Scan
  <2>3. 117 \notin Simple
    BY DEF Simple, Quote, Slash, Backslash
  <2> HIDE DEF n
  <2>4. CASE js[i + 1] \in Simple
    <3>1. f[i] = f[i + 2]
      BY <2>1, <2>2, <2>3, <2>4, Zenon
    <3> QED
      BY <1>4, <1>8, <2>4, <3>1 DEF f
  <2>5. CASE js[i + 1] \notin Simple /\ js[i + 1] = 117 /\ BehindDigits(js, i + 2) # {}
    <3>1. f[i] = f[n]
      BY <2>1, <2>2, <2>5, Zenon
    <3>2. n \in BehindDigits(js, i + 2)
      BY <2>5 DEF n
    <3>3. i + 2 \in 1 .. Len(js) + 1
      BY <1>0, <1>8
    <3>4. n \in i + 2 .. Len(js) + 1
      BY <1>0, <3>2, <3>3, DigitsAreAhead
    <3>5. n # Len(js) + 1
      BY <1>2, <1>3, <3>1
    <3>6. At(js, n) # NUL
      BY <1>0, <3>4, <3>5, CharacterAt
    <3>7. PICK m \in 0 .. 4 : /\ n = i + 2 + m
                              /\ \A k \in 0 .. m - 1 : At(js, i + 2 + k) \in Hex
                              /\ m = 4 \/ At(js, i + 2 + m) = NUL
      BY <3>2 DEF BehindDigits
    <3>8. m = 4 /\ n = i + 6
      BY <3>6, <3>7
    <3>9. i + 5 <= Len(js)
      BY <1>0, <3>4, <3>5, <3>8
    <3>10. ASSUME NEW k \in 2 .. 5
           PROVE  js[i + k] \in Hex
      <4>1. k - 2 \in 0 .. m - 1 /\ i + 2 + (k - 2) = i + k /\ i + k <= Len(js)
        BY <1>0, <3>8, <3>9
      <4>2. At(js, i + k) \in Hex
        BY <3>7, <4>1
      <4> QED
        BY <4>1, <4>2 DEF At
    <3> QED
      BY <1>4, <1>8, <2>5, <3>1, <3>8, <3>9, <3>10 DEF f
  <2>6. CASE js[i + 1] \notin Simple /\ ~(js[i + 1] = 117 /\ BehindDigits(js, i + 2) # {})
    <3>1. f[i] = 0
      BY <2>1, <2>2, <2>6, Zenon
    <3> QED
      BY <1>2, <3>1
  <2> QED
    BY <2>4, <2>5, <2>6
<1> QED
  BY <1>6, <1>7, <1>8

\* What is found is a quote, at or behind where the scan is.
LEMMA ScanEnds ==
  ASSUME NEW js \in Texts, NEW i \in 1 .. Len(js) + 1, ScanOf(js)[i] # 0
  PROVE  ScanOf(js)[i] \in i .. Len(js) /\ js[ScanOf(js)[i]] = Quote
<1> DEFINE L == Len(js)
           f == ScanOf(js)
           Good(k) == f[k] # 0 => f[k] \in k .. L /\ js[f[k]] = Quote
           S == {m \in Nat : \A k \in 1 .. L + 1 : k >= L + 1 - m => Good(k)}
<1>0. L \in Nat
  BY TextIs
<1> HIDE DEF f, L
<1>1. ASSUME NEW k \in 1 .. L + 1,
             \A h \in 1 .. L + 1 : h >= k + 1 => Good(h)
      PROVE  Good(k)
  <2> SUFFICES ASSUME f[k] # 0
               PROVE  f[k] \in k .. L /\ js[f[k]] = Quote
    OBVIOUS
  <2> DEFINE W(n) == k + n <= L + 1 /\ f[k] = f[k + n]
  <2>1. k <= L /\ ((js[k] = Quote /\ f[k] = k) \/ \E n \in 1 .. 6 : W(n))
    <3>1. /\ k <= L
          /\ \/ js[k] = Quote /\ f[k] = k
             \/ f[k] = f[k + 1]
             \/ k < L /\ f[k] = f[k + 2]
             \/ k + 5 <= L /\ f[k] = f[k + 6]
      <4>1. k \in 1 .. Len(js) + 1 /\ ScanOf(js)[k] # 0
        BY DEF f, L
      <4>2. /\ k <= Len(js)
            /\ \/ js[k] = Quote /\ ScanOf(js)[k] = k
               \/ ScanOf(js)[k] = ScanOf(js)[k + 1]
               \/ k < Len(js) /\ ScanOf(js)[k] = ScanOf(js)[k + 2]
               \/ k + 5 <= Len(js) /\ ScanOf(js)[k] = ScanOf(js)[k + 6]
        BY <4>1, PieceScanned
      <4> QED
        BY <4>2 DEF f, L
    <3>2. W(1) \/ W(2) \/ W(6) \/ (js[k] = Quote /\ f[k] = k)
      BY <1>0, <3>1
    <3> QED
      BY <3>1, <3>2
  <2>2. CASE js[k] = Quote /\ f[k] = k
    BY <1>0, <2>1, <2>2
  <2>3. ASSUME NEW n \in 1 .. 6, W(n)
        PROVE  f[k] \in k .. L /\ js[f[k]] = Quote
    <3>1. k + n \in 1 .. L + 1 /\ k + n >= k + 1
      BY <1>0, <2>3
    <3>2. Good(k + n)
      BY <1>1, <3>1
    <3> QED
      BY <1>0, <2>3, <3>1, <3>2
  <2> QED
    BY <2>1, <2>2, <2>3
<1> HIDE DEF Good
<1>2. 0 \in S
  <2> SUFFICES ASSUME NEW k \in 1 .. L + 1, k >= L + 1 - 0
               PROVE  Good(k)
    OBVIOUS
  <2>1. \A h \in 1 .. L + 1 : h >= k + 1 => Good(h)
    BY <1>0
  <2> QED
    BY <1>1, <2>1
<1>3. ASSUME NEW m \in Nat, m \in S
      PROVE  m + 1 \in S
  <2> SUFFICES ASSUME NEW k \in 1 .. L + 1, k >= L + 1 - (m + 1)
               PROVE  Good(k)
    OBVIOUS
  <2>1. \A h \in 1 .. L + 1 : h >= k + 1 => Good(h)
    BY <1>0, <1>3
  <2> QED
    BY <1>1, <2>1
<1>4. L \in S
  <2> HIDE DEF S
  <2> QED  BY <1>0, <1>2, <1>3, CountsThroughNat
<1>5. i \in 1 .. L + 1 /\ i >= L + 1 - L
  BY <1>0 DEF L
<1>6. Good(i)
  BY <1>4, <1>5
<1> QED
  BY <1>6 DEF Good, f, L

(* Where the pieces of the string begin: single characters and escapes.    *)
Begins(js) == {i \in 1 .. jsmn_parse_string(js) : ScanOf(js)[i] = jsmn_parse_string(js)}

\* What begins at a piece, and where the next one does.
PieceAt(t, i, begins) ==
  \/ i = Len(t) + 1
  \/ i <= Len(t) /\ t[i] # Backslash /\ i + 1 \in begins
  \/ /\ i + 1 <= Len(t) /\ t[i] = Backslash /\ t[i + 1] \in Simple
     /\ i + 2 \in begins
  \/ /\ i + 5 <= Len(t) /\ t[i] = Backslash /\ t[i + 1] = 117
     /\ \A k \in 2 .. 5 : t[i + k] \in Hex
     /\ i + 6 \in begins

Pieces(t, begins) ==
  /\ begins \subseteq 1 .. Len(t) + 1 /\ 1 \in begins
  /\ \A i \in begins : PieceAt(t, i, begins)

\* A prefix of a text is one.
LEMMA PrefixIs ==
  ASSUME NEW js \in Texts, NEW n \in 0 .. Len(js)
  PROVE  /\ SubSeq(js, 1, n) \in Texts /\ Len(SubSeq(js, 1, n)) = n
         /\ \A k \in 1 .. n : SubSeq(js, 1, n)[k] = js[k]
<1>1. \A k \in 1 .. n : js[k] \in 1 .. 255
  BY TextIs
<1>2. Len(js) \in Nat
  BY TextIs
<1>3. n \in Int /\ 1 \in Int
  BY <1>2
<1>4. /\ SubSeq(js, 1, n) \in Seq(1 .. 255)
      /\ Len(SubSeq(js, 1, n)) = IF 1 <= n THEN n - 1 + 1 ELSE 0
      /\ \A k \in 1 .. n - 1 + 1 : SubSeq(js, 1, n)[k] = js[1 + k - 1]
  BY <1>1, <1>3, SubSeqProperties
<1>5. Len(SubSeq(js, 1, n)) = n
  BY <1>2, <1>4
<1>6. \A k \in 1 .. n : SubSeq(js, 1, n)[k] = js[k]
  <2> SUFFICES ASSUME NEW k \in 1 .. n
               PROVE  SubSeq(js, 1, n)[k] = js[k]
    OBVIOUS
  <2>1. k \in 1 .. n - 1 + 1 /\ 1 + k - 1 = k
    BY <1>2
  <2> QED
    BY <1>4, <2>1
<1> QED
  BY <1>4, <1>5, <1>6 DEF Texts

\* A string that is accepted is made of pieces.
LEMMA AcceptedIs ==
  ASSUME NEW js \in Texts, jsmn_parse_string(js) # 0
  PROVE  LET end == jsmn_parse_string(js)
             t == SubSeq(js, 1, end - 1)
         IN  /\ end \in 1 .. Len(js) /\ t \in Texts /\ Len(t) = end - 1
             /\ Pieces(t, Begins(js))
<1> DEFINE end == jsmn_parse_string(js)
           t == SubSeq(js, 1, end - 1)
           f == ScanOf(js)
           B == Begins(js)
<1>0. Len(js) \in Nat
  BY TextIs
<1>1. f[1] = end /\ f[1] # 0 /\ 1 \in 1 .. Len(js) + 1
  BY <1>0, ScanIs
<1>2. end \in 1 .. Len(js)
  BY <1>1, ScanEnds
<1> HIDE DEF end, f
<1>3. end - 1 \in 0 .. Len(js)
  BY <1>0, <1>2
<1>4. t \in Texts /\ Len(t) = end - 1 /\ \A k \in 1 .. end - 1 : t[k] = js[k]
  BY <1>3, PrefixIs
<1> HIDE DEF t
<1>5. B = {i \in 1 .. end : f[i] = end}
  BY DEF Begins, end, f
<1> HIDE DEF B
<1>6. B \subseteq 1 .. Len(t) + 1 /\ 1 \in B
  BY <1>0, <1>1, <1>2, <1>4, <1>5
<1>7. ASSUME NEW i \in B
      PROVE  PieceAt(t, i, B)
  <2>1. i \in 1 .. end /\ f[i] = end /\ f[i] # 0 /\ i \in 1 .. Len(js) + 1
    BY <1>0, <1>2, <1>5
  <2>2. \A n \in 1 .. 6 : i + n <= Len(js) + 1 /\ f[i + n] = end => i + n \in B
    <3> SUFFICES ASSUME NEW n \in 1 .. 6, i + n <= Len(js) + 1, f[i + n] = end
                 PROVE  i + n \in B
      OBVIOUS
    <3>1. i + n \in 1 .. Len(js) + 1 /\ f[i + n] # 0
      BY <1>0, <2>1
    <3>2. f[i + n] \in i + n .. Len(js)
      BY <3>1, ScanEnds DEF f
    <3> QED
      BY <1>0, <1>2, <1>5, <2>1, <3>2
  <2>3. /\ i <= Len(js)
        /\ \/ js[i] = Quote /\ f[i] = i
           \/ /\ js[i] # Quote /\ js[i] # Backslash
              /\ f[i] = f[i + 1]
           \/ /\ js[i] = Backslash /\ i < Len(js) /\ js[i + 1] \in Simple
              /\ f[i] = f[i + 2]
           \/ /\ js[i] = Backslash /\ i + 5 <= Len(js) /\ js[i + 1] = 117
              /\ \A k \in 2 .. 5 : js[i + k] \in Hex
              /\ f[i] = f[i + 6]
    BY <2>1, PieceScanned DEF f
  <2>4. CASE f[i] = i
    <3>1. i = Len(t) + 1
      BY <1>0, <1>2, <1>4, <2>1, <2>4
    <3> QED
      BY <3>1 DEF PieceAt
  <2>5. CASE js[i] # Backslash /\ f[i] = f[i + 1]
    <3>1. i + 1 \in B
      BY <1>0, <2>1, <2>2, <2>3, <2>5
    <3>2. i <= Len(t) /\ i \in 1 .. end - 1
      BY <1>0, <1>4, <1>6, <2>1, <3>1
    <3>3. t[i] # Backslash
      BY <1>4, <2>5, <3>2
    <3> QED
      BY <3>1, <3>2, <3>3 DEF PieceAt
  <2>6. CASE js[i] = Backslash /\ i < Len(js) /\ js[i + 1] \in Simple /\ f[i] = f[i + 2]
    <3>1. i + 2 \in B
      BY <1>0, <2>1, <2>2, <2>6
    <3>2. i + 1 <= Len(t) /\ i \in 1 .. end - 1 /\ i + 1 \in 1 .. end - 1
      BY <1>0, <1>2, <1>4, <1>6, <2>1, <3>1
    <3>3. t[i] = Backslash /\ t[i + 1] \in Simple
      BY <1>4, <2>6, <3>2
    <3> QED
      BY <3>1, <3>2, <3>3 DEF PieceAt
  <2>7. CASE /\ js[i] = Backslash /\ i + 5 <= Len(js) /\ js[i + 1] = 117
             /\ \A k \in 2 .. 5 : js[i + k] \in Hex
             /\ f[i] = f[i + 6]
    <3>1. i + 6 \in B
      BY <1>0, <2>1, <2>2, <2>7
    <3>2. i + 5 <= Len(t) /\ \A k \in 0 .. 5 : i + k \in 1 .. end - 1
      BY <1>0, <1>2, <1>4, <1>6, <2>1, <3>1
    <3>3. \A k \in 0 .. 5 : t[i + k] = js[i + k]
      BY <1>4, <3>2
    <3>4. t[i + 0] = js[i + 0] /\ i + 0 = i /\ t[i + 1] = js[i + 1]
      BY <2>1, <3>3
    <3>5. \A k \in 2 .. 5 : t[i + k] \in Hex
      BY <2>7, <3>3
    <3> QED
      BY <2>7, <3>1, <3>2, <3>4, <3>5 DEF PieceAt
  <2> QED
    BY <2>3, <2>4, <2>5, <2>6, <2>7
<1>8. Pieces(t, B)
  BY <1>6, <1>7 DEF Pieces
<1> QED
  BY <1>2, <1>4, <1>8 DEF end, t, B

\* From the begin of a piece, characters that are no backslash are one each.
LEMMA RunBegins ==
  ASSUME NEW t \in Texts, NEW B, Pieces(t, B), NEW l \in B, NEW r \in l .. Len(t) + 1,
         \A k \in l .. r - 1 : t[k] # Backslash
  PROVE  r \in B
<1> DEFINE S == {m \in Nat : l + m <= r => l + m \in B}
<1>0. Len(t) \in Nat /\ l \in 1 .. Len(t) + 1
  BY TextIs DEF Pieces
<1>1. 0 \in S
  BY <1>0
<1>2. ASSUME NEW m \in Nat, m \in S
      PROVE  m + 1 \in S
  <2> SUFFICES ASSUME l + (m + 1) <= r
               PROVE  l + (m + 1) \in B
    OBVIOUS
  <2>1. l + m \in B /\ l + m \in l .. r - 1 /\ l + m <= Len(t) /\ l + m + 1 = l + (m + 1)
    BY <1>0, <1>2
  <2>2. t[l + m] # Backslash /\ PieceAt(t, l + m, B)
    BY <2>1 DEF Pieces
  <2>3. l + m + 1 \in B
    BY <1>0, <2>1, <2>2 DEF PieceAt
  <2> QED
    BY <2>1, <2>3
<1>3. r - l \in S
  <2>1. r - l \in Nat
    BY <1>0
  <2> HIDE DEF S
  <2> QED  BY <1>1, <1>2, <2>1, CountsThroughNat
<1>4. l + (r - l) = r
  BY <1>0
<1> QED
  BY <1>3, <1>4

--------------------------------------------------------------------------------
(* What escapes are decoded to.                                            *)

\* The bytes are the code in UTF-8.
LEMMA EncodeIs ==
  ASSUME NEW c \in Nat
  PROVE  \/ c < 128 /\ Encode(c) = <<c>>
         \/ /\ 128 <= c /\ c < 2048
            /\ \E x \in Int, y \in Trailing :
                 c = 64 * (x - 192) + (y - 128) /\ Encode(c) = <<x, y>>
         \/ /\ 2048 <= c
            /\ \E x \in Int, y \in Trailing, z \in Trailing :
                 /\ c = 4096 * (x - 224) + 64 * (y - 128) + (z - 128)
                 /\ Encode(c) = <<x, y, z>>
<1>1. CASE c < 128
  <2>1. Encode(c) = <<c>>
    <3>1. c <= 127
      BY <1>1
    <3> QED
      BY <3>1, SMT DEF Encode
  <2> QED
    BY <1>1, <2>1
<1>2. CASE 128 <= c /\ c < 2048
  <2> DEFINE x == 192 + c \div 64
             y == 128 + (c % 64)
  <2>1. Encode(c) = <<x, y>>
    <3>1. ~(c <= 127) /\ c <= 2047
      BY <1>2
    <3> QED
      BY <3>1, SMT DEF Encode
  <2>2. c \div 64 \in Int /\ c % 64 \in 0 .. 63 /\ 64 * (c \div 64) + (c % 64) = c
    BY <1>2
  <2>3. x \in Int /\ y \in Trailing /\ c = 64 * (x - 192) + (y - 128)
    BY <2>2 DEF Trailing
  <2> HIDE DEF x, y
  <2> QED
    BY <1>2, <2>1, <2>3
<1>3. CASE 2048 <= c
  <2> DEFINE x == 224 + c \div 4096
             y == 128 + ((c \div 64) % 64)
             z == 128 + (c % 64)
  <2>1. Encode(c) = <<x, y, z>>
    <3>1. ~(c <= 127) /\ ~(c <= 2047)
      BY <1>3
    <3> QED
      BY <3>1, SMT DEF Encode
  <2>2. /\ c \div 64 \in Int /\ c % 64 \in 0 .. 63
        /\ 64 * (c \div 64) + (c % 64) = c
    BY <1>3
  <2>3. /\ c \div 4096 \in Int /\ (c \div 64) % 64 \in 0 .. 63
        /\ 64 * (c \div 4096) + ((c \div 64) % 64) = c \div 64
    BY <1>3
  <2>4. /\ x \in Int /\ y \in Trailing /\ z \in Trailing
        /\ c = 4096 * (x - 224) + 64 * (y - 128) + (z - 128)
    BY <2>2, <2>3 DEF Trailing
  <2> HIDE DEF x, y, z
  <2> QED
    BY <1>3, <2>1, <2>4
<1> QED
  BY <1>1, <1>2, <1>3

\* There are one to three, and whoever has them has the code.
Encodes(c, e) ==
  /\ e \in Seq(Int) /\ Len(e) \in 1 .. 3
  /\ \A b : \A j \in Int :
       (\A k \in 1 .. Len(e) : b[j + k - 1] = e[k]) => Utf8At(b, j, Len(e), c)

LEMMA EncodedIs ==
  ASSUME NEW c \in Nat
  PROVE  /\ Encode(c) \in Seq(Int) /\ Len(Encode(c)) \in 1 .. 3
         /\ \A b : \A j \in Int :
              (\A k \in 1 .. Len(Encode(c)) : b[j + k - 1] = Encode(c)[k])
                => Utf8At(b, j, Len(Encode(c)), c)
<1>0. \A j \in Int : j + 1 - 1 = j /\ j + 2 - 1 = j + 1 /\ j + 3 - 1 = j + 2
  OBVIOUS
<1>1. ASSUME c < 128 /\ Encode(c) = <<c>>
      PROVE  Encodes(c, Encode(c))
  <2>1. <<c>> \in Seq(Int) /\ Len(<<c>>) = 1 /\ <<c>>[1] = c
    OBVIOUS
  <2>2. ASSUME NEW b, NEW j \in Int, \A k \in 1 .. Len(<<c>>) : b[j + k - 1] = <<c>>[k]
        PROVE  Utf8At(b, j, Len(<<c>>), c)
    <3>1. b[j] = c
      BY <1>0, <2>1, <2>2
    <3> QED
      BY <1>1, <2>1, <3>1 DEF Utf8At
  <2>3. Encodes(c, <<c>>)
    BY <2>1, <2>2 DEF Encodes
  <2>4. Encode(c) = <<c>>
    BY <1>1
  <2> QED
    BY <2>3, <2>4, Zenon
<1>2. ASSUME 128 <= c, c < 2048, NEW x \in Int, NEW y \in Trailing,
             c = 64 * (x - 192) + (y - 128), Encode(c) = <<x, y>>
      PROVE  Encodes(c, Encode(c))
  <2>0. y \in Int
    BY DEF Trailing
  <2>1. <<x, y>> \in Seq(Int) /\ Len(<<x, y>>) = 2 /\ <<x, y>>[1] = x /\ <<x, y>>[2] = y
    BY <2>0
  <2>2. ASSUME NEW b, NEW j \in Int, \A k \in 1 .. Len(<<x, y>>) : b[j + k - 1] = <<x, y>>[k]
        PROVE  Utf8At(b, j, Len(<<x, y>>), c)
    <3>1. b[j] = x /\ b[j + 1] = y
      BY <1>0, <2>1, <2>2
    <3> QED
      BY <1>2, <2>1, <3>1 DEF Utf8At
  <2>3. Encodes(c, <<x, y>>)
    BY <2>1, <2>2 DEF Encodes
  <2>4. Encode(c) = <<x, y>>
    BY <1>2
  <2> QED
    BY <2>3, <2>4, Zenon
<1>3. ASSUME 2048 <= c, NEW x \in Int, NEW y \in Trailing, NEW z \in Trailing,
             c = 4096 * (x - 224) + 64 * (y - 128) + (z - 128), Encode(c) = <<x, y, z>>
      PROVE  Encodes(c, Encode(c))
  <2>0. y \in Int /\ z \in Int
    BY DEF Trailing
  <2>1. /\ <<x, y, z>> \in Seq(Int) /\ Len(<<x, y, z>>) = 3
        /\ <<x, y, z>>[1] = x /\ <<x, y, z>>[2] = y /\ <<x, y, z>>[3] = z
    BY <2>0
  <2>2. ASSUME NEW b, NEW j \in Int,
               \A k \in 1 .. Len(<<x, y, z>>) : b[j + k - 1] = <<x, y, z>>[k]
        PROVE  Utf8At(b, j, Len(<<x, y, z>>), c)
    <3>1. b[j] = x /\ b[j + 1] = y /\ b[j + 2] = z
      BY <1>0, <2>1, <2>2
    <3> QED
      BY <1>3, <2>1, <3>1 DEF Utf8At
  <2>3. Encodes(c, <<x, y, z>>)
    BY <2>1, <2>2 DEF Encodes
  <2>4. Encode(c) = <<x, y, z>>
    BY <1>3
  <2> QED
    BY <2>3, <2>4, Zenon
<1> DEFINE Fine == Encodes(c, Encode(c))
<1>4. c < 128 /\ Encode(c) = <<c>> => Fine
  BY <1>1
<1>5. ASSUME 128 <= c /\ c < 2048,
             \E x \in Int, y \in Trailing :
               c = 64 * (x - 192) + (y - 128) /\ Encode(c) = <<x, y>>
      PROVE  Fine
  <2>1. PICK x \in Int, y \in Trailing :
               c = 64 * (x - 192) + (y - 128) /\ Encode(c) = <<x, y>>
    BY <1>5
  <2> QED
    BY <1>2, <1>5, <2>1
<1>6. ASSUME 2048 <= c,
             \E x \in Int, y \in Trailing, z \in Trailing :
               /\ c = 4096 * (x - 224) + 64 * (y - 128) + (z - 128)
               /\ Encode(c) = <<x, y, z>>
      PROVE  Fine
  <2>1. PICK x \in Int, y \in Trailing, z \in Trailing :
               /\ c = 4096 * (x - 224) + 64 * (y - 128) + (z - 128)
               /\ Encode(c) = <<x, y, z>>
    BY <1>6
  <2> QED
    BY <1>3, <1>6, <2>1
<1>7. Fine
  <2> HIDE DEF Fine
  <2> QED
    BY <1>4, <1>5, <1>6, EncodeIs
<1> QED
  BY <1>7 DEF Encodes

\* The bytes for the escape at i, which begins with its backslash.
EscapeBytes(t, i) ==
  IF t[i + 1] = 117 THEN Encode(CodeAt(t, i + 2)) ELSE <<Meaning(t[i + 1])>>

\* The digits of an escape, in the decoder and in the text, are one code.
LEMMA CodeIs ==
  ASSUME NEW t, NEW i \in Int, \A k \in 0 .. 3 : t[i + k] \in Hex
  PROVE  /\ CodeAt(t, i) \in Nat
         /\ CodeAt(t, i) = 4096 * cgltf_unhex(t[i]) + 256 * cgltf_unhex(t[i + 1])
                             + 16 * cgltf_unhex(t[i + 2]) + cgltf_unhex(t[i + 3])
<1> DEFINE h(k) == cgltf_unhex(t[i + k])
<1>1. ASSUME NEW k \in 0 .. 3
      PROVE  h(k) \in 0 .. 15
  BY HexIs
<1>2. i + 0 = i
  OBVIOUS
<1>3. h(0) \in 0 .. 15 /\ h(1) \in 0 .. 15 /\ h(2) \in 0 .. 15 /\ h(3) \in 0 .. 15
  <2> HIDE DEF h
  <2> QED  BY <1>1
<1>4. CodeAt(t, i) = ((h(0) * 16 + h(1)) * 16 + h(2)) * 16 + h(3)
  BY <1>2 DEF CodeAt, Hexed
<1> HIDE DEF h
<1> DEFINE a == h(0)
           b == h(1)
           c == h(2)
           d == h(3)
<1>5. a \in 0 .. 15 /\ b \in 0 .. 15 /\ c \in 0 .. 15 /\ d \in 0 .. 15
  BY <1>3
<1>6. CodeAt(t, i) = ((a * 16 + b) * 16 + c) * 16 + d
  BY <1>4
<1> HIDE DEF a, b, c, d
<1>7. /\ CodeAt(t, i) \in Nat
      /\ CodeAt(t, i) = 4096 * a + 256 * b + 16 * c + d
  BY <1>5, <1>6
<1> QED
  BY <1>2, <1>7 DEF a, b, c, d, h

\* So are the characters that are escaped by one.
LEMMA MeaningIs ==
  ASSUME NEW ch \in Simple
  PROVE  Meaning(ch) \in Int /\ ch # 117 /\ EscapeLength(ch) = 2
<1>1. ch \in 34 .. 116
  BY DEF Simple, Quote, Slash, Backslash
<1> QED
  BY <1>1 DEF Meaning, EscapeLength

\* An escape is longer than its bytes, and behind it there is the next piece.
LEMMA EscapeIs ==
  ASSUME NEW t \in Texts, NEW B, Pieces(t, B), NEW i \in B, i <= Len(t), t[i] = Backslash
  PROVE  /\ i + 1 <= Len(t)
         /\ EscapeBytes(t, i) \in Seq(Int)
         /\ Len(EscapeBytes(t, i)) \in 1 .. EscapeLength(t[i + 1]) - 1
         /\ EscapeLength(t[i + 1]) \in {2, 6}
         /\ i + EscapeLength(t[i + 1]) \in B
<1>0. Len(t) \in Nat /\ i \in 1 .. Len(t) + 1
  BY TextIs DEF Pieces
<1>1. PieceAt(t, i, B)
  BY DEF Pieces
<1>2. CASE i + 1 <= Len(t) /\ t[i + 1] \in Simple /\ i + 2 \in B
  <2>1. EscapeBytes(t, i) = <<Meaning(t[i + 1])>> /\ EscapeLength(t[i + 1]) = 2
    BY <1>2, MeaningIs DEF EscapeBytes
  <2>2. Meaning(t[i + 1]) \in Int
    BY <1>2, MeaningIs
  <2> QED
    BY <1>2, <2>1, <2>2
<1>3. CASE /\ i + 5 <= Len(t) /\ t[i + 1] = 117
           /\ \A k \in 2 .. 5 : t[i + k] \in Hex
           /\ i + 6 \in B
  <2>1. EscapeBytes(t, i) = Encode(CodeAt(t, i + 2)) /\ EscapeLength(t[i + 1]) = 6
    BY <1>3 DEF EscapeBytes, EscapeLength
  <2>2. ASSUME NEW k \in 0 .. 3
        PROVE  t[i + 2 + k] \in Hex
    <3>1. k + 2 \in 2 .. 5 /\ i + 2 + k = i + (k + 2)
      BY <1>0
    <3> QED
      BY <1>3, <3>1
  <2>3. CodeAt(t, i + 2) \in Nat
    BY <1>0, <2>2, CodeIs
  <2>4. EscapeBytes(t, i) \in Seq(Int) /\ Len(EscapeBytes(t, i)) \in 1 .. 3
    BY <2>1, <2>3, EncodedIs
  <2>5. Len(EscapeBytes(t, i)) \in 1 .. 6 - 1 /\ i + 1 <= Len(t)
    BY <1>0, <1>3, <2>4
  <2> QED
    BY <1>3, <2>1, <2>4, <2>5
<1> QED
  BY <1>0, <1>1, <1>2, <1>3 DEF PieceAt

\* The decoder writes these bytes, as long as it still has the escape.
LEMMA UnescapedIs ==
  ASSUME NEW t \in Texts, NEW B, Pieces(t, B), NEW i \in B, i <= Len(t), t[i] = Backslash,
         NEW s, \A k \in i .. Len(t) - 1 : s[k] = t[k + 1]
  PROVE  Unescaped(s, i) = EscapeBytes(t, i)
<1>0. Len(t) \in Nat /\ i \in 1 .. Len(t) + 1
  BY TextIs DEF Pieces
<1>1. PieceAt(t, i, B)
  BY DEF Pieces
<1>2. CASE i + 1 <= Len(t) /\ t[i + 1] \in Simple
  <2>1. s[i] = t[i + 1]
    BY <1>0, <1>2
  <2>2. EscapeBytes(t, i) = <<Meaning(t[i + 1])>>
    BY <1>2, MeaningIs DEF EscapeBytes
  <2>3. s[i] \in {34, 47, 92, 98, 102, 114, 110, 116}
    BY <1>2, <2>1 DEF Simple, Quote, Slash, Backslash
  <2>4. Unescaped(s, i) = <<Meaning(s[i])>>
    <3> HIDE DEF Encode
    <3>1. CASE s[i] = 98
      BY <3>1 DEF Unescaped, Meaning, Quote, Slash, Backslash
    <3>2. CASE s[i] = 102
      BY <3>2 DEF Unescaped, Meaning, Quote, Slash, Backslash
    <3>3. CASE s[i] = 114
      BY <3>3 DEF Unescaped, Meaning, Quote, Slash, Backslash
    <3>4. CASE s[i] = 110
      BY <3>4 DEF Unescaped, Meaning, Quote, Slash, Backslash
    <3>5. CASE s[i] = 116
      BY <3>5 DEF Unescaped, Meaning, Quote, Slash, Backslash
    <3>6. ASSUME s[i] \in {34, 47, 92}
          PROVE  Unescaped(s, i) = <<Meaning(s[i])>>
      <4>1. s[i] \in {Quote, Slash, Backslash}
        BY <3>6 DEF Quote, Slash, Backslash
      <4>2. s[i] # 98 /\ s[i] # 102 /\ s[i] # 114 /\ s[i] # 110 /\ s[i] # 116 /\ s[i] # 117
        BY <3>6
      <4>3. Unescaped(s, i) = <<s[i]>>
        BY <4>1, <4>2, SMT DEF Unescaped
      <4>4. Meaning(s[i]) = s[i]
        BY <4>2, Zenon DEF Meaning
      <4> QED
        BY <4>3, <4>4, Zenon
    <3> QED
      BY <2>3, <3>1, <3>2, <3>3, <3>4, <3>5, <3>6
  <2> QED
    BY <2>1, <2>2, <2>4
<1>3. CASE /\ i + 5 <= Len(t) /\ t[i + 1] = 117
           /\ \A k \in 2 .. 5 : t[i + k] \in Hex
  <2>1. s[i] = 117 /\ s[i + 1] = t[i + 2] /\ s[i + 2] = t[i + 3]
        /\ s[i + 3] = t[i + 4] /\ s[i + 4] = t[i + 5]
    BY <1>0, <1>3
  <2>2. Unescaped(s, i) = Encode(4096 * cgltf_unhex(s[i + 1]) + 256 * cgltf_unhex(s[i + 2])
                                   + 16 * cgltf_unhex(s[i + 3]) + cgltf_unhex(s[i + 4]))
    BY <2>1 DEF Unescaped, Quote, Slash, Backslash
  <2>3. ASSUME NEW k \in 0 .. 3
        PROVE  t[i + 2 + k] \in Hex
    <3>1. k + 2 \in 2 .. 5 /\ i + 2 + k = i + (k + 2)
      BY <1>0
    <3> QED
      BY <1>3, <3>1
  <2>4. CodeAt(t, i + 2) = 4096 * cgltf_unhex(t[i + 2]) + 256 * cgltf_unhex(t[i + 2 + 1])
                             + 16 * cgltf_unhex(t[i + 2 + 2]) + cgltf_unhex(t[i + 2 + 3])
    <3>1. i + 2 \in Int
      BY <1>0
    <3> QED
      BY <2>3, <3>1, CodeIs
  <2>5. i + 2 + 1 = i + 3 /\ i + 2 + 2 = i + 4 /\ i + 2 + 3 = i + 5
    BY <1>0
  <2>6. EscapeBytes(t, i) = Encode(CodeAt(t, i + 2))
    BY <1>3 DEF EscapeBytes
  <2> DEFINE code == 4096 * cgltf_unhex(s[i + 1]) + 256 * cgltf_unhex(s[i + 2])
                       + 16 * cgltf_unhex(s[i + 3]) + cgltf_unhex(s[i + 4])
  <2>7. code = CodeAt(t, i + 2)
    BY <2>1, <2>4, <2>5, SMT
  <2> HIDE DEF code
  <2>8. Unescaped(s, i) = Encode(code)
    BY <2>2 DEF code
  <2> QED
    BY <2>6, <2>7, <2>8, Zenon
<1> QED
  BY <1>0, <1>1, <1>2, <1>3 DEF PieceAt

--------------------------------------------------------------------------------
(* What the bytes stand for, from a place on.                              *)
PlacesOf(b, t) ==
  CHOOSE f : /\ \A i \in 1 .. Len(t) + 1 : f[i] = Places(b, t, i, f)
             /\ StandsFor(b, t) <=> 1 \in f[1]

LEMMA PlacesAre ==
  ASSUME NEW b, NEW t, Len(t) \in Nat
  PROVE  /\ \A i \in 1 .. Len(t) + 1 : PlacesOf(b, t)[i] = Places(b, t, i, PlacesOf(b, t))
         /\ StandsFor(b, t) <=> 1 \in PlacesOf(b, t)[1]
<1>1. \E f : /\ \A i \in 1 .. Len(t) + 1 : f[i] = Places(b, t, i, f)
             /\ StandsFor(b, t) <=> 1 \in f[1]
  BY PlacesExist
<1> QED
  BY <1>1, Zenon DEF PlacesOf

\* At the end of both.
LEMMA EndIsPlace ==
  ASSUME NEW b \in Seq(Int), NEW t \in Texts
  PROVE  Len(b) + 1 \in PlacesOf(b, t)[Len(t) + 1]
<1>1. Len(t) \in Nat /\ Len(b) \in Nat
  BY TextIs, LenProperties
<1>2. Len(t) + 1 \in 1 .. Len(t) + 1 /\ Len(b) + 1 \in 1 .. Len(b) + 1
  BY <1>1
<1>3. PlacesOf(b, t)[Len(t) + 1] = Places(b, t, Len(t) + 1, PlacesOf(b, t))
  BY <1>1, <1>2, PlacesAre
<1> QED
  BY <1>2, <1>3, Zenon DEF Places

\* In front of a character that is no backslash.
LEMMA CharacterIsPlace ==
  ASSUME NEW b \in Seq(Int), NEW t \in Texts, NEW i \in 1 .. Len(t), NEW j \in 1 .. Len(b),
         t[i] # Backslash, b[j] = t[i], j + 1 \in PlacesOf(b, t)[i + 1]
  PROVE  j \in PlacesOf(b, t)[i]
<1>1. Len(t) \in Nat /\ Len(b) \in Nat
  BY TextIs, LenProperties
<1>2. i \in 1 .. Len(t) + 1 /\ i <= Len(t) /\ j \in 1 .. Len(b) + 1 /\ j <= Len(b)
  BY <1>1
<1>3. PlacesOf(b, t)[i] = Places(b, t, i, PlacesOf(b, t))
  BY <1>1, <1>2, PlacesAre
<1> QED
  BY <1>2, <1>3, Zenon DEF Places

\* In front of several.
LEMMA RunIsPlace ==
  ASSUME NEW b \in Seq(Int), NEW t \in Texts, NEW l \in 0 .. Len(t), NEW r \in l .. Len(t),
         NEW j \in 1 .. Len(b) + 1, j + (r - l) <= Len(b) + 1,
         \A m \in 1 .. r - l : t[l + m] # Backslash /\ b[j + m - 1] = t[l + m],
         j + (r - l) \in PlacesOf(b, t)[r + 1]
  PROVE  j \in PlacesOf(b, t)[l + 1]
<1> DEFINE f == PlacesOf(b, t)
           S == {m \in Nat : m <= r - l => j + (r - l) - m \in f[r + 1 - m]}
<1>0. Len(t) \in Nat /\ Len(b) \in Nat
  BY TextIs, LenProperties
<1>1. 0 \in S
  <2>1. j + (r - l) - 0 = j + (r - l) /\ r + 1 - 0 = r + 1
    BY <1>0
  <2> QED  BY <2>1
<1>2. ASSUME NEW m \in Nat, m \in S
      PROVE  m + 1 \in S
  <2> SUFFICES ASSUME m + 1 <= r - l
               PROVE  j + (r - l) - (m + 1) \in f[r + 1 - (m + 1)]
    OBVIOUS
  <2> DEFINE i == r + 1 - (m + 1)
             h == j + (r - l) - (m + 1)
             n == r - l - m
  <2>1. /\ n \in 1 .. r - l /\ i = l + n /\ h = j + n - 1
        /\ i + 1 = r + 1 - m /\ h + 1 = j + (r - l) - m
        /\ i \in 1 .. Len(t) /\ h \in 1 .. Len(b)
    BY <1>0
  <2>2. h + 1 \in f[i + 1]
    <3>1. m <= r - l
      BY <1>0
    <3>2. j + (r - l) - m \in f[r + 1 - m]
      BY <1>2, <3>1
    <3> QED
      BY <2>1, <3>2
  <2> HIDE DEF i, h, n, f
  <2>3. t[i] # Backslash /\ b[h] = t[i]
    BY <2>1
  <2>4. h \in f[i]
    BY <2>1, <2>2, <2>3, CharacterIsPlace DEF f
  <2> QED
    BY <2>4 DEF i, h
<1>3. r - l \in S
  <2>1. r - l \in Nat
    BY <1>0
  <2> HIDE DEF S
  <2> QED  BY <1>1, <1>2, <2>1, CountsThroughNat
<1>4. j + (r - l) - (r - l) = j /\ r + 1 - (r - l) = l + 1 /\ r - l <= r - l
  BY <1>0
<1> QED
  BY <1>3, <1>4

\* In front of an escape.
LEMMA EscapeIsPlace ==
  ASSUME NEW b \in Seq(Int), NEW t \in Texts, NEW B, Pieces(t, B),
         NEW i \in B, i <= Len(t), t[i] = Backslash,
         NEW j \in Nat \ {0}, j + Len(EscapeBytes(t, i)) <= Len(b) + 1,
         \A k \in 1 .. Len(EscapeBytes(t, i)) : b[j + k - 1] = EscapeBytes(t, i)[k],
         j + Len(EscapeBytes(t, i)) \in PlacesOf(b, t)[i + EscapeLength(t[i + 1])]
  PROVE  j \in PlacesOf(b, t)[i]
<1> DEFINE e == EscapeBytes(t, i)
           f == PlacesOf(b, t)
<1>0. Len(t) \in Nat /\ Len(b) \in Nat /\ i \in 1 .. Len(t) + 1
  BY TextIs, LenProperties DEF Pieces
<1>1. PieceAt(t, i, B)
  BY DEF Pieces
<1>2. e \in Seq(Int) /\ Len(e) \in 1 .. EscapeLength(t[i + 1]) - 1
      /\ EscapeLength(t[i + 1]) \in {2, 6}
  BY EscapeIs
<1>3. Len(e) \in Nat /\ Len(e) >= 1
  BY <1>2
<1>4. j \in 1 .. Len(b) + 1 /\ j <= Len(b)
  BY <1>0, <1>3
<1>5. f[i] = Places(b, t, i, f)
  BY <1>0, PlacesAre
<1> HIDE DEF f
<1>6. CASE i + 1 <= Len(t) /\ t[i + 1] \in Simple
  <2>1. e = <<Meaning(t[i + 1])>> /\ EscapeLength(t[i + 1]) = 2
    BY <1>6, MeaningIs DEF EscapeBytes
  <2>2. Len(e) = 1 /\ e[1] = Meaning(t[i + 1]) /\ 1 \in 1 .. Len(e) /\ j + 1 - 1 = j
    BY <2>1
  <2>3. b[j] = Meaning(t[i + 1]) /\ j + 1 \in f[i + 2]
    <3> HIDE DEF e
    <3>1. b[j + 1 - 1] = e[1]
      BY <2>2 DEF e
    <3>2. j + Len(e) \in f[i + EscapeLength(t[i + 1])]
      BY DEF e, f
    <3> QED
      BY <2>1, <2>2, <3>1, <3>2
  <2>4. i < Len(t)
    BY <1>0, <1>6
  <2>5. j \in Places(b, t, i, f)
    BY <1>4, <1>6, <2>3, <2>4, Zenon DEF Places
  <2> QED
    BY <1>5, <2>5 DEF f
<1>7. CASE /\ i + 5 <= Len(t) /\ t[i + 1] = 117
           /\ \A k \in 2 .. 5 : t[i + k] \in Hex
  <2> DEFINE code == CodeAt(t, i + 2)
             n == Len(e)
  <2>1. e = Encode(code) /\ EscapeLength(t[i + 1]) = 6
    BY <1>7 DEF EscapeBytes, EscapeLength
  <2>2. ASSUME NEW k \in 0 .. 3
        PROVE  t[i + 2 + k] \in Hex
    <3>1. k + 2 \in 2 .. 5 /\ i + 2 + k = i + (k + 2)
      BY <1>0
    <3> QED
      BY <1>7, <3>1
  <2>3. code \in Nat
    <3>1. i + 2 \in Int
      BY <1>0
    <3> QED
      BY <2>2, <3>1, CodeIs
  <2> HIDE DEF code
  <2>4. \A k \in 1 .. Len(Encode(code)) : b[j + k - 1] = Encode(code)[k]
    BY <2>1
  <2>5. j \in Int
    BY <1>0
  <2>6. Utf8At(b, j, Len(Encode(code)), code) /\ Len(Encode(code)) \in 1 .. 3
    BY <2>3, <2>4, <2>5, EncodedIs
  <2>7. Utf8At(b, j, n, code) /\ n \in 1 .. 3
    BY <2>1, <2>6
  <2>8. j + n <= Len(b) + 1 /\ j + n \in f[i + 6]
    <3> HIDE DEF e
    <3>1. j + Len(e) \in f[i + EscapeLength(t[i + 1])] /\ j + Len(e) <= Len(b) + 1
      BY DEF e, f
    <3> QED
      BY <2>1, <3>1
  <2> HIDE DEF n
  <2>9. \E m \in 1 .. 3 : /\ j + m <= Len(b) + 1 /\ j + m \in f[i + 6]
                          /\ Utf8At(b, j, m, CodeAt(t, i + 2))
    BY <2>7, <2>8 DEF code
  <2>10. j \in Places(b, t, i, f)
    BY <1>4, <1>7, <2>9, Zenon DEF Places
  <2> QED
    BY <1>5, <2>10 DEF f
<1> QED
  BY <1>0, <1>1, <1>6, <1>7 DEF PieceAt

--------------------------------------------------------------------------------
(* Writing into a string.                                                  *)
LEMMA PutIs ==
  ASSUME NEW n \in Nat, NEW s \in [0 .. n -> Int], NEW q \in Seq(Int), NEW i \in Nat,
         i + Len(q) <= n + 1
  PROVE  /\ Put(s, i, q) \in [0 .. n -> Int]
         /\ \A k \in 0 .. n : k < i \/ k >= i + Len(q) => Put(s, i, q)[k] = s[k]
         /\ \A m \in 1 .. Len(q) : Put(s, i, q)[i + m - 1] = q[m]
<1>1. Len(q) \in Nat /\ DOMAIN q = 1 .. Len(q) /\ q \in [1 .. Len(q) -> Int]
  BY LenProperties
<1>2. Put(s, i, q) = [k \in 0 .. n |-> IF k - i + 1 \in 1 .. Len(q) THEN q[k - i + 1] ELSE s[k]]
  BY <1>1 DEF Put
<1>3. ASSUME NEW k \in 0 .. n
      PROVE  /\ Put(s, i, q)[k] \in Int
             /\ k < i \/ k >= i + Len(q) => Put(s, i, q)[k] = s[k]
  <2>1. Put(s, i, q)[k] = IF k - i + 1 \in 1 .. Len(q) THEN q[k - i + 1] ELSE s[k]
    BY <1>2
  <2>2. s[k] \in Int /\ (k - i + 1 \in 1 .. Len(q) => q[k - i + 1] \in Int)
    BY <1>1
  <2>3. k < i \/ k >= i + Len(q) => ~(k - i + 1 \in 1 .. Len(q))
    BY <1>1
  <2> QED
    BY <2>1, <2>2, <2>3
<1>4. ASSUME NEW m \in 1 .. Len(q)
      PROVE  Put(s, i, q)[i + m - 1] = q[m]
  <2>1. i + m - 1 \in 0 .. n /\ i + m - 1 - i + 1 = m
    BY <1>1
  <2> QED
    BY <1>2, <2>1
<1>5. Put(s, i, q) \in [0 .. n -> Int]
  <2> DEFINE p == Put(s, i, q)
  <2>1. p = [k \in 0 .. n |-> p[k]]
    BY <1>2
  <2>2. \A k \in 0 .. n : p[k] \in Int
    BY <1>3
  <2> HIDE DEF p
  <2>3. p \in [0 .. n -> Int]
    BY <2>1, <2>2
  <2> QED
    BY <2>3 DEF p
<1> QED
  BY <1>3, <1>4, <1>5

LEMMA NextBackslashIs ==
  ASSUME NEW n \in Nat, NEW s \in [0 .. n -> Int], s[n] = NUL, NEW i \in 0 .. n
  PROVE  /\ NextBackslash(s, i) \in i .. n
         /\ s[NextBackslash(s, i)] \in {Backslash, NUL}
         /\ \A k \in i .. NextBackslash(s, i) - 1 : s[k] \notin {Backslash, NUL}
<1> DEFINE T == {k \in i .. n : s[k] \in {Backslash, NUL}}
<1>1. n \in T
  OBVIOUS
<1>2. T \subseteq Nat
  OBVIOUS
<1>3. PICK j \in T : \A u \in T : <<u, j>> \notin Less
  <2> HIDE DEF T
  <2> QED  BY <1>1, <1>2, LessIsWellFounded, WFMin
<1>4. j \in i .. n /\ s[j] \in {Backslash, NUL}
  BY <1>3
<1>5. ASSUME NEW k \in i .. j - 1
      PROVE  s[k] \notin {Backslash, NUL}
  <2>1. k \in i .. n /\ <<k, j>> \in Less
    BY <1>4 DEF Less
  <2> QED
    BY <1>3, <2>1
<1>6. j \in DOMAIN s /\ j >= i
  BY <1>4
<1> DEFINE P(h) == /\ h >= i /\ s[h] \in {Backslash, NUL}
                   /\ \A k \in i .. h - 1 : s[k] \notin {Backslash, NUL}
<1>7. \E h \in DOMAIN s : P(h)
  BY <1>4, <1>5, <1>6
<1>8. NextBackslash(s, i) = CHOOSE h \in DOMAIN s : P(h)
  BY Zenon DEF NextBackslash
<1>9. NextBackslash(s, i) \in DOMAIN s /\ P(NextBackslash(s, i))
  <2> HIDE DEF P
  <2> QED  BY <1>7, <1>8, Zenon
<1> QED
  BY <1>9

--------------------------------------------------------------------------------
(* cgltf_decode_string.                                                    *)

\* A text in memory is the text, and behind it the NUL.
LEMMA CStringIs ==
  ASSUME NEW t \in Texts
  PROVE  /\ CString(t) \in [0 .. Len(t) -> Int] /\ CString(t)[Len(t)] = NUL
         /\ \A k \in 0 .. Len(t) - 1 : CString(t)[k] = t[k + 1] /\ CString(t)[k] # NUL
<1>0. Len(t) \in Nat /\ \A k \in 1 .. Len(t) : t[k] \in 1 .. 255
  BY TextIs
<1>1. NUL \in Int /\ \A ch \in 1 .. 255 : ch \in Int /\ ch # NUL
  BY DEF NUL
<1>2. CString(t) = [k \in 0 .. Len(t) |-> IF k = Len(t) THEN NUL ELSE t[k + 1]]
  BY DEF CString
<1>3. ASSUME NEW k \in 0 .. Len(t) - 1
      PROVE  CString(t)[k] = t[k + 1] /\ CString(t)[k] # NUL /\ CString(t)[k] \in Int
  <2>1. k \in 0 .. Len(t) /\ k # Len(t) /\ k + 1 \in 1 .. Len(t)
    BY <1>0
  <2>2. CString(t)[k] = t[k + 1]
    BY <1>2, <2>1
  <2>3. t[k + 1] \in 1 .. 255
    BY <1>0, <2>1
  <2> QED
    BY <1>1, <2>2, <2>3, Zenon
<1>4. CString(t)[Len(t)] = NUL
  BY <1>0, <1>2
<1>5. \A k \in 0 .. Len(t) : CString(t)[k] \in Int
  BY <1>0, <1>1, <1>3, <1>4
<1>6. CString(t) \in [0 .. Len(t) -> Int]
  <2> DEFINE p == CString(t)
  <2>1. p = [k \in 0 .. Len(t) |-> p[k]]
    BY <1>2
  <2>2. \A k \in 0 .. Len(t) : p[k] \in Int
    BY <1>5
  <2> HIDE DEF p
  <2>3. p \in [0 .. Len(t) -> Int]
    BY <2>1, <2>2
  <2> QED
    BY <2>3 DEF p
<1> QED
  BY <1>3, <1>4, <1>6

\* The bytes b begin with the first w of the string.
BeginWith(b, s, w) == b \in Seq(Int) /\ Len(b) >= w /\ \A m \in 1 .. w : b[m] = s[m - 1]

\* Whatever begins with what is written, and stands for the rest, stands for it all.
WrittenIs(s, w, l, t) ==
  \A b : BeginWith(b, s, w) /\ w + 1 \in PlacesOf(b, t)[l + 1] => StandsFor(b, t)

\* From l on, the string is what was given.
Unread(s, l, t) == \A k \in l .. Len(t) : s[k] = CString(t)[k]

\* Between l and r there is no escape, and at r there is one, or the end.
RunEnds(s, l, r) ==
  s[r] \in {Backslash, NUL} /\ \A k \in l .. r - 1 : s[k] \notin {Backslash, NUL}

\* At the head of the loop of cgltf_decode_string.
InString(s, r, w, l, t, B) ==
  /\ s \in [0 .. Len(t) -> Int]
  /\ w \in 0 .. l /\ l \in 0 .. r /\ r \in 0 .. Len(t)
  /\ Unread(s, l, t) /\ RunEnds(s, l, r)
  /\ l + 1 \in B
  /\ WrittenIs(s, w, l, t)

\* So it is before the first round.
LEMMA StringBegins ==
  ASSUME NEW t \in Texts, NEW B, Pieces(t, B)
  PROVE  InString(CString(t), NextBackslash(CString(t), 0), 0, 0, t, B)
<1> DEFINE s == CString(t)
           r == NextBackslash(s, 0)
<1>0. Len(t) \in Nat
  BY TextIs
<1>1. s \in [0 .. Len(t) -> Int] /\ s[Len(t)] = NUL
  BY CStringIs
<1> HIDE DEF s
<1>2. r \in 0 .. Len(t) /\ RunEnds(s, 0, r)
  <2>1. 0 \in 0 .. Len(t)
    BY <1>0
  <2> QED
    BY <1>0, <1>1, <2>1, NextBackslashIs, Zenon DEF RunEnds
<1> HIDE DEF r
<1>3. Unread(s, 0, t)
  BY DEF Unread, s
<1>4. 0 + 1 \in B
  BY DEF Pieces
<1>5. WrittenIs(s, 0, 0, t)
  <2>1. \A b : StandsFor(b, t) <=> 1 \in PlacesOf(b, t)[1]
    BY <1>0, PlacesAre
  <2>2. 0 + 1 = 1
    OBVIOUS
  <2> QED
    BY <2>1, <2>2 DEF WrittenIs
<1>6. InString(s, r, 0, 0, t, B)
  BY <1>0, <1>1, <1>2, <1>3, <1>4, <1>5 DEF InString
<1> QED
  BY <1>6 DEF s, r

\* The characters since the last escape, and the string they have moved down in.
Run(s, l, r) == [k \in 1 .. r - l |-> s[l + k - 1]]

Moved(s, w, l, r) == Put(s, w, Run(s, l, r))

IsMoved(moved, s, r, w, l, t) ==
  /\ moved \in [0 .. Len(t) -> Int] /\ Unread(moved, r, t)
  /\ \A m \in 1 .. w : moved[m - 1] = s[m - 1]
  /\ \A m \in 1 .. r - l : t[l + m] # Backslash /\ moved[w + m - 1] = t[l + m]

\* What memmove leaves: the run is behind what is written, the rest is unread.
LEMMA RunIsMoved ==
  ASSUME NEW t \in Texts, NEW B, Pieces(t, B), NEW s, NEW r, NEW w, NEW l,
         InString(s, r, w, l, t, B)
  PROVE  Len(Run(s, l, r)) = r - l /\ r + 1 \in B /\ IsMoved(Moved(s, w, l, r), s, r, w, l, t)
<1> DEFINE n == Len(t)
           run == Run(s, l, r)
           moved == Moved(s, w, l, r)
<1>0. n \in Nat /\ DOMAIN t = 1 .. n
  BY TextIs
<1>1. /\ s \in [0 .. n -> Int] /\ w \in 0 .. l /\ l \in 0 .. r /\ r \in 0 .. n
      /\ Unread(s, l, t) /\ RunEnds(s, l, r) /\ l + 1 \in B
  BY DEF InString
<1>2. run \in Seq(Int) /\ Len(run) = r - l /\ \A m \in 1 .. r - l : run[m] = s[l + m - 1]
  <2>1. \A k \in 1 .. r - l : s[l + k - 1] \in Int
    BY <1>0, <1>1
  <2> QED
    BY <1>0, <1>1, <2>1 DEF Run
<1> HIDE DEF run
<1>3. w \in Nat /\ w + Len(run) <= n + 1 /\ w + Len(run) <= r
  BY <1>0, <1>1, <1>2
<1>4. /\ moved \in [0 .. n -> Int]
      /\ \A k \in 0 .. n : k < w \/ k >= w + Len(run) => moved[k] = s[k]
      /\ \A m \in 1 .. Len(run) : moved[w + m - 1] = run[m]
  BY <1>0, <1>1, <1>2, <1>3, PutIs DEF Moved, run
<1> HIDE DEF moved
<1>5. Unread(moved, r, t)
  BY <1>0, <1>1, <1>2, <1>3, <1>4 DEF Unread
<1>6. \A m \in 1 .. w : moved[m - 1] = s[m - 1]
  BY <1>0, <1>1, <1>4
<1>7. ASSUME NEW m \in 1 .. r - l
      PROVE  t[l + m] # Backslash /\ moved[w + m - 1] = t[l + m]
  <2>1. l + m - 1 \in l .. r - 1 /\ l + m - 1 \in l .. n /\ l + m - 1 \in 0 .. n - 1
        /\ l + m - 1 + 1 = l + m
    BY <1>0, <1>1
  <2>2. s[l + m - 1] = CString(t)[l + m - 1] /\ s[l + m - 1] # Backslash
    BY <1>1, <2>1 DEF Unread, RunEnds
  <2>3. CString(t)[l + m - 1] = t[l + m]
    BY <2>1, CStringIs
  <2>4. moved[w + m - 1] = s[l + m - 1]
    BY <1>2, <1>4
  <2> QED
    BY <2>2, <2>3, <2>4
<1>8. r + 1 \in B
  <2> DEFINE a == l + 1
             c == r + 1
  <2>1. a \in B /\ c \in a .. Len(t) + 1
    BY <1>0, <1>1
  <2>2. ASSUME NEW k \in a .. c - 1
        PROVE  t[k] # Backslash
    <3>1. k - l \in 1 .. r - l /\ l + (k - l) = k
      BY <1>0, <1>1
    <3> QED
      BY <1>7, <3>1
  <2> HIDE DEF a, c
  <2>3. c \in B
    BY <2>1, <2>2, RunBegins
  <2> QED
    BY <2>3 DEF c
<1>9. IsMoved(moved, s, r, w, l, t)
  BY <1>4, <1>5, <1>6, <1>7 DEF IsMoved
<1> QED
  BY <1>2, <1>8, <1>9 DEF run, moved

\* The bytes that a decoder has written.
LEMMA PrefixOf ==
  ASSUME NEW n \in Nat, NEW s \in [0 .. n -> Int], NEW w \in 0 .. n
  PROVE  /\ Prefix(s, w) \in Seq(Int) /\ Len(Prefix(s, w)) = w
         /\ \A m \in 1 .. w : Prefix(s, w)[m] = s[m - 1]
<1>1. \A m \in 1 .. w : s[m - 1] \in Int
  OBVIOUS
<1>2. Prefix(s, w) = [m \in 1 .. w |-> s[m - 1]]
  BY DEF Prefix
<1> QED
  BY <1>1, <1>2

\* When a string is what it was where it is unread, its NUL is at its end.
LEMMA NulIsEnd ==
  ASSUME NEW t \in Texts, NEW s, NEW l \in 0 .. Len(t), Unread(s, l, t), NEW r \in l .. Len(t)
  PROVE  (s[r] = NUL <=> r = Len(t)) /\ (r < Len(t) => s[r] = t[r + 1])
<1>0. Len(t) \in Nat
  BY TextIs
<1>1. s[r] = CString(t)[r]
  BY DEF Unread
<1>2. CASE r = Len(t)
  BY <1>0, <1>1, <1>2, CStringIs
<1>3. CASE r # Len(t)
  <2>1. r \in 0 .. Len(t) - 1
    BY <1>0, <1>3
  <2> QED
    BY <1>1, <1>3, <2>1, CStringIs
<1> QED
  BY <1>2, <1>3

\* The last round: what is written then stands for the whole string.
LEMMA LastRound ==
  ASSUME NEW t \in Texts, NEW B, Pieces(t, B), NEW s, NEW r, NEW w, NEW l,
         InString(s, r, w, l, t, B)
  PROVE  LET run == Run(s, l, r)
             moved == Moved(s, w, l, r)
             end == w + Len(run)
             done == Put(moved, end, <<NUL>>)
         IN  moved[r] = NUL =>
               /\ end \in 0 .. Len(t) /\ done \in [0 .. Len(t) -> Int] /\ done[end] = NUL
               /\ StandsFor(Prefix(done, end), t)
<1> DEFINE n == Len(t)
           run == Run(s, l, r)
           moved == Moved(s, w, l, r)
           end == w + Len(run)
           done == Put(moved, end, <<NUL>>)
           b == Prefix(done, end)
<1> SUFFICES ASSUME moved[r] = NUL
             PROVE  /\ end \in 0 .. n /\ done \in [0 .. n -> Int] /\ done[end] = NUL
                    /\ StandsFor(b, t)
  BY Zenon
<1>0. n \in Nat
  BY TextIs
<1>1. /\ s \in [0 .. n -> Int] /\ w \in 0 .. l /\ l \in 0 .. r /\ r \in 0 .. n
      /\ WrittenIs(s, w, l, t)
  BY DEF InString
<1>2. /\ Len(run) = r - l /\ moved \in [0 .. n -> Int] /\ Unread(moved, r, t)
      /\ \A m \in 1 .. w : moved[m - 1] = s[m - 1]
      /\ \A m \in 1 .. r - l : t[l + m] # Backslash /\ moved[w + m - 1] = t[l + m]
  <2>1. Len(run) = r - l /\ r + 1 \in B /\ IsMoved(moved, s, r, w, l, t)
    BY RunIsMoved, Zenon
  <2> HIDE DEF run, moved
  <2> QED
    BY <2>1 DEF IsMoved
<1>3. moved[r] = NUL
  OBVIOUS
<1> HIDE DEF run, moved
<1>4. r = n
  <2>1. r \in r .. Len(t)
    BY <1>1
  <2> QED
    BY <1>1, <1>2, <1>3, <2>1, NulIsEnd
<1>5. end \in 0 .. n /\ end = w + (r - l) /\ end \in Nat
  BY <1>0, <1>1, <1>2
<1>6. <<NUL>> \in Seq(Int) /\ Len(<<NUL>>) = 1 /\ <<NUL>>[1] = NUL
  BY DEF NUL
<1> HIDE DEF end
<1>7. /\ done \in [0 .. n -> Int]
      /\ \A k \in 0 .. n : k < end \/ k >= end + 1 => done[k] = moved[k]
      /\ \A m \in 1 .. 1 : done[end + m - 1] = <<NUL>>[m]
  <2>1. end + Len(<<NUL>>) <= n + 1
    BY <1>0, <1>5, <1>6
  <2> HIDE DEF done
  <2>2. /\ done \in [0 .. n -> Int]
        /\ \A k \in 0 .. n : k < end \/ k >= end + Len(<<NUL>>) => done[k] = moved[k]
        /\ \A m \in 1 .. Len(<<NUL>>) : done[end + m - 1] = <<NUL>>[m]
    BY <1>0, <1>2, <1>5, <1>6, <2>1, PutIs DEF done
  <2> QED
    BY <1>6, <2>2
<1> HIDE DEF done
<1>8. done[end] = NUL
  <2>1. 1 \in 1 .. 1 /\ end + 1 - 1 = end
    BY <1>5
  <2> QED
    BY <1>6, <1>7, <2>1
<1>9. b \in Seq(Int) /\ Len(b) = end /\ \A m \in 1 .. end : b[m] = done[m - 1]
  BY <1>0, <1>5, <1>7, PrefixOf, Zenon
<1> HIDE DEF b
<1>10. \A m \in 1 .. end : b[m] = moved[m - 1]
  <2> SUFFICES ASSUME NEW m \in 1 .. end
               PROVE  b[m] = moved[m - 1]
    OBVIOUS
  <2>1. m - 1 \in 0 .. n /\ m - 1 < end
    BY <1>0, <1>5
  <2> QED
    BY <1>7, <1>9, <2>1
<1>11. BeginWith(b, s, w)
  <2>1. Len(b) >= w
    BY <1>0, <1>1, <1>5, <1>9
  <2>2. \A m \in 1 .. w : b[m] = s[m - 1]
    BY <1>0, <1>1, <1>2, <1>5, <1>10
  <2> QED
    BY <1>9, <2>1, <2>2 DEF BeginWith
<1>12. \A m \in 1 .. r - l : t[l + m] # Backslash /\ b[w + 1 + m - 1] = t[l + m]
  <2> SUFFICES ASSUME NEW m \in 1 .. r - l
               PROVE  t[l + m] # Backslash /\ b[w + 1 + m - 1] = t[l + m]
    OBVIOUS
  <2>1. w + m \in 1 .. end /\ w + 1 + m - 1 = w + m /\ (w + m) - 1 = w + m - 1
    BY <1>0, <1>1, <1>5
  <2>2. b[w + m] = moved[w + m - 1]
    BY <1>10, <2>1, Zenon
  <2> QED
    BY <1>2, <2>1, <2>2
<1>13. w + 1 \in PlacesOf(b, t)[l + 1]
  <2> DEFINE j == w + 1
  <2>1. j \in 1 .. Len(b) + 1 /\ j + (r - l) = Len(b) + 1 /\ j + (r - l) <= Len(b) + 1
        /\ l \in 0 .. Len(t) /\ r \in l .. Len(t) /\ r + 1 = Len(t) + 1
    BY <1>0, <1>1, <1>4, <1>5, <1>9
  <2>2. j + (r - l) \in PlacesOf(b, t)[r + 1]
    BY <1>9, <2>1, EndIsPlace
  <2>3. \A m \in 1 .. r - l : t[l + m] # Backslash /\ b[j + m - 1] = t[l + m]
    BY <1>12
  <2> HIDE DEF j
  <2>4. j \in PlacesOf(b, t)[l + 1]
    BY <1>9, <2>1, <2>2, <2>3, RunIsPlace
  <2> QED
    BY <2>4 DEF j
<1>14. StandsFor(b, t)
  BY <1>1, <1>11, <1>13 DEF WrittenIs
<1> QED
  BY <1>5, <1>7, <1>8, <1>14

\* A round before: an escape is decoded, and the rest is as it was.
LEMMA EscapeRound ==
  ASSUME NEW t \in Texts, NEW B, Pieces(t, B), NEW s, NEW r, NEW w, NEW l,
         InString(s, r, w, l, t, B)
  PROVE  LET run == Run(s, l, r)
             moved == Moved(s, w, l, r)
             end == w + Len(run)
             written == Unescaped(moved, r + 1)
             next == r + EscapeLength(moved[r + 1])
             s2 == Put(moved, end, written)
         IN  moved[r] # NUL =>
               InString(s2, NextBackslash(s2, next), end + Len(written), next, t, B)
<1> DEFINE n == Len(t)
           run == Run(s, l, r)
           moved == Moved(s, w, l, r)
           end == w + Len(run)
           written == Unescaped(moved, r + 1)
           next == r + EscapeLength(moved[r + 1])
           s2 == Put(moved, end, written)
           r2 == NextBackslash(s2, next)
<1> SUFFICES ASSUME moved[r] # NUL
             PROVE  InString(s2, r2, end + Len(written), next, t, B)
  BY Zenon
<1>0. n \in Nat
  BY TextIs
<1>1. /\ s \in [0 .. n -> Int] /\ w \in 0 .. l /\ l \in 0 .. r /\ r \in 0 .. n
      /\ Unread(s, l, t) /\ RunEnds(s, l, r) /\ WrittenIs(s, w, l, t)
  BY DEF InString
<1>2. /\ Len(run) = r - l /\ moved \in [0 .. n -> Int] /\ Unread(moved, r, t)
      /\ r + 1 \in B
      /\ \A m \in 1 .. w : moved[m - 1] = s[m - 1]
      /\ \A m \in 1 .. r - l : t[l + m] # Backslash /\ moved[w + m - 1] = t[l + m]
  <2>1. Len(run) = r - l /\ r + 1 \in B /\ IsMoved(moved, s, r, w, l, t)
    BY RunIsMoved, Zenon
  <2> HIDE DEF run, moved
  <2> QED
    BY <2>1 DEF IsMoved
<1>3. moved[r] # NUL
  OBVIOUS
<1> HIDE DEF run, moved
<1>4. r < n /\ moved[r] = t[r + 1]
  <2>1. r \in r .. Len(t)
    BY <1>1
  <2> QED
    BY <1>0, <1>1, <1>2, <1>3, <2>1, NulIsEnd
<1>5. t[r + 1] = Backslash
  <2>1. r \in l .. Len(t) /\ l \in 0 .. Len(t)
    BY <1>0, <1>1
  <2>2. s[r] = t[r + 1] /\ s[r] # NUL
    BY <1>0, <1>1, <1>4, <2>1, NulIsEnd
  <2> QED
    BY <1>1, <2>2 DEF RunEnds
<1>6. end \in 0 .. r /\ end = w + (r - l) /\ end \in Nat
  BY <1>0, <1>1, <1>2
<1> HIDE DEF end
<1> DEFINE i == r + 1
           e == EscapeBytes(t, i)
           d == EscapeLength(t[i + 1])
<1>7. i \in B /\ i <= Len(t) /\ t[i] = Backslash /\ i \in Nat
  BY <1>0, <1>1, <1>2, <1>4, <1>5
<1> HIDE DEF i
<1>8. i + 1 <= n /\ e \in Seq(Int) /\ Len(e) \in 1 .. d - 1 /\ d \in {2, 6} /\ i + d \in B
  BY <1>7, EscapeIs
<1>9. \A k \in i .. Len(t) - 1 : moved[k] = t[k + 1]
  <2> SUFFICES ASSUME NEW k \in i .. Len(t) - 1
               PROVE  moved[k] = t[k + 1]
    OBVIOUS
  <2>1. k \in r .. Len(t) /\ k \in 0 .. Len(t) - 1
    BY <1>0, <1>1 DEF i
  <2> QED
    BY <1>2, <2>1, CStringIs DEF Unread
<1>10. written = e
  <2>1. Unescaped(moved, i) = e
    <3> HIDE DEF e
    <3> QED  BY <1>7, <1>9, UnescapedIs DEF e
  <2> QED
    BY <2>1 DEF i
<1>11. moved[r + 1] = t[i + 1] /\ next = r + d
  <2>1. i \in i .. Len(t) - 1
    BY <1>0, <1>7, <1>8
  <2>2. moved[i] = t[i + 1]
    BY <1>9, <2>1
  <2> QED
    BY <2>2 DEF i
<1> HIDE DEF written, next, e, d
<1>12. Len(e) \in Nat /\ d \in Nat /\ next + 1 = i + d /\ next + 1 \in B
       /\ next \in 0 .. n /\ next > r /\ end + Len(e) \in 0 .. next
       /\ end + Len(e) <= n + 1
  <2>1. i + d \in 1 .. n + 1
    BY <1>8 DEF Pieces
  <2>2. next + 1 = i + d
    BY <1>1, <1>8, <1>11 DEF i
  <2> QED
    BY <1>0, <1>1, <1>6, <1>8, <1>11, <2>1, <2>2 DEF i
<1>13. /\ s2 \in [0 .. n -> Int]
       /\ \A k \in 0 .. n : k < end \/ k >= end + Len(e) => s2[k] = moved[k]
       /\ \A m \in 1 .. Len(e) : s2[end + m - 1] = e[m]
  <2> DEFINE p == Put(moved, end, e)
  <2>1. s2 = p
    BY <1>10
  <2>2. moved \in [0 .. n -> Int] /\ e \in Seq(Int)
    BY <1>2, <1>8
  <2>3. /\ p \in [0 .. n -> Int]
        /\ \A k \in 0 .. n : k < end \/ k >= end + Len(e) => p[k] = moved[k]
        /\ \A m \in 1 .. Len(e) : p[end + m - 1] = e[m]
    BY <1>0, <1>6, <1>12, <2>2, PutIs, Zenon
  <2> HIDE DEF p, s2
  <2> QED
    BY <2>1, <2>3, Zenon
<1> HIDE DEF s2
<1>14. Unread(s2, next, t)
  <2> SUFFICES ASSUME NEW k \in next .. Len(t)
               PROVE  s2[k] = CString(t)[k]
    BY DEF Unread
  <2>1. k \in 0 .. n /\ k >= end + Len(e) /\ k \in r .. Len(t)
    BY <1>0, <1>1, <1>12
  <2> QED
    BY <1>2, <1>13, <2>1 DEF Unread
<1>15. r2 \in next .. n /\ RunEnds(s2, next, r2)
  <2>1. s2[n] = NUL
    <3>1. n \in next .. Len(t)
      BY <1>0, <1>12
    <3> QED
      BY <1>14, <3>1, CStringIs DEF Unread
  <2> QED
    BY <1>0, <1>12, <1>13, <2>1, NextBackslashIs, Zenon DEF RunEnds
<1> HIDE DEF r2
<1>16. WrittenIs(s2, end + Len(e), next, t)
  <2> SUFFICES ASSUME NEW b, BeginWith(b, s2, end + Len(e)),
                      end + Len(e) + 1 \in PlacesOf(b, t)[next + 1]
               PROVE  StandsFor(b, t)
    BY DEF WrittenIs
  <2>1. /\ b \in Seq(Int) /\ Len(b) >= end + Len(e)
        /\ \A m \in 1 .. end + Len(e) : b[m] = s2[m - 1]
    BY DEF BeginWith
  <2>2. Len(b) \in Nat /\ Len(b) >= end
    <3>1. Len(b) \in Nat
      BY <2>1, LenProperties
    <3> QED
      BY <1>6, <1>12, <2>1, <3>1
  <2>3. ASSUME NEW m \in 1 .. end
        PROVE  b[m] = moved[m - 1]
    <3>1. m - 1 \in 0 .. n /\ m - 1 < end /\ m \in 1 .. end + Len(e)
      BY <1>0, <1>1, <1>6, <1>12
    <3> QED
      BY <1>13, <2>1, <3>1
  <2>4. end + 1 \in PlacesOf(b, t)[i]
    <3> DEFINE j == end + 1
    <3>1. j \in Nat \ {0} /\ j + Len(e) = end + Len(e) + 1 /\ j + Len(e) <= Len(b) + 1
      BY <1>6, <1>12, <2>1, <2>2
    <3>2. ASSUME NEW k \in 1 .. Len(e)
          PROVE  b[j + k - 1] = e[k]
      <4>1. /\ end + k \in 1 .. end + Len(e)
            /\ j + k - 1 = end + k /\ (end + k) - 1 = end + k - 1
        BY <1>6, <1>12
      <4>2. b[end + k] = s2[end + k - 1]
        BY <2>1, <4>1, Zenon
      <4> QED
        BY <1>13, <4>1, <4>2
    <3>3. j + Len(e) \in PlacesOf(b, t)[i + d]
      BY <1>12, <3>1
    <3> HIDE DEF j
    <3>4. j \in PlacesOf(b, t)[i]
      BY <1>7, <2>1, <3>1, <3>2, <3>3, EscapeIsPlace DEF e, d
    <3> QED
      BY <3>4 DEF j
  <2>5. w + 1 \in PlacesOf(b, t)[l + 1]
    <3> DEFINE j == w + 1
    <3>1. j \in 1 .. Len(b) + 1 /\ j + (r - l) = end + 1 /\ j + (r - l) <= Len(b) + 1
          /\ l \in 0 .. Len(t) /\ r \in l .. Len(t)
      BY <1>0, <1>1, <1>6, <2>2
    <3>2. j + (r - l) \in PlacesOf(b, t)[r + 1]
      BY <2>4, <3>1 DEF i
    <3>3. ASSUME NEW m \in 1 .. r - l
          PROVE  t[l + m] # Backslash /\ b[j + m - 1] = t[l + m]
      <4>1. w + m \in 1 .. end /\ j + m - 1 = w + m /\ (w + m) - 1 = w + m - 1
        BY <1>0, <1>1, <1>6
      <4>2. b[w + m] = moved[w + m - 1]
        BY <2>3, <4>1, Zenon
      <4> QED
        BY <1>2, <4>1, <4>2
    <3> HIDE DEF j
    <3>4. j \in PlacesOf(b, t)[l + 1]
      BY <2>1, <3>1, <3>2, <3>3, RunIsPlace
    <3> QED
      BY <3>4 DEF j
  <2>6. BeginWith(b, s, w)
    <3>1. Len(b) >= w
      BY <1>0, <1>1, <1>6, <2>2
    <3>2. ASSUME NEW m \in 1 .. w
          PROVE  b[m] = s[m - 1]
      <4>1. m \in 1 .. end
        BY <1>0, <1>1, <1>6
      <4> QED
        BY <1>2, <2>3, <4>1, Zenon
    <3> QED
      BY <2>1, <3>1, <3>2 DEF BeginWith
  <2> QED
    BY <1>1, <2>5, <2>6 DEF WrittenIs
<1>17. InString(s2, r2, end + Len(e), next, t, B)
  <2>1. end + Len(e) \in 0 .. next /\ next \in 0 .. r2 /\ r2 \in 0 .. n
    BY <1>0, <1>12, <1>15
  <2> QED
    BY <1>12, <1>13, <1>14, <1>15, <1>16, <2>1 DEF InString
<1> QED
  BY <1>10, <1>17

--------------------------------------------------------------------------------
(* cgltf_decode_uri.                                                       *)

\* What is left of a uri from each of its characters on.
RestOf(t) ==
  CHOOSE f : /\ \A i \in 1 .. Len(t) + 1 : f[i] = UriRest(t, i, f)
             /\ UriBytes(t) = f[1]

\* A round of cgltf_decode_uri: its byte, and the characters it takes.
ByteAt(t, i) == IF IsByte(t, i) THEN 16 * Hexed(t, i + 1) + Hexed(t, i + 2) ELSE t[i]

LengthAt(t, i) == IF IsByte(t, i) THEN 3 ELSE 1

\* The rest from a character on is its byte and the rest behind it.
LEMMA RestsAre ==
  ASSUME NEW t \in Texts
  PROVE  /\ UriBytes(t) = RestOf(t)[1] /\ RestOf(t)[Len(t) + 1] = << >>
         /\ \A i \in 1 .. Len(t) :
              /\ LengthAt(t, i) \in 1 .. Len(t) + 1 - i /\ ByteAt(t, i) \in Int
              /\ RestOf(t)[i] = <<ByteAt(t, i)>> \o RestOf(t)[i + LengthAt(t, i)]
<1> DEFINE f == RestOf(t)
<1>0. Len(t) \in Nat /\ \A i \in 1 .. Len(t) : t[i] \in 1 .. 255
  BY TextIs
<1>1. (\A i \in 1 .. Len(t) + 1 : f[i] = UriRest(t, i, f)) /\ UriBytes(t) = f[1]
  <2>1. \E g : (\A i \in 1 .. Len(t) + 1 : g[i] = UriRest(t, i, g)) /\ UriBytes(t) = g[1]
    BY <1>0, RestsExist
  <2> QED
    BY <2>1, Zenon DEF RestOf
<1> HIDE DEF f
<1>2. f[Len(t) + 1] = << >>
  <2>1. Len(t) + 1 \in 1 .. Len(t) + 1 /\ Len(t) + 1 > Len(t) /\ ~(Len(t) + 1 <= Len(t))
    BY <1>0
  <2> QED
    BY <1>1, <2>1, Zenon DEF UriRest
<1>3. ASSUME NEW i \in 1 .. Len(t)
      PROVE  /\ LengthAt(t, i) \in 1 .. Len(t) + 1 - i /\ ByteAt(t, i) \in Int
             /\ f[i] = <<ByteAt(t, i)>> \o f[i + LengthAt(t, i)]
  <2>1. i \in 1 .. Len(t) + 1 /\ ~(i > Len(t)) /\ i <= Len(t) /\ t[i] \in Int
    <3>1. \A ch \in 1 .. 255 : ch \in Int
      OBVIOUS
    <3>2. t[i] \in Int
      BY <1>0, <3>1, Zenon
    <3> QED
      BY <1>0, <3>2
  <2>2. f[i] = UriRest(t, i, f)
    BY <1>1, <2>1
  <2>3. CASE IsByte(t, i)
    <3>1. f[i] = <<16 * Hexed(t, i + 1) + Hexed(t, i + 2)>> \o f[i + 3]
      BY <2>1, <2>2, <2>3, Zenon DEF UriRest
    <3>2. i + 2 <= Len(t) /\ t[i + 1] \in Hex /\ t[i + 2] \in Hex
      BY <2>3 DEF IsByte
    <3>3. Hexed(t, i + 1) \in 0 .. 15 /\ Hexed(t, i + 2) \in 0 .. 15
      BY <3>2, HexIs DEF Hexed
    <3>4. LengthAt(t, i) = 3 /\ ByteAt(t, i) = 16 * Hexed(t, i + 1) + Hexed(t, i + 2)
      BY <2>3 DEF LengthAt, ByteAt
    <3>5. /\ 3 \in 1 .. Len(t) + 1 - i
          /\ 16 * Hexed(t, i + 1) + Hexed(t, i + 2) \in Int
      <4> DEFINE x == Hexed(t, i + 1)
                 y == Hexed(t, i + 2)
      <4>1. x \in 0 .. 15 /\ y \in 0 .. 15
        BY <3>3
      <4> HIDE DEF x, y
      <4>2. 16 * x + y \in Int /\ 3 \in 1 .. Len(t) + 1 - i
        BY <1>0, <3>2, <4>1
      <4> QED
        BY <4>2 DEF x, y
    <3> QED
      BY <3>1, <3>4, <3>5, Zenon
  <2>4. CASE ~IsByte(t, i)
    <3>1. f[i] = <<t[i]>> \o f[i + 1]
      BY <2>1, <2>2, <2>4, Zenon DEF UriRest
    <3>4. LengthAt(t, i) = 1 /\ ByteAt(t, i) = t[i]
      BY <2>4 DEF LengthAt, ByteAt
    <3> QED
      BY <1>0, <2>1, <3>1, <3>4
  <2> QED
    BY <2>3, <2>4
<1> QED
  BY <1>1, <1>2, <1>3 DEF f

\* A rest is a sequence of bytes, no longer than the characters it is made of.
LEMMA RestsAreSequences ==
  ASSUME NEW t \in Texts, NEW i \in 1 .. Len(t) + 1
  PROVE  RestOf(t)[i] \in Seq(Int)
<1> DEFINE f == RestOf(t)
           L == Len(t)
           S == {m \in Nat : \A k \in 1 .. L + 1 : k >= L + 1 - m => f[k] \in Seq(Int)}
<1>0. L \in Nat
  BY TextIs
<1>1. f[L + 1] \in Seq(Int)
  <2>1. RestOf(t)[Len(t) + 1] = << >>
    BY RestsAre
  <2> QED
    BY <2>1, EmptySeq, Zenon DEF f, L
<1>2. ASSUME NEW k \in 1 .. L
      PROVE  /\ LengthAt(t, k) \in 1 .. L + 1 - k /\ ByteAt(t, k) \in Int
             /\ f[k] = <<ByteAt(t, k)>> \o f[k + LengthAt(t, k)]
  BY RestsAre
<1> HIDE DEF f, L
<1>3. 0 \in S
  BY <1>0, <1>1
<1>4. ASSUME NEW m \in Nat, m \in S
      PROVE  m + 1 \in S
  <2> SUFFICES ASSUME NEW k \in 1 .. L + 1, k >= L + 1 - (m + 1)
               PROVE  f[k] \in Seq(Int)
    OBVIOUS
  <2>1. CASE k = L + 1
    BY <1>1, <2>1
  <2>2. CASE k # L + 1
    <3> DEFINE n == LengthAt(t, k)
               x == ByteAt(t, k)
    <3>1. k \in 1 .. L
      BY <1>0, <2>2
    <3>2. n \in 1 .. L + 1 - k /\ x \in Int /\ f[k] = <<x>> \o f[k + n]
      BY <1>2, <3>1
    <3> HIDE DEF n, x
    <3>3. k + n \in 1 .. L + 1 /\ k + n >= L + 1 - m
      BY <1>0, <3>1, <3>2
    <3>4. f[k + n] \in Seq(Int) /\ <<x>> \in Seq(Int)
      BY <1>4, <3>2, <3>3
    <3>5. <<x>> \o f[k + n] \in Seq(Int)
      BY <3>4, ConcatProperties
    <3> QED
      BY <3>2, <3>5
  <2> QED
    BY <2>1, <2>2
<1>5. L \in S
  <2> HIDE DEF S
  <2> QED  BY <1>0, <1>3, <1>4, CountsThroughNat
<1>6. i \in 1 .. L + 1 /\ i >= L + 1 - L
  BY <1>0 DEF L
<1> QED
  BY <1>5, <1>6 DEF f

\* The bytes written, and the rest of the uri, are the path that is made of it.
InUri(s, r, w, a, t) ==
  /\ s \in [0 .. Len(a \o t) -> Int]
  /\ w \in Len(a) .. r /\ r \in Len(a) .. Len(a \o t)
  /\ Unread(s, r, a \o t)
  /\ Prefix(s, w) \o RestOf(t)[r - Len(a) + 1] = a \o UriBytes(t)

\* A path is a text, in which the uri follows the directory.
LEMMA JoinedIs ==
  ASSUME NEW a \in Texts, NEW t \in Texts
  PROVE  /\ a \o t \in Texts /\ Len(a) \in Nat /\ Len(t) \in Nat
         /\ Len(a \o t) = Len(a) + Len(t)
         /\ \A k \in 1 .. Len(a) : (a \o t)[k] = a[k]
         /\ \A k \in 1 .. Len(t) : (a \o t)[Len(a) + k] = t[k]
<1>0. Len(a) \in Nat /\ Len(t) \in Nat
  BY TextIs
<1>1. /\ a \o t \in Texts /\ Len(a \o t) = Len(a) + Len(t)
      /\ \A i \in 1 .. Len(a) + Len(t) :
           (a \o t)[i] = IF i <= Len(a) THEN a[i] ELSE t[i - Len(a)]
  BY ConcatProperties DEF Texts
<1>2. ASSUME NEW k \in 1 .. Len(a)
      PROVE  (a \o t)[k] = a[k]
  <2>1. k \in 1 .. Len(a) + Len(t) /\ k <= Len(a)
    BY <1>0
  <2> QED
    BY <1>1, <2>1, Zenon
<1>3. ASSUME NEW k \in 1 .. Len(t)
      PROVE  (a \o t)[Len(a) + k] = t[k]
  <2>1. Len(a) + k \in 1 .. Len(a) + Len(t) /\ ~(Len(a) + k <= Len(a))
        /\ (Len(a) + k) - Len(a) = k
    BY <1>0
  <2> QED
    BY <1>1, <2>1, Zenon
<1> QED
  BY <1>0, <1>1, <1>2, <1>3

\* So it is before the first round.
LEMMA UriBegins ==
  ASSUME NEW a \in Texts, NEW t \in Texts
  PROVE  InUri(CString(a \o t), Len(a), Len(a), a, t)
<1> DEFINE g == a \o t
           s == CString(g)
           d == Len(a)
<1>0. /\ g \in Texts /\ d \in Nat /\ Len(t) \in Nat /\ Len(g) = d + Len(t) /\ Len(g) \in Nat
      /\ \A k \in 1 .. d : g[k] = a[k]
  BY JoinedIs, TextIs
<1> HIDE DEF g
<1>1. s \in [0 .. Len(g) -> Int] /\ \A k \in 0 .. Len(g) - 1 : s[k] = g[k + 1]
  BY <1>0, CStringIs
<1>2. Unread(s, d, g)
  BY DEF Unread
<1> HIDE DEF s
<1>3. Prefix(s, d) = a
  <2> DEFINE p == Prefix(s, d)
  <2>1. d \in 0 .. Len(g)
    BY <1>0
  <2>2. p \in Seq(Int) /\ Len(p) = d /\ \A m \in 1 .. d : p[m] = s[m - 1]
    BY <1>0, <1>1, <2>1, PrefixOf, Zenon
  <2>3. a \in Seq(Int)
    BY TextIs
  <2>4. ASSUME NEW m \in 1 .. d
        PROVE  p[m] = a[m]
    <3>1. m - 1 \in 0 .. Len(g) - 1 /\ m - 1 + 1 = m
      BY <1>0
    <3>2. s[m - 1] = g[m]
      BY <1>1, <3>1
    <3> QED
      BY <1>0, <2>2, <3>2
  <2> HIDE DEF p
  <2>5. p = a
    BY <2>2, <2>3, <2>4, SeqEqual
  <2> QED
    BY <2>5 DEF p
<1>4. RestOf(t)[d - d + 1] = UriBytes(t)
  <2>1. d - d + 1 = 1
    BY <1>0
  <2> QED
    BY <2>1, RestsAre
<1>5. d \in d .. d /\ d \in d .. Len(g)
  BY <1>0
<1>6. InUri(s, d, d, a, t)
  BY <1>1, <1>2, <1>3, <1>4, <1>5 DEF InUri, g
<1> QED
  BY <1>6 DEF g, s, d

\* A string is read as long as the characters that are given to Hex are not its NUL.
LEMMA EscapedIs ==
  ASSUME NEW a \in Texts, NEW t \in Texts, NEW s, NEW r \in Len(a) .. Len(a \o t) - 1,
         Unread(s, r, a \o t)
  PROVE  LET i == r - Len(a) + 1
         IN  /\ i \in 1 .. Len(t) /\ s[r] = t[i]
             /\ Escaped(s, r) <=> IsByte(t, i)
             /\ IsByte(t, i) => s[r + 1] = t[i + 1] /\ s[r + 2] = t[i + 2]
<1> DEFINE i == r - Len(a) + 1
           g == a \o t
           d == Len(a)
<1>0. /\ g \in Texts /\ d \in Nat /\ Len(t) \in Nat /\ Len(g) = d + Len(t)
      /\ \A k \in 1 .. Len(t) : g[d + k] = t[k]
  BY JoinedIs
<1> HIDE DEF g, d
<1>1. r \in d .. Len(g) - 1 /\ i = r - d + 1 /\ Unread(s, r, g)
  BY DEF g, d
<1> HIDE DEF i
<1>2. i \in 1 .. Len(t) /\ r = d + i - 1
  BY <1>0, <1>1
<1>3. ASSUME NEW m \in 0 .. 2, i + m <= Len(t)
      PROVE  s[r + m] = t[i + m]
  <2>1. r + m \in 0 .. Len(g) - 1 /\ r + m \in r .. Len(g) /\ r + m + 1 = d + (i + m)
        /\ i + m \in 1 .. Len(t)
    BY <1>0, <1>1, <1>2, <1>3
  <2>2. s[r + m] = CString(g)[r + m]
    BY <1>1, <2>1 DEF Unread
  <2>3. CString(g)[r + m] = g[r + m + 1]
    BY <1>0, <2>1, CStringIs
  <2> QED
    BY <1>0, <2>1, <2>2, <2>3
<1>4. s[r] = t[i]
  <2>1. r + 0 = r /\ i + 0 = i /\ i + 0 <= Len(t) /\ 0 \in 0 .. 2
    BY <1>0, <1>1, <1>2
  <2> QED
    BY <1>3, <2>1
<1>5. ASSUME i + 2 > Len(t)
      PROVE  ~(s[r + 1] \in Hex /\ s[r + 2] \in Hex)
  <2>1. r + 1 = Len(g) \/ r + 2 = Len(g)
    <3> DEFINE n == Len(g)
               m == Len(t)
    <3>1. d \in Nat /\ m \in Nat /\ n = d + m /\ r \in d .. n - 1 /\ i = r - d + 1 /\ i + 2 > m
      BY <1>0, <1>1, <1>5
    <3> HIDE DEF n, m
    <3>2. r + 1 = n \/ r + 2 = n
      BY <3>1
    <3> QED
      BY <3>2 DEF n
  <2>2. s[Len(g)] = NUL
    <3>1. Len(g) \in r .. Len(g)
      BY <1>0, <1>1
    <3> QED
      BY <1>0, <1>1, <3>1, CStringIs DEF Unread
  <2>3. NUL \notin Hex
    BY ZeroIsNone DEF NUL
  <2> QED
    BY <2>1, <2>2, <2>3
<1>6. i + 2 <= Len(t) => s[r + 1] = t[i + 1] /\ s[r + 2] = t[i + 2]
  <2> SUFFICES ASSUME i + 2 <= Len(t)
               PROVE  s[r + 1] = t[i + 1] /\ s[r + 2] = t[i + 2]
    OBVIOUS
  <2>1. i + 1 <= Len(t) /\ 1 \in 0 .. 2 /\ 2 \in 0 .. 2
    BY <1>0, <1>2
  <2> QED
    BY <1>3, <2>1
<1>7. i + 2 <= Len(t) \/ i + 2 > Len(t)
  BY <1>0, <1>2
<1>8. Escaped(s, r) <=> IsByte(t, i)
  BY <1>4, <1>5, <1>6, <1>7 DEF Escaped, IsByte
<1>9. IsByte(t, i) => s[r + 1] = t[i + 1] /\ s[r + 2] = t[i + 2]
  BY <1>6 DEF IsByte
<1> QED
  BY <1>2, <1>4, <1>8, <1>9 DEF i, d

\* A round: one character, or an escape, is one byte.
ByteRead(s, r) ==
  IF Escaped(s, r) THEN 16 * cgltf_unhex(s[r + 1]) + cgltf_unhex(s[r + 2]) ELSE s[r]

LEMMA UriRound ==
  ASSUME NEW a \in Texts, NEW t \in Texts, NEW s, NEW r, NEW w,
         InUri(s, r, w, a, t), s[r] # NUL
  PROVE  InUri(Put(s, w, <<ByteRead(s, r)>>), r + IF Escaped(s, r) THEN 3 ELSE 1, w + 1, a, t)
<1> DEFINE g == a \o t
           d == Len(a)
           n == Len(g)
           i == r - d + 1
           h == LengthAt(t, i)
           x == ByteAt(t, i)
           s2 == Put(s, w, <<x>>)
           f == RestOf(t)
<1>0. g \in Texts /\ d \in Nat /\ Len(t) \in Nat /\ n = d + Len(t) /\ n \in Nat
  BY JoinedIs, TextIs
<1>1. /\ s \in [0 .. n -> Int] /\ w \in d .. r /\ r \in d .. n /\ Unread(s, r, g)
      /\ Prefix(s, w) \o f[i] = a \o UriBytes(t)
  BY DEF InUri
<1>2. r \in d .. n - 1
  <2>1. r \in r .. Len(g) /\ r \in 0 .. Len(g)
    BY <1>0, <1>1
  <2>2. r # n
    <3> HIDE DEF g
    <3> QED  BY <1>0, <1>1, <2>1, NulIsEnd
  <2>3. r \in d .. n /\ n \in Nat /\ d \in Nat
    BY <1>0, <1>1
  <2> HIDE DEF n, d
  <2> QED
    BY <2>2, <2>3
<1>3. /\ i \in 1 .. Len(t) /\ s[r] = t[i] /\ (Escaped(s, r) <=> IsByte(t, i))
      /\ IsByte(t, i) => s[r + 1] = t[i + 1] /\ s[r + 2] = t[i + 2]
  BY <1>1, <1>2, EscapedIs, Zenon
<1> HIDE DEF i
<1>4. ByteRead(s, r) = x /\ (IF Escaped(s, r) THEN 3 ELSE 1) = h
  BY <1>3, Zenon DEF ByteRead, ByteAt, LengthAt, Hexed
<1>5. h \in 1 .. Len(t) + 1 - i /\ x \in Int /\ f[i] = <<x>> \o f[i + h]
  BY <1>3, RestsAre
<1>6. f[i + h] \in Seq(Int)
  <2>1. i + h \in 1 .. Len(t) + 1
    BY <1>0, <1>3, <1>5
  <2> QED
    BY <2>1, RestsAreSequences
<1> HIDE DEF h, x, f, g
<1>7. <<x>> \in Seq(Int) /\ Len(<<x>>) = 1 /\ <<x>>[1] = x
  BY <1>5
<1>8. /\ w \in Nat /\ w < n /\ r + h \in d .. n /\ w + 1 \in d .. r + h
      /\ (r + h) - d + 1 = i + h
  BY <1>0, <1>1, <1>2, <1>3, <1>5 DEF i
<1>9. /\ s2 \in [0 .. n -> Int]
      /\ \A k \in 0 .. n : k < w \/ k >= w + 1 => s2[k] = s[k]
      /\ s2[w] = x
  <2> DEFINE q == <<x>>
  <2>1. w + Len(q) <= n + 1 /\ Len(q) = 1 /\ q \in Seq(Int)
    BY <1>0, <1>7, <1>8
  <2>2. /\ Put(s, w, q) \in [0 .. n -> Int]
        /\ \A k \in 0 .. n : k < w \/ k >= w + Len(q) => Put(s, w, q)[k] = s[k]
        /\ \A m \in 1 .. Len(q) : Put(s, w, q)[w + m - 1] = q[m]
    <3> HIDE DEF q
    <3> QED  BY <1>0, <1>1, <1>8, <2>1, PutIs
  <2>3. 1 \in 1 .. Len(q) /\ w + 1 - 1 = w /\ q[1] = x
    BY <1>7, <1>8
  <2> HIDE DEF q
  <2> QED
    BY <2>1, <2>2, <2>3 DEF q
<1> HIDE DEF s2
<1>10. Unread(s2, r + h, g)
  <2> SUFFICES ASSUME NEW k \in r + h .. Len(g)
               PROVE  s2[k] = CString(g)[k]
    BY DEF Unread
  <2>1. k \in 0 .. n /\ k >= w + 1 /\ k \in r .. Len(g)
    BY <1>0, <1>1, <1>5
  <2> QED
    BY <1>1, <1>9, <2>1 DEF Unread
<1>11. Prefix(s2, w + 1) = Prefix(s, w) \o <<x>>
  <2> DEFINE p == Prefix(s, w)
             p2 == Prefix(s2, w + 1)
             q == <<x>>
             j == p \o q
  <2>0. w \in 0 .. n /\ w + 1 \in 0 .. n
    BY <1>0, <1>8
  <2>1. p \in Seq(Int) /\ Len(p) = w /\ \A m \in 1 .. w : p[m] = s[m - 1]
    BY <1>0, <1>1, <2>0, PrefixOf, Zenon
  <2>2. p2 \in Seq(Int) /\ Len(p2) = w + 1 /\ \A m \in 1 .. w + 1 : p2[m] = s2[m - 1]
    BY <1>0, <1>9, <2>0, PrefixOf, Zenon
  <2>3. q \in Seq(Int) /\ Len(q) = 1 /\ q[1] = x
    BY <1>7
  <2> HIDE DEF p, p2, q
  <2>4. /\ j \in Seq(Int) /\ Len(j) = w + 1
        /\ \A m \in 1 .. w + 1 : j[m] = IF m <= w THEN p[m] ELSE q[m - w]
    <3>1. /\ j \in Seq(Int) /\ Len(j) = Len(p) + Len(q)
          /\ \A m \in 1 .. Len(p) + Len(q) : j[m] = IF m <= Len(p) THEN p[m] ELSE q[m - Len(p)]
      BY <2>1, <2>3, ConcatProperties, Zenon
    <3>2. Len(p) = w /\ Len(q) = 1
      BY <2>1, <2>3
    <3> QED
      BY <3>1, <3>2, Zenon
  <2> HIDE DEF j
  <2>5. ASSUME NEW m \in 1 .. w + 1
        PROVE  p2[m] = j[m]
    <3>1. CASE m <= w
      <4>1. m \in 1 .. w /\ m - 1 \in 0 .. n /\ m - 1 < w
        BY <1>8, <3>1
      <4> QED
        BY <1>9, <2>1, <2>2, <2>4, <3>1, <4>1
    <3>2. CASE ~(m <= w)
      <4>1. m = w + 1 /\ m - 1 = w /\ m - w = 1
        BY <1>8, <3>2
      <4> QED
        BY <1>9, <2>2, <2>3, <2>4, <3>2, <4>1
    <3> QED
      BY <3>1, <3>2
  <2>6. p2 = j
    BY <2>2, <2>4, <2>5, SeqEqual
  <2> QED
    BY <2>6 DEF p, p2, q, j
<1>12. Prefix(s2, w + 1) \o f[i + h] = a \o UriBytes(t)
  <2> DEFINE p == Prefix(s, w)
             q == <<x>>
             u == f[i + h]
  <2>1. p \in Seq(Int)
    <3>1. w \in 0 .. n
      BY <1>0, <1>8
    <3> QED
      BY <1>0, <1>1, <3>1, PrefixOf, Zenon
  <2>2. q \in Seq(Int) /\ u \in Seq(Int) /\ f[i] = q \o u
    BY <1>5, <1>6, <1>7
  <2>3. Prefix(s2, w + 1) = p \o q /\ p \o f[i] = a \o UriBytes(t)
    BY <1>1, <1>11
  <2> HIDE DEF p, q, u
  <2>4. (p \o q) \o u = p \o (q \o u)
    BY <2>1, <2>2, ConcatAssociative
  <2>5. Prefix(s2, w + 1) \o u = a \o UriBytes(t)
    BY <2>2, <2>3, <2>4, Zenon
  <2> QED
    BY <2>5 DEF u
<1>13. InUri(s2, r + h, w + 1, a, t)
  BY <1>8, <1>9, <1>10, <1>12 DEF InUri, g, d, f
<1> QED
  BY <1>4, <1>13 DEF s2

\* The last round writes the NUL.
LEMMA UriEnds ==
  ASSUME NEW a \in Texts, NEW t \in Texts, NEW s, NEW r, NEW w,
         InUri(s, r, w, a, t), s[r] = NUL
  PROVE  LET done == Put(s, w, <<NUL>>)
         IN  /\ w \in 0 .. Len(a \o t) /\ done[w] = NUL
             /\ Prefix(done, w) = a \o UriBytes(t)
<1> DEFINE g == a \o t
           d == Len(a)
           n == Len(g)
           done == Put(s, w, <<NUL>>)
           f == RestOf(t)
<1>0. g \in Texts /\ d \in Nat /\ Len(t) \in Nat /\ n = d + Len(t) /\ n \in Nat
  BY JoinedIs, TextIs
<1>1. /\ s \in [0 .. n -> Int] /\ w \in d .. r /\ r \in d .. n /\ Unread(s, r, g)
      /\ Prefix(s, w) \o f[r - d + 1] = a \o UriBytes(t)
  BY DEF InUri
<1>2. r = n
  <2>1. r \in r .. Len(g) /\ r \in 0 .. Len(g)
    BY <1>0, <1>1
  <2> HIDE DEF g
  <2> QED  BY <1>0, <1>1, <2>1, NulIsEnd
<1>3. f[r - d + 1] = << >>
  <2>1. r - d + 1 = Len(t) + 1
    BY <1>0, <1>2
  <2> QED
    BY <2>1, RestsAre
<1> HIDE DEF g, f
<1>4. w \in 0 .. n /\ w \in Nat
  BY <1>0, <1>1
<1>5. Prefix(s, w) \in Seq(Int) /\ Len(Prefix(s, w)) = w
      /\ \A m \in 1 .. w : Prefix(s, w)[m] = s[m - 1]
  BY <1>0, <1>1, <1>4, PrefixOf, Zenon
<1>6. Prefix(s, w) = a \o UriBytes(t)
  <2>1. Prefix(s, w) \o << >> = Prefix(s, w)
    BY <1>5, ConcatEmptySeq
  <2> QED
    BY <1>1, <1>3, <2>1, Zenon
<1>7. /\ done \in [0 .. n -> Int]
      /\ \A k \in 0 .. n : k < w => done[k] = s[k]
      /\ done[w] = NUL
  <2> DEFINE q == <<NUL>>
  <2>1. w + Len(q) <= n + 1 /\ Len(q) = 1 /\ q \in Seq(Int) /\ q[1] = NUL
    BY <1>0, <1>4 DEF NUL
  <2>2. /\ Put(s, w, q) \in [0 .. n -> Int]
        /\ \A k \in 0 .. n : k < w \/ k >= w + Len(q) => Put(s, w, q)[k] = s[k]
        /\ \A m \in 1 .. Len(q) : Put(s, w, q)[w + m - 1] = q[m]
    <3> HIDE DEF q
    <3> QED  BY <1>0, <1>1, <1>4, <2>1, PutIs
  <2>3. 1 \in 1 .. Len(q) /\ w + 1 - 1 = w
    BY <1>4, <2>1
  <2> HIDE DEF q
  <2> QED
    BY <2>1, <2>2, <2>3 DEF q
<1> HIDE DEF done
<1>8. Prefix(done, w) = Prefix(s, w)
  <2>1. /\ Prefix(done, w) \in Seq(Int) /\ Len(Prefix(done, w)) = w
        /\ \A m \in 1 .. w : Prefix(done, w)[m] = done[m - 1]
    BY <1>0, <1>4, <1>7, PrefixOf, Zenon
  <2>2. ASSUME NEW m \in 1 .. w
        PROVE  Prefix(done, w)[m] = Prefix(s, w)[m]
    <3>1. m - 1 \in 0 .. n /\ m - 1 < w
      BY <1>0, <1>4
    <3> QED
      BY <1>5, <1>7, <2>1, <3>1
  <2> QED
    BY <1>5, <2>1, <2>2, SeqEqual
<1> QED
  BY <1>4, <1>6, <1>7, <1>8 DEF done, g

--------------------------------------------------------------------------------
(* cgltf_load_buffer_base64.                                               *)

\* Its bits that are no byte yet are the last ones of the characters read.
Held(v, bits, high, low) ==
  /\ bits = 2  => v % 4 = low % 4
  /\ bits = 4  => v % 16 = low % 16
  /\ bits = 6  => v % 64 = low
  /\ bits = 8  => v % 256 = (high % 4) * 64 + low
  /\ bits = 10 => v % 1024 = (high % 16) * 64 + low
  /\ bits = 12 => v % 4096 = high * 64 + low

\* An unsigned int loses only bits that are no longer needed.
LEMMA UintIs ==
  ASSUME NEW y \in Nat
  PROVE  /\ y % Uint \in Nat
         /\ \E z \in Int : y % Uint = y - 16384 * z
<1> DEFINE u == Uint \div 16384
           q == y \div Uint
<1>1. Uint \in Nat \ {0} /\ Uint % 16384 = 0
  BY UintAssumption
<1>2. u \in Int /\ Uint = 16384 * u
  BY <1>1
<1>3. q \in Int /\ y = Uint * q + (y % Uint) /\ y % Uint \in Nat
  BY <1>1
<1> HIDE DEF u, q
<1>4. u * q \in Int /\ Uint * q = 16384 * (u * q)
  BY <1>2, <1>3
<1>5. y % Uint = y - 16384 * (u * q)
  BY <1>1, <1>3, <1>4
<1> QED
  BY <1>3, <1>4, <1>5

LEMMA Modulo64 ==
  ASSUME NEW k \in Int, NEW m \in Int, 0 <= m, m < 64
  PROVE  (64 * k + m) % 64 = m
OBVIOUS

LEMMA Modulo256 ==
  ASSUME NEW k \in Int, NEW m \in Int, 0 <= m, m < 256
  PROVE  (256 * k + m) % 256 = m
OBVIOUS

LEMMA Modulo1024 ==
  ASSUME NEW k \in Int, NEW m \in Int, 0 <= m, m < 1024
  PROVE  (1024 * k + m) % 1024 = m
OBVIOUS

LEMMA Modulo4096 ==
  ASSUME NEW k \in Int, NEW m \in Int, 0 <= m, m < 4096
  PROVE  (4096 * k + m) % 4096 = m
OBVIOUS

\* One more character is six more bits.
LEMMA ReadHeld ==
  ASSUME NEW v \in Nat, NEW bits \in {0, 2, 4, 6}, NEW high, NEW low, NEW x \in 0 .. 63,
         bits = 0 \/ low \in 0 .. 63, Held(v, bits, high, low)
  PROVE  /\ (v * 64 + x) % Uint \in Nat
         /\ Held((v * 64 + x) % Uint, bits + 6, low, x)
<1> DEFINE y == v * 64 + x
           w == y % Uint
<1>0. x \in Int /\ 0 <= x /\ x < 64
  OBVIOUS
<1>1. y \in Nat
  BY <1>0
<1>2. PICK z \in Int : w = y - 16384 * z
  BY <1>1, UintIs
<1>3. w \in Nat
  BY <1>1, UintIs
<1>4. w = v * 64 + x - 16384 * z
  BY <1>2
<1> HIDE DEF y, w
<1>5. ASSUME bits = 0
      PROVE  Held(w, bits + 6, low, x)
  <2> DEFINE k == v - 256 * z
  <2>1. k \in Int /\ w = 64 * k + x
    BY <1>0, <1>4
  <2> HIDE DEF k
  <2>2. w % 64 = x
    BY <1>0, <2>1, Modulo64
  <2> QED
    BY <1>5, <2>2 DEF Held
<1>6. ASSUME bits = 2
      PROVE  Held(w, bits + 6, low, x)
  <2> DEFINE q == v \div 4
             m == v % 4
             k == q - 64 * z
             h == m * 64 + x
  <2>1. m = low % 4
    BY <1>6 DEF Held
  <2>2. q \in Int /\ m \in Int /\ 0 <= m /\ m < 4 /\ v = 4 * q + m
    OBVIOUS
  <2> HIDE DEF q, m
  <2>3. k \in Int /\ h \in Int /\ 0 <= h /\ h < 256 /\ w = 256 * k + h
    BY <1>0, <1>4, <2>2
  <2> HIDE DEF k, h
  <2>4. w % 256 = h
    BY <2>3, Modulo256
  <2>5. w % 256 = (low % 4) * 64 + x
    BY <2>1, <2>4 DEF h
  <2> QED
    BY <1>6, <2>5 DEF Held
<1>7. ASSUME bits = 4
      PROVE  Held(w, bits + 6, low, x)
  <2> DEFINE q == v \div 16
             m == v % 16
             k == q - 16 * z
             h == m * 64 + x
  <2>1. m = low % 16
    BY <1>7 DEF Held
  <2>2. q \in Int /\ m \in Int /\ 0 <= m /\ m < 16 /\ v = 16 * q + m
    OBVIOUS
  <2> HIDE DEF q, m
  <2>3. k \in Int /\ h \in Int /\ 0 <= h /\ h < 1024 /\ w = 1024 * k + h
    BY <1>0, <1>4, <2>2
  <2> HIDE DEF k, h
  <2>4. w % 1024 = h
    BY <2>3, Modulo1024
  <2>5. w % 1024 = (low % 16) * 64 + x
    BY <2>1, <2>4 DEF h
  <2> QED
    BY <1>7, <2>5 DEF Held
<1>8. ASSUME bits = 6
      PROVE  Held(w, bits + 6, low, x)
  <2> DEFINE q == v \div 64
             m == v % 64
             k == q - 4 * z
             h == m * 64 + x
  <2>1. m = low
    BY <1>8 DEF Held
  <2>2. q \in Int /\ m \in Int /\ 0 <= m /\ m < 64 /\ v = 64 * q + m
    OBVIOUS
  <2> HIDE DEF q, m
  <2>3. k \in Int /\ h \in Int /\ 0 <= h /\ h < 4096 /\ w = 4096 * k + h
    BY <1>0, <1>4, <2>2
  <2> HIDE DEF k, h
  <2>4. w % 4096 = h
    BY <2>3, Modulo4096
  <2>5. w % 4096 = low * 64 + x
    BY <2>1, <2>4 DEF h
  <2> QED
    BY <1>8, <2>5 DEF Held
<1>9. w \in Nat /\ Held(w, bits + 6, low, x)
  BY <1>3, <1>5, <1>6, <1>7, <1>8
<1> QED
  BY <1>9 DEF w, y

\* A byte written is eight bits less.
LEMMA WriteHeld ==
  ASSUME NEW v \in Nat, NEW bits \in {8, 10, 12}, NEW high \in 0 .. 63, NEW low \in 0 .. 63,
         Held(v, bits, high, low)
  PROVE  /\ Held(v, bits - 8, high, low)
         /\ bits = 12 => TopByte(v, bits) = high * 4 + low \div 16
         /\ bits = 10 => TopByte(v, bits) = (high % 16) * 16 + low \div 4
         /\ bits = 8 => TopByte(v, bits) = (high % 4) * 64 + low
         /\ TopByte(v, bits) \in Int
<1>0. Power2[1] = 1 /\ Power2[3] = 4 /\ Power2[5] = 16
  BY DEF Power2
<1>1. CASE bits = 8
  <2>1. v % 256 = (high % 4) * 64 + low
    BY <1>1 DEF Held
  <2>2. bits - 7 = 1
    BY <1>1
  <2>3. TopByte(v, bits) = (v \div 1) % 256
    BY <1>0, <2>2 DEF TopByte
  <2>4. (v \div 1) % 256 = v % 256
    OBVIOUS
  <2>5. Held(v, bits - 8, high, low)
    BY <1>1 DEF Held
  <2> QED
    BY <1>1, <2>1, <2>3, <2>4, <2>5
<1>2. CASE bits = 10
  <2>1. v % 1024 = (high % 16) * 64 + low
    BY <1>2 DEF Held
  <2>2. bits - 7 = 3
    BY <1>2
  <2>3. TopByte(v, bits) = (v \div 4) % 256
    BY <1>0, <2>2 DEF TopByte
  <2>4. (v \div 4) % 256 = (v % 1024) \div 4 /\ v % 4 = (v % 1024) % 4
    OBVIOUS
  <2>5. ((high % 16) * 64 + low) \div 4 = (high % 16) * 16 + low \div 4
    OBVIOUS
  <2>6. v % 4 = low % 4
    BY <2>1, <2>4
  <2>7. Held(v, bits - 8, high, low)
    BY <1>2, <2>6 DEF Held
  <2>8. TopByte(v, bits) = (high % 16) * 16 + low \div 4
    BY <2>1, <2>3, <2>4, <2>5
  <2> QED
    BY <1>2, <2>7, <2>8
<1>3. CASE bits = 12
  <2>1. v % 4096 = high * 64 + low
    BY <1>3 DEF Held
  <2>2. bits - 7 = 5
    BY <1>3
  <2>3. TopByte(v, bits) = (v \div 16) % 256
    BY <1>0, <2>2 DEF TopByte
  <2>4. (v \div 16) % 256 = (v % 4096) \div 16 /\ v % 16 = (v % 4096) % 16
    OBVIOUS
  <2>5. (high * 64 + low) \div 16 = high * 4 + low \div 16
    OBVIOUS
  <2>6. v % 16 = low % 16
    BY <2>1, <2>4
  <2>7. Held(v, bits - 8, high, low)
    BY <1>3, <2>6 DEF Held
  <2>8. TopByte(v, bits) = high * 4 + low \div 16
    BY <2>1, <2>3, <2>4, <2>5
  <2> QED
    BY <1>3, <2>7, <2>8
<1> QED
  BY <1>1, <1>2, <1>3

\* What a character of base64 is, and that the NUL is none.
LEMMA IndexIs == \A ch : Index(ch) \in -1 .. 63
<1> SUFFICES ASSUME NEW ch
             PROVE  Index(ch) \in -1 .. 63
  OBVIOUS
<1>1. CASE ch \in 65 .. 90
  BY <1>1 DEF Index
<1>2. CASE ch \in 97 .. 122
  BY <1>2 DEF Index
<1>3. CASE ch \in 48 .. 57
  BY <1>3 DEF Index
<1>4. CASE ch \notin 65 .. 90 /\ ch \notin 97 .. 122 /\ ch \notin 48 .. 57
  BY <1>4 DEF Index
<1> QED
  BY <1>1, <1>2, <1>3, <1>4

LEMMA NulIsNoIndex == Index(NUL) < 0
  BY DEF Index, NUL

\* The characters read are the bytes written and the bits held.
InBase64(t, r, v, bits, out) ==
  /\ r \in 0 .. Len(t) /\ bits \in {0, 2, 4, 6, 8, 10, 12}
  /\ out \in Seq(Int) /\ 6 * r = 8 * Len(out) + bits
  /\ \A k \in 1 .. r : Index(t[k]) >= 0
  /\ \A k \in 1 .. Len(out) : out[k] = Base64Byte(t, k - 1)
  /\ v \in Nat /\ Held(v, bits, Index(t[r - 1]), Index(t[r]))

\* So it is before the first character.
LEMMA Base64Begins ==
  ASSUME NEW t \in Texts
  PROVE  InBase64(t, 0, 0, 0, << >>)
<1>1. Len(t) \in Nat
  BY TextIs
<1>2. << >> \in Seq(Int) /\ Len(<< >>) = 0
  OBVIOUS
<1>3. Held(0, 0, Index(t[0 - 1]), Index(t[0]))
  BY DEF Held
<1> QED
  BY <1>1, <1>2, <1>3 DEF InBase64

\* And behind each character that is read,
LEMMA CharacterIsRead ==
  ASSUME NEW t \in Texts, NEW r, NEW v, NEW bits, NEW out,
         InBase64(t, r, v, bits, out), bits < 8, Index(CString(t)[r]) >= 0
  PROVE  InBase64(t, r + 1, (v * 64 + Index(CString(t)[r])) % Uint, bits + 6, out)
<1> DEFINE x == Index(t[r + 1])
           low == Index(t[r])
           high == Index(t[r - 1])
<1>0. Len(t) \in Nat
  BY TextIs
<1>1. /\ r \in 0 .. Len(t) /\ bits \in {0, 2, 4, 6, 8, 10, 12} /\ v \in Nat
      /\ out \in Seq(Int) /\ 6 * r = 8 * Len(out) + bits
      /\ \A k \in 1 .. r : Index(t[k]) >= 0
      /\ \A k \in 1 .. Len(out) : out[k] = Base64Byte(t, k - 1)
      /\ Held(v, bits, high, low)
  BY DEF InBase64
<1>2. Len(out) \in Nat
  BY <1>1, LenProperties
<1>3. r # Len(t)
  BY CStringIs, NulIsNoIndex
<1>4. r \in 0 .. Len(t) - 1
  BY <1>0, <1>1, <1>3
<1>5. CString(t)[r] = t[r + 1]
  BY <1>4, CStringIs
<1>6. x >= 0 /\ x \in 0 .. 63
  BY <1>5, IndexIs
<1>7. bits \in {0, 2, 4, 6}
  BY <1>1
<1>8. bits = 0 \/ low \in 0 .. 63
  <2> SUFFICES ASSUME bits # 0
               PROVE  low \in 0 .. 63
    OBVIOUS
  <2>1. r \in 1 .. r
    BY <1>0, <1>1, <1>2
  <2>2. Index(t[r]) >= 0
    BY <1>1, <2>1
  <2> QED
    BY <2>2, IndexIs
<1> DEFINE w == (v * 64 + x) % Uint
<1> HIDE DEF x, low, high
<1>9. w \in Nat /\ Held(w, bits + 6, low, x)
  BY <1>1, <1>6, <1>7, <1>8, ReadHeld
<1> HIDE DEF w
<1>10. ASSUME NEW k \in 1 .. r + 1
       PROVE  Index(t[k]) >= 0
  <2>1. CASE k = r + 1
    BY <1>6, <2>1 DEF x
  <2>2. CASE k # r + 1
    <3>1. k \in 1 .. r
      BY <1>0, <1>1, <2>2
    <3> QED
      BY <1>1, <3>1
  <2> QED
    BY <2>1, <2>2
<1>11. /\ r + 1 \in 0 .. Len(t) /\ bits + 6 \in {0, 2, 4, 6, 8, 10, 12}
       /\ 6 * (r + 1) = 8 * Len(out) + (bits + 6)
  BY <1>0, <1>1, <1>2, <1>4, <1>7
<1>12. (r + 1) - 1 = r
  BY <1>1
<1>13. InBase64(t, r + 1, w, bits + 6, out)
  BY <1>1, <1>9, <1>10, <1>11, <1>12 DEF InBase64, x, low
<1> QED
  BY <1>5, <1>13 DEF w, x

\* The byte that the bits are for.
LEMMA ByteIs ==
  ASSUME NEW t, NEW r \in Nat, NEW n \in Nat, NEW bits \in {8, 10, 12},
         6 * r = 8 * n + bits
  PROVE  LET high == Index(t[r - 1])
             low  == Index(t[r])
         IN  /\ bits = 12 => Base64Byte(t, n) = high * 4 + low \div 16
             /\ bits = 10 => Base64Byte(t, n) = (high % 16) * 16 + low \div 4
             /\ bits = 8 => Base64Byte(t, n) = (high % 4) * 64 + low
<1> DEFINE first == 4 * (n \div 3) + (n % 3) + 1
<1>1. PICK q \in Int, m \in {0, 1, 2} : n = 3 * q + m
  <2> DEFINE q == n \div 3
             m == n % 3
  <2>1. q \in Int /\ m \in {0, 1, 2} /\ n = 3 * q + m
    OBVIOUS
  <2> QED
    BY <2>1
<1>2. n \div 3 = q /\ n % 3 = m
  BY <1>1
<1>3. /\ bits = 12 <=> m = 0
      /\ bits = 10 <=> m = 1
      /\ bits = 8 <=> m = 2
  BY <1>1
<1>4. 4 * q + m + 1 = r - 1 /\ 4 * q + m + 1 + 1 = r
  BY <1>1, <1>3
<1>5. first = r - 1 /\ first + 1 = r
  BY <1>2, <1>4
<1>6. Base64Byte(t, n) =
        LET high == Index(t[first])
            low  == Index(t[first + 1])
        IN  CASE n % 3 = 0 -> high * 4 + low \div 16
              [] n % 3 = 1 -> (high % 16) * 16 + low \div 4
              [] OTHER     -> (high % 4) * 64 + low
  BY Zenon DEF Base64Byte
<1> HIDE DEF first
<1> DEFINE high == Index(t[r - 1])
           low  == Index(t[r])
<1>7. Base64Byte(t, n) = CASE m = 0 -> high * 4 + low \div 16
                           [] m = 1 -> (high % 16) * 16 + low \div 4
                           [] OTHER -> (high % 4) * 64 + low
  BY <1>2, <1>5, <1>6
<1> HIDE DEF high, low
<1>8. /\ bits = 12 => Base64Byte(t, n) = high * 4 + low \div 16
      /\ bits = 10 => Base64Byte(t, n) = (high % 16) * 16 + low \div 4
      /\ bits = 8 => Base64Byte(t, n) = (high % 4) * 64 + low
  BY <1>1, <1>3, <1>7
<1> QED
  BY <1>8 DEF high, low

\* and behind each byte that is written.
LEMMA ByteIsWritten ==
  ASSUME NEW t \in Texts, NEW r, NEW v, NEW bits, NEW out,
         InBase64(t, r, v, bits, out), bits >= 8
  PROVE  InBase64(t, r, v, bits - 8, Append(out, TopByte(v, bits)))
         /\ Len(Append(out, TopByte(v, bits))) = Len(out) + 1
<1> DEFINE low == Index(t[r])
           high == Index(t[r - 1])
           n == Len(out)
           byte == TopByte(v, bits)
           more == Append(out, byte)
<1>0. Len(t) \in Nat
  BY TextIs
<1>1. /\ r \in 0 .. Len(t) /\ bits \in {0, 2, 4, 6, 8, 10, 12} /\ v \in Nat
      /\ out \in Seq(Int) /\ 6 * r = 8 * n + bits
      /\ \A k \in 1 .. r : Index(t[k]) >= 0
      /\ \A k \in 1 .. n : out[k] = Base64Byte(t, k - 1)
      /\ Held(v, bits, high, low)
  BY DEF InBase64
<1>2. n \in Nat
  BY <1>1, LenProperties
<1>3. bits \in {8, 10, 12}
  BY <1>1
<1>4. r \in 1 .. r /\ r - 1 \in 1 .. r /\ r \in Nat
  BY <1>0, <1>1, <1>2, <1>3
<1>5. high \in 0 .. 63 /\ low \in 0 .. 63
  <2>1. high >= 0 /\ low >= 0
    BY <1>1, <1>4
  <2> QED
    BY <2>1, IndexIs
<1>6. /\ bits = 12 => Base64Byte(t, n) = high * 4 + low \div 16
      /\ bits = 10 => Base64Byte(t, n) = (high % 16) * 16 + low \div 4
      /\ bits = 8 => Base64Byte(t, n) = (high % 4) * 64 + low
  BY <1>1, <1>2, <1>3, <1>4, ByteIs
<1> HIDE DEF high, low, byte
<1>7. /\ Held(v, bits - 8, high, low) /\ byte \in Int
      /\ bits = 12 => byte = high * 4 + low \div 16
      /\ bits = 10 => byte = (high % 16) * 16 + low \div 4
      /\ bits = 8 => byte = (high % 4) * 64 + low
  <2>1. v \in Nat /\ Held(v, bits, high, low)
    BY <1>1
  <2>2. Held(v, bits - 8, high, low) /\ TopByte(v, bits) \in Int
    BY <1>3, <1>5, <2>1, WriteHeld
  <2>3. bits = 12 => TopByte(v, bits) = high * 4 + low \div 16
    BY <1>3, <1>5, <2>1, WriteHeld
  <2>4. bits = 10 => TopByte(v, bits) = (high % 16) * 16 + low \div 4
    BY <1>3, <1>5, <2>1, WriteHeld
  <2>5. bits = 8 => TopByte(v, bits) = (high % 4) * 64 + low
    BY <1>3, <1>5, <2>1, WriteHeld
  <2> QED
    BY <2>2, <2>3, <2>4, <2>5, Zenon DEF byte
<1>8. byte = Base64Byte(t, n)
  BY <1>3, <1>6, <1>7
<1>9. /\ more \in Seq(Int) /\ Len(more) = n + 1
      /\ \A k \in 1 .. n : more[k] = out[k]
      /\ more[n + 1] = byte
  BY <1>1, <1>7, AppendProperties
<1> HIDE DEF more, n
<1>10. ASSUME NEW k \in 1 .. Len(more)
       PROVE  more[k] = Base64Byte(t, k - 1)
  <2>1. CASE k = n + 1
    <3>1. k - 1 = n
      BY <1>2, <2>1
    <3> QED
      BY <1>8, <1>9, <2>1, <3>1
  <2>2. CASE k # n + 1
    <3>1. k \in 1 .. n
      BY <1>2, <1>9, <2>2
    <3> QED
      BY <1>1, <1>9, <3>1
  <2> QED
    BY <2>1, <2>2
<1>11. /\ bits - 8 \in {0, 2, 4, 6, 8, 10, 12}
       /\ 6 * r = 8 * Len(more) + (bits - 8)
  BY <1>1, <1>2, <1>3, <1>9
<1>12. InBase64(t, r, v, bits - 8, more)
  BY <1>1, <1>7, <1>9, <1>10, <1>11 DEF InBase64, high, low
<1> QED
  BY <1>9, <1>12 DEF more, byte, n

\* What is written needs no more than what is read,
LEMMA EnoughIsRead ==
  ASSUME NEW t \in Texts, NEW r, NEW v, NEW bits, NEW out, InBase64(t, r, v, bits, out)
  PROVE  /\ Needed(Len(out)) <= Len(t)
         /\ \A i \in 1 .. Needed(Len(out)) : Index(t[i]) >= 0
         /\ out = [i \in 1 .. Len(out) |-> Base64Byte(t, i - 1)]
<1> DEFINE n == Len(out)
<1>0. Len(t) \in Nat
  BY TextIs
<1>1. /\ r \in 0 .. Len(t) /\ bits \in {0, 2, 4, 6, 8, 10, 12}
      /\ out \in Seq(Int) /\ 6 * r = 8 * n + bits
      /\ \A k \in 1 .. r : Index(t[k]) >= 0
      /\ \A k \in 1 .. n : out[k] = Base64Byte(t, k - 1)
  BY DEF InBase64
<1>2. n \in Nat /\ out \in [1 .. n -> Int]
  BY <1>1, LenProperties
<1>3. Needed(n) \in Int /\ Needed(n) <= r
  BY <1>0, <1>1, <1>2 DEF Needed
<1>4. out = [i \in 1 .. n |-> Base64Byte(t, i - 1)]
  BY <1>1, <1>2
<1> QED
  BY <1>0, <1>1, <1>3, <1>4

\* and a character is only read when a byte needs it.
LEMMA MoreIsNeeded ==
  ASSUME NEW t \in Texts, NEW r, NEW v, NEW bits, NEW out, InBase64(t, r, v, bits, out),
         NEW n \in Nat, Len(out) < n, bits < 8, Index(CString(t)[r]) < 0
  PROVE  ~(/\ Needed(n) <= Len(t)
           /\ \A i \in 1 .. Needed(n) : Index(t[i]) >= 0)
<1>0. Len(t) \in Nat
  BY TextIs
<1>1. /\ r \in 0 .. Len(t) /\ bits \in {0, 2, 4, 6, 8, 10, 12}
      /\ out \in Seq(Int) /\ 6 * r = 8 * Len(out) + bits
  BY DEF InBase64
<1>2. Len(out) \in Nat
  BY <1>1, LenProperties
<1>3. Needed(n) \in Int /\ r + 1 <= Needed(n) /\ r + 1 \in 1 .. Needed(n)
  BY <1>0, <1>1, <1>2 DEF Needed
<1>4. CASE r = Len(t)
  BY <1>0, <1>3, <1>4
<1>5. CASE r # Len(t)
  <2>1. r \in 0 .. Len(t) - 1
    BY <1>0, <1>1, <1>5
  <2>2. CString(t)[r] = t[r + 1]
    BY <2>1, CStringIs
  <2>3. ~(Index(t[r + 1]) >= 0)
    <3> DEFINE x == Index(t[r + 1])
    <3>1. x < 0 /\ x \in -1 .. 63
      BY <2>2, IndexIs
    <3> HIDE DEF x
    <3>2. ~(x >= 0)
      BY <3>1
    <3> QED
      BY <3>2 DEF x
  <2> QED
    BY <1>3, <2>3
<1> QED
  BY <1>4, <1>5

--------------------------------------------------------------------------------
(* The path of a file, and the steps of the decoders.                      *)
LEMMA DirectoryIs ==
  ASSUME NEW base \in Texts
  PROVE  Directory(base) \in Texts
<1> DEFINE slashes == {i \in DOMAIN base : base[i] \in {Slash, Backslash}}
           P(i) == \A j \in slashes : j <= i
<1>0. Len(base) \in Nat /\ slashes \subseteq 1 .. Len(base)
  BY TextIs
<1>1. CASE slashes = {}
  <2>1. Directory(base) = << >>
    BY <1>1, Zenon DEF Directory
  <2> QED
    BY <2>1, EmptySeq, Zenon DEF Texts
<1>2. CASE slashes # {}
  <2> DEFINE T == {k \in Nat : \E i \in slashes : k = Len(base) - i}
             last_ == CHOOSE i \in slashes : P(i)
  <2>7. Directory(base) = SubSeq(base, 1, last_)
    BY <1>2 DEF Directory
  <2> HIDE DEF slashes
  <2>1. PICK i \in slashes : TRUE
    BY <1>2
  <2>2. Len(base) - i \in T
    BY <1>0, <2>1
  <2>3. PICK k \in T : \A u \in T : <<u, k>> \notin Less
    <3>1. T \subseteq Nat /\ T # {}
      BY <2>2
    <3> HIDE DEF T
    <3> QED  BY <3>1, LessIsWellFounded, WFMin
  <2>4. PICK m \in slashes : k = Len(base) - m
    BY <2>3
  <2>5. ASSUME NEW j \in slashes
        PROVE  j <= m
    <3>1. Len(base) - j \in T /\ Len(base) - j \in Nat /\ k \in Nat
      BY <1>0, <2>4
    <3>2. ~(Len(base) - j < k)
      BY <2>3, <3>1 DEF Less
    <3> QED
      BY <1>0, <2>4, <3>2
  <2>6. last_ \in slashes
    <3>1. P(m)
      BY <2>5
    <3> HIDE DEF P
    <3> QED  BY <2>4, <3>1
  <2> HIDE DEF last_
  <2>8. last_ \in 0 .. Len(base)
    BY <1>0, <2>6
  <2> QED
    BY <2>7, <2>8, PrefixIs
<1> QED
  BY <1>1, <1>2

\* The uri is decoded behind the directory.
LEMMA TailIs ==
  ASSUME NEW base \in Texts, NEW uri \in Texts
  PROVE  TailOf(base, uri) = Len(Directory(base))
<1> DEFINE a == Directory(base)
<1>1. a \in Texts
  BY DirectoryIs
<1>2. TailOf(base, uri) = Len(a \o uri) - Len(uri)
  BY DEF TailOf, cgltf_combine_paths
<1> HIDE DEF a
<1>3. Len(a) \in Nat /\ Len(uri) \in Nat /\ Len(a \o uri) = Len(a) + Len(uri)
  BY <1>1, JoinedIs
<1>4. TailOf(base, uri) = Len(a)
  BY <1>2, <1>3
<1> QED
  BY <1>4 DEF a

\* A round of cgltf_decode_string, the last one or one before.
LEMMA StringStep ==
  ASSUME NEW t \in Texts, NEW B, Pieces(t, B),
         InString(string, read, write, last, t, B), decoded = -1, DecodeEscape
  PROVE  \/ decoded' = -1 /\ InString(string', read', write', last', t, B)
         \/ /\ decoded' \in 0 .. Len(t) /\ string'[decoded'] = NUL
            /\ StandsFor(Prefix(string', decoded'), t)
<1> DEFINE run == Run(string, last, read)
           moved == Moved(string, write, last, read)
           end == write + Len(run)
           done == Put(moved, end, <<NUL>>)
           written == Unescaped(moved, read + 1)
           next == read + EscapeLength(moved[read + 1])
           s2 == Put(moved, end, written)
<1>1. IF moved[read] = NUL
        THEN string' = done /\ decoded' = end
        ELSE /\ string' = s2 /\ write' = end + Len(written) /\ last' = next
             /\ read' = NextBackslash(string', next) /\ decoded' = decoded
  BY DEF DecodeEscape, Moved, Run
<1>2. CASE moved[read] = NUL
  <2>1. end \in 0 .. Len(t) /\ done[end] = NUL /\ StandsFor(Prefix(done, end), t)
    BY <1>2, LastRound, Zenon
  <2>2. string' = done /\ decoded' = end
    BY <1>1, <1>2, Zenon
  <2> HIDE DEF done, end
  <2> QED
    BY <2>1, <2>2, Zenon
<1>3. CASE moved[read] # NUL
  <2>1. InString(s2, NextBackslash(s2, next), end + Len(written), next, t, B)
    BY <1>3, EscapeRound, Zenon
  <2>2. /\ string' = s2 /\ write' = end + Len(written) /\ last' = next
        /\ read' = NextBackslash(string', next) /\ decoded' = decoded
    BY <1>1, <1>3, Zenon
  <2> HIDE DEF s2, end, written, next
  <2> QED
    BY <2>1, <2>2, Zenon
<1> QED
  BY <1>2, <1>3, Zenon

\* A round of cgltf_decode_uri.
LEMMA UriStep ==
  ASSUME NEW a \in Texts, NEW t \in Texts,
         InUri(string, read, write, a, t), decoded = -1, DecodeCharacter
  PROVE  \/ decoded' = -1 /\ InUri(string', read', write', a, t)
         \/ /\ decoded' \in 0 .. Len(a \o t) /\ string'[decoded'] = NUL
            /\ Prefix(string', decoded') = a \o UriBytes(t)
<1> DEFINE n == IF Escaped(string, read) THEN 3 ELSE 1
           byte == ByteRead(string, read)
<1>1. CASE string[read] = NUL
  <2> DEFINE done == Put(string, write, <<NUL>>)
  <2>1. write \in 0 .. Len(a \o t) /\ done[write] = NUL /\ Prefix(done, write) = a \o UriBytes(t)
    BY <1>1, UriEnds
  <2>2. string' = done /\ decoded' = write
    BY <1>1 DEF DecodeCharacter
  <2> HIDE DEF done
  <2> QED
    BY <2>1, <2>2, Zenon
<1>2. CASE string[read] # NUL
  <2> DEFINE s2 == Put(string, write, <<byte>>)
  <2>1. InUri(s2, read + n, write + 1, a, t)
    BY <1>2, UriRound, Zenon
  <2>2. string' = s2 /\ write' = write + 1 /\ read' = read + n /\ decoded' = decoded
    BY <1>2 DEF DecodeCharacter, ByteRead
  <2> HIDE DEF s2, n
  <2> QED
    BY <2>1, <2>2, Zenon
<1> QED
  BY <1>1, <1>2, Zenon

--------------------------------------------------------------------------------
Ops == {"loadFile", "decodeString", "decodeUri", "loadBase64"}

\* The call is one of four, with texts for arguments.
CallFits ==
  /\ call \in [op : Ops, base : Texts, text : Texts, size : Nat]
  /\ outcome = "none" \/ stage = "returned"

\* What stands in front of the uri, in memory.
Ahead == IF call.op = "loadFile" THEN Directory(call.base) ELSE << >>

\* What holds at each stage of a call.
AtStart ==
  stage = "start" =>
    decoded = -1 /\ read = 0 /\ buffer64 = 0 /\ buffer_bits = 0 /\ bytes = << >>

InDecoder ==
  stage = "decode" =>
    /\ decoded = -1
    /\ \/ /\ call.op = "decodeString" /\ jsmn_parse_string(call.text) # 0
          /\ InString(string, read, write, last, Given, Begins(call.text))
       \/ /\ call.op \in {"decodeUri", "loadFile"}
          /\ InUri(string, read, write, Ahead, call.text)

InBytes ==
  stage = "base64" =>
    /\ decoded = -1 /\ call.op = "loadBase64" /\ string = CString(call.text)
    /\ InBase64(call.text, read, buffer64, buffer_bits, bytes) /\ Len(bytes) <= call.size

InReader == stage = "read" => call.op = "loadFile"

\* The inductive invariant of the decoders.
Decoding ==
  /\ CallFits /\ AtStart /\ InDecoder /\ InBytes /\ InReader
  /\ DecodedIsGiven /\ BytesAreGiven

\* The empty text, in front of another one.
LEMMA EmptyIsText ==
  /\ << >> \in Texts /\ Len(<< >>) = 0
  /\ \A t \in Texts : << >> \o t = t
  /\ \A b : b \in Seq(Int) => << >> \o b = b
<1>1. << >> \in Texts /\ Len(<< >>) = 0
  BY EmptySeq DEF Texts
<1>2. \A t \in Texts : << >> \o t = t
  BY ConcatEmptySeq DEF Texts
<1>3. \A b : b \in Seq(Int) => << >> \o b = b
  BY ConcatEmptySeq
<1> QED
  BY <1>1, <1>2, <1>3

\* What an invariant of the decoders says of the string they are given.
LEMMA GivenIs ==
  ASSUME CallFits
  PROVE  /\ call.text \in Texts /\ call.base \in Texts /\ call.size \in Nat /\ call.op \in Ops
         /\ Ahead \in Texts
         /\ call.op \in {"decodeUri", "loadFile"} => Given = Ahead \o call.text
         /\ call.op = "decodeString" /\ jsmn_parse_string(call.text) # 0 =>
              Given \in Texts /\ Pieces(Given, Begins(call.text))
<1>1. call.text \in Texts /\ call.base \in Texts /\ call.size \in Nat /\ call.op \in Ops
  BY DEF CallFits
<1>2. Ahead \in Texts
  BY <1>1, DirectoryIs, EmptyIsText DEF Ahead
<1>3. ASSUME call.op = "decodeUri"
      PROVE  Given = Ahead \o call.text
  <2>1. Given = call.text /\ Ahead = << >>
    BY <1>3 DEF Given, Ahead
  <2> QED
    BY <1>1, <2>1, EmptyIsText
<1>4. ASSUME call.op = "loadFile"
      PROVE  Given = Ahead \o call.text
  BY <1>4 DEF Given, Ahead, cgltf_combine_paths
<1>5. ASSUME call.op = "decodeString", jsmn_parse_string(call.text) # 0
      PROVE  Given \in Texts /\ Pieces(Given, Begins(call.text))
  <2>1. Given = SubSeq(call.text, 1, jsmn_parse_string(call.text) - 1)
    BY <1>5 DEF Given
  <2> QED
    BY <1>1, <1>5, <2>1, AcceptedIs
<1> QED
  BY <1>1, <1>2, <1>3, <1>4, <1>5

\* It holds at first, and each step of a call keeps it.
LEMMA LoadInitHolds ==
  ASSUME LoadInit
  PROVE  Decoding
<1>1. call \in [op : Ops, base : Texts, text : Texts, size : Nat]
  <2>1. << >> \in Texts /\ 0 \in Nat
    BY EmptyIsText
  <2>2. ASSUME NEW f \in Files
        PROVE  Call("loadFile", f.base, f.text, 0) \in [op : Ops, base : Texts, text : Texts, size : Nat]
    <3>1. f.base \in Texts /\ f.text \in Texts
      BY LoadAssumption
    <3> QED
      BY <2>1, <3>1 DEF Call, Ops
  <2>3. ASSUME NEW t \in Texts
        PROVE  /\ Call("decodeString", << >>, t, 0) \in [op : Ops, base : Texts, text : Texts, size : Nat]
               /\ Call("decodeUri", << >>, t, 0) \in [op : Ops, base : Texts, text : Texts, size : Nat]
    BY <2>1 DEF Call, Ops
  <2>4. ASSUME NEW e \in Encoded
        PROVE  Call("loadBase64", << >>, e.text, e.size) \in [op : Ops, base : Texts, text : Texts, size : Nat]
    <3>1. e.text \in Texts /\ e.size \in Nat
      BY LoadAssumption
    <3> QED
      BY <2>1, <3>1 DEF Call, Ops
  <2>5. Names \subseteq Texts /\ Uris \subseteq Texts
    BY LoadAssumption
  <2>6. \/ \E f \in Files : call = Call("loadFile", f.base, f.text, 0)
        \/ \E t \in Names : call = Call("decodeString", << >>, t, 0)
        \/ \E t \in Uris : call = Call("decodeUri", << >>, t, 0)
        \/ \E e \in Encoded : call = Call("loadBase64", << >>, e.text, e.size)
    BY Zenon DEF LoadInit
  <2> QED
    BY <2>2, <2>3, <2>4, <2>5, <2>6, Zenon
<1>2. /\ stage = "start" /\ outcome = "none" /\ decoded = -1
      /\ read = 0 /\ buffer64 = 0 /\ buffer_bits = 0 /\ bytes = << >>
  BY Zenon DEF LoadInit
<1> QED
  BY <1>1, <1>2 DEF Decoding, CallFits, AtStart, InDecoder, InBytes, InReader, DecodedIsGiven,
                   BytesAreGiven

\* A step that is none of a decoder's.
LEMMA OthersHold ==
  ASSUME Decoding, UNCHANGED <<stringVars, call>>,
         \/ UNCHANGED <<stage, outcome>>
         \/ stage' = "returned" /\ (call.op = "loadFile" \/ outcome' \notin {"success", "io_error"})
  PROVE  Decoding'
<1>1. UNCHANGED <<string, read, write, last, decoded, buffer64, buffer_bits, bytes, call>>
  BY DEF stringVars, base64Vars
<1>2. Given' = Given /\ Ahead' = Ahead
  BY <1>1 DEF Given, Ahead
<1>3. DecodedIsGiven'
  BY <1>1, <1>2 DEF Decoding, DecodedIsGiven
<1>4. CASE UNCHANGED <<stage, outcome>>
  BY <1>1, <1>2, <1>3, <1>4 DEF Decoding, CallFits, AtStart, InDecoder, InBytes, InReader, BytesAreGiven
<1>5. CASE stage' = "returned" /\ (call.op = "loadFile" \/ outcome' \notin {"success", "io_error"})
  <2>1. CallFits' /\ AtStart' /\ InDecoder' /\ InBytes' /\ InReader'
    BY <1>1, <1>5 DEF Decoding, CallFits, AtStart, InDecoder, InBytes, InReader
  <2>2. BytesAreGiven'
    BY <1>1, <1>5 DEF BytesAreGiven
  <2> QED
    BY <1>3, <2>1, <2>2 DEF Decoding
<1> QED
  BY <1>4, <1>5

LEMMA decodeStringHolds ==
  ASSUME Decoding, decodeString
  PROVE  Decoding'
<1> DEFINE end == jsmn_parse_string(call.text)
<1>1. CASE end = 0
  <2>1. stage' = "returned" /\ outcome' = "invalid_json" /\ UNCHANGED <<stringVars, call>>
    BY <1>1 DEF decodeString, CallReturns
  <2> QED
    BY <2>1, OthersHold
<1>2. CASE end # 0
  <2>0. CallFits /\ call.op = "decodeString" /\ stage = "start"
    BY DEF Decoding, decodeString
  <2>1. Given \in Texts /\ Pieces(Given, Begins(call.text)) /\ Given = SubSeq(call.text, 1, end - 1)
    BY <1>2, <2>0, GivenIs DEF Given
  <2>2. /\ Begin(CString(SubSeq(call.text, 1, end - 1)), 0)
        /\ read' = NextBackslash(string', 0)
        /\ stage' = "decode" /\ UNCHANGED <<outcome, call>>
    BY <1>2, Zenon DEF decodeString
  <2>3. /\ string' = CString(Given) /\ write' = 0 /\ last' = 0 /\ decoded' = -1
        /\ read' = NextBackslash(CString(Given), 0)
    BY <2>1, <2>2, Zenon DEF Begin
  <2>4. Given' = Given /\ call' = call
    BY <2>2 DEF Given
  <2>5. InString(string', read', write', last', Given', Begins(call'.text))
    <3>1. InString(CString(Given), NextBackslash(CString(Given), 0), 0, 0, Given, Begins(call.text))
      BY <2>1, StringBegins
    <3> QED
      BY <2>3, <2>4, <3>1, Zenon
  <2>6. call'.op = "decodeString" /\ jsmn_parse_string(call'.text) # 0
    BY <1>2, <2>0, <2>4
  <2>7. InDecoder'
    BY <2>3, <2>5, <2>6, Zenon DEF InDecoder
  <2>8. outcome = "none" /\ outcome' = "none" /\ stage' = "decode"
    BY <2>0, <2>2 DEF CallFits
  <2>9. CallFits' /\ AtStart' /\ InBytes' /\ InReader' /\ DecodedIsGiven' /\ BytesAreGiven'
    BY <2>0, <2>3, <2>4, <2>8 DEF CallFits, AtStart, InBytes, InReader, DecodedIsGiven, BytesAreGiven
  <2> QED
    BY <2>7, <2>9 DEF Decoding
<1> QED
  BY <1>1, <1>2

\* Both ways to a decoder of uris.
LEMMA UriStarts ==
  ASSUME Decoding, call.op \in {"decodeUri", "loadFile"}, stage = "start",
         Begin(CString(Ahead \o call.text), Len(Ahead)), read' = Len(Ahead),
         stage' = "decode", UNCHANGED <<outcome, call>>
  PROVE  Decoding'
<1>1. CallFits
  BY DEF Decoding
<1>2. Ahead \in Texts /\ call.text \in Texts
  BY <1>1, GivenIs
<1>3. /\ string' = CString(Ahead \o call.text) /\ write' = Len(Ahead) /\ decoded' = -1
      /\ Ahead' = Ahead /\ call' = call
  BY DEF Begin, Ahead
<1>4. InUri(string', read', write', Ahead', call'.text)
  <2>1. InUri(CString(Ahead \o call.text), Len(Ahead), Len(Ahead), Ahead, call.text)
    BY <1>2, UriBegins
  <2>2. read' = Len(Ahead)
    OBVIOUS
  <2> QED
    BY <1>3, <2>1, <2>2, Zenon
<1>5. InDecoder'
  <2>1. call'.op \in {"decodeUri", "loadFile"}
    BY <1>3
  <2> QED
    BY <1>3, <1>4, <2>1, Zenon DEF InDecoder
<1>6. outcome = "none" /\ outcome' = "none" /\ stage' = "decode"
  BY <1>1 DEF CallFits
<1>7. CallFits' /\ AtStart' /\ InBytes' /\ InReader' /\ DecodedIsGiven' /\ BytesAreGiven'
  BY <1>1, <1>3, <1>6 DEF CallFits, AtStart, InBytes, InReader, DecodedIsGiven, BytesAreGiven
<1> QED
  BY <1>5, <1>7 DEF Decoding

LEMMA decodeUriHolds ==
  ASSUME Decoding, decodeUri
  PROVE  Decoding'
<1>1. CallFits /\ call.op = "decodeUri" /\ stage = "start"
  BY DEF Decoding, decodeUri
<1>2. Ahead = << >> /\ call.text \in Texts
  BY <1>1, GivenIs DEF Ahead
<1>3. Ahead \o call.text = call.text /\ Len(Ahead) = 0
  BY <1>2, EmptyIsText
<1>4. /\ Begin(CString(call.text), 0) /\ read' = 0 /\ stage' = "decode"
      /\ UNCHANGED <<outcome, call>>
  BY DEF decodeUri
<1>5. Begin(CString(Ahead \o call.text), Len(Ahead)) /\ read' = Len(Ahead)
  BY <1>3, <1>4, Zenon
<1> QED
  BY <1>1, <1>4, <1>5, UriStarts

LEMMA CombinePathsHolds ==
  ASSUME Decoding, CombinePaths
  PROVE  Decoding'
<1>1. CallFits /\ call.op = "loadFile" /\ stage = "start" /\ call' = call
  BY DEF Decoding, CombinePaths
<1>2. CASE CallReturns("out_of_memory") /\ UNCHANGED <<stringVars, path>>
  <2>1. stage' = "returned" /\ outcome' = "out_of_memory" /\ UNCHANGED <<stringVars, call>>
    BY <1>1, <1>2 DEF CallReturns
  <2> QED
    BY <2>1, OthersHold
<1>3. CASE LET tail == TailOf(call.base, call.text)
           IN  /\ Begin(CString(cgltf_combine_paths(call.base, call.text)), tail)
               /\ read' = tail /\ stage' = "decode" /\ path' = TRUE /\ UNCHANGED outcome
  <2>1. Ahead = Directory(call.base) /\ call.text \in Texts /\ call.base \in Texts
    BY <1>1, GivenIs DEF Ahead
  <2>2. TailOf(call.base, call.text) = Len(Ahead)
    BY <2>1, TailIs
  <2>3. cgltf_combine_paths(call.base, call.text) = Ahead \o call.text
    BY <2>1 DEF cgltf_combine_paths
  <2>4. /\ Begin(CString(Ahead \o call.text), Len(Ahead)) /\ read' = Len(Ahead)
        /\ stage' = "decode" /\ UNCHANGED outcome
    BY <1>3, <2>2, <2>3, Zenon
  <2> QED
    BY <1>1, <2>4, UriStarts
<1> QED
  BY <1>2, <1>3, Zenon DEF CombinePaths

LEMMA DecodeHolds ==
  ASSUME Decoding, Decode
  PROVE  Decoding'
<1>0. CallFits /\ stage = "decode" /\ outcome = "none" /\ call' = call /\ Given' = Given /\ Ahead' = Ahead
  <2>1. CallFits /\ stage = "decode" /\ call' = call
    BY DEF Decoding, Decode
  <2> QED
    BY <2>1 DEF CallFits, Given, Ahead
<1>1. /\ decoded = -1
      /\ \/ /\ call.op = "decodeString" /\ jsmn_parse_string(call.text) # 0
            /\ InString(string, read, write, last, Given, Begins(call.text))
         \/ /\ call.op \in {"decodeUri", "loadFile"}
            /\ InUri(string, read, write, Ahead, call.text)
  BY <1>0 DEF Decoding, InDecoder
<1>2. \/ decoded' = -1 /\ UNCHANGED <<stage, outcome>>
      \/ decoded' # -1 /\ call.op = "loadFile" /\ stage' = "read" /\ UNCHANGED outcome
      \/ decoded' # -1 /\ call.op # "loadFile" /\ stage' = "returned" /\ outcome' = "success"
  BY Zenon DEF Decode, CallReturns
<1>3. CallFits'
  BY <1>0, <1>2 DEF CallFits
<1>4. call.op # "loadBase64" /\ call'.op # "loadBase64"
  BY <1>0, <1>1
<1>5. stage' \in {"decode", "read", "returned"} /\ (stage' = "read" => call'.op = "loadFile")
  BY <1>0, <1>2
<1>6. AtStart' /\ InBytes' /\ InReader' /\ BytesAreGiven'
  BY <1>4, <1>5 DEF AtStart, InBytes, InReader, BytesAreGiven
<1>7. stage' = "decode" => decoded' = -1
  BY <1>0, <1>2
<1>8. CASE /\ call.op = "decodeString" /\ jsmn_parse_string(call.text) # 0
           /\ InString(string, read, write, last, Given, Begins(call.text))
  <2>1. Given \in Texts /\ Pieces(Given, Begins(call.text))
    BY <1>0, <1>8, GivenIs
  <2>2. DecodeEscape
    BY <1>8, Zenon DEF Decode
  <2>3. \/ decoded' = -1 /\ InString(string', read', write', last', Given, Begins(call.text))
        \/ /\ decoded' \in 0 .. Len(Given) /\ string'[decoded'] = NUL
           /\ StandsFor(Prefix(string', decoded'), Given)
    BY <1>1, <1>8, <2>1, <2>2, StringStep
  <2>4. Len(Given) \in Nat
    BY <2>1, TextIs
  <2>5. CASE decoded' = -1 /\ InString(string', read', write', last', Given, Begins(call.text))
    <3>1. InDecoder'
      BY <1>0, <1>8, <2>5, Zenon DEF InDecoder
    <3>2. DecodedIsGiven'
      BY <2>5, Zenon DEF DecodedIsGiven
    <3> QED
      BY <1>3, <1>6, <3>1, <3>2 DEF Decoding
  <2>6. CASE /\ decoded' \in 0 .. Len(Given) /\ string'[decoded'] = NUL
             /\ StandsFor(Prefix(string', decoded'), Given)
    <3>1. decoded' <= Len(Given) /\ decoded' # -1
      BY <2>4, <2>6
    <3>2. InDecoder'
      BY <1>7, <3>1 DEF InDecoder
    <3>3. DecodedIsGiven'
      <4>1. StandsFor(Prefix(string', decoded'), Given') /\ call'.op = "decodeString"
            /\ decoded' <= Len(Given') /\ string'[decoded'] = NUL
        BY <1>0, <1>8, <2>6, <3>1, Zenon
      <4> QED
        BY <4>1 DEF DecodedIsGiven
    <3> QED
      BY <1>3, <1>6, <3>2, <3>3 DEF Decoding
  <2> QED
    BY <2>3, <2>5, <2>6
<1>9. CASE call.op \in {"decodeUri", "loadFile"} /\ InUri(string, read, write, Ahead, call.text)
  <2> DEFINE g == Ahead \o call.text
  <2>1. Ahead \in Texts /\ call.text \in Texts /\ Given = g /\ call.op # "decodeString"
    BY <1>0, <1>9, GivenIs
  <2>2. DecodeCharacter
    BY <2>1, Zenon DEF Decode
  <2>3. \/ decoded' = -1 /\ InUri(string', read', write', Ahead, call.text)
        \/ /\ decoded' \in 0 .. Len(g) /\ string'[decoded'] = NUL
           /\ Prefix(string', decoded') = Ahead \o UriBytes(call.text)
    BY <1>1, <1>9, <2>1, <2>2, UriStep
  <2>4. Len(g) \in Nat
    <3>1. g \in Texts
      BY <2>1, JoinedIs
    <3> HIDE DEF g
    <3> QED  BY <3>1, TextIs
  <2> HIDE DEF g
  <2>5. CASE decoded' = -1 /\ InUri(string', read', write', Ahead, call.text)
    <3>1. InDecoder'
      BY <1>0, <1>9, <2>5, Zenon DEF InDecoder
    <3>2. DecodedIsGiven'
      BY <2>5, Zenon DEF DecodedIsGiven
    <3> QED
      BY <1>3, <1>6, <3>1, <3>2 DEF Decoding
  <2>6. CASE /\ decoded' \in 0 .. Len(g) /\ string'[decoded'] = NUL
             /\ Prefix(string', decoded') = Ahead \o UriBytes(call.text)
    <3>1. decoded' <= Len(Given) /\ decoded' # -1
      BY <2>1, <2>4, <2>6
    <3>2. InDecoder'
      BY <1>7, <3>1 DEF InDecoder
    <3>3. DecodedIsGiven'
      <4>1. CASE call.op = "loadFile"
        <5>1. /\ decoded' <= Len(Given') /\ string'[decoded'] = NUL /\ call' = call
              /\ Prefix(string', decoded') = Directory(call.base) \o UriBytes(call.text)
          BY <1>0, <2>6, <3>1, <4>1 DEF Ahead
        <5> QED
          BY <4>1, <5>1 DEF DecodedIsGiven
      <4>2. CASE call.op = "decodeUri"
        <5>1. Ahead = << >>
          BY <4>2 DEF Ahead
        <5>2. UriBytes(call.text) \in Seq(Int)
          <6>1. 1 \in 1 .. Len(call.text) + 1
            BY <2>1, TextIs
          <6> QED
            BY <2>1, <6>1, RestsAre, RestsAreSequences
        <5>3. /\ decoded' <= Len(Given') /\ string'[decoded'] = NUL /\ call' = call
              /\ Prefix(string', decoded') = UriBytes(call.text)
          BY <1>0, <2>6, <3>1, <5>1, <5>2, EmptyIsText
        <5> QED
          BY <4>2, <5>3 DEF DecodedIsGiven
      <4> QED
        BY <1>9, <4>1, <4>2
    <3> QED
      BY <1>3, <1>6, <3>2, <3>3 DEF Decoding
  <2> QED
    BY <2>3, <2>5, <2>6
<1> QED
  BY <1>1, <1>8, <1>9

LEMMA loadBase64Holds ==
  ASSUME Decoding, loadBase64
  PROVE  Decoding'
<1>1. CallFits /\ call.op = "loadBase64" /\ stage = "start" /\ call' = call /\ outcome = "none"
  BY DEF Decoding, loadBase64, CallFits
<1>2. CASE CallReturns("out_of_memory") /\ UNCHANGED stringVars
  <2>1. stage' = "returned" /\ outcome' = "out_of_memory" /\ UNCHANGED <<stringVars, call>>
    BY <1>1, <1>2 DEF CallReturns
  <2> QED
    BY <2>1, OthersHold
<1>3. CASE /\ string' = CString(call.text) /\ stage' = "base64" /\ UNCHANGED outcome
           /\ UNCHANGED <<read, write, last, decoded, base64Vars>>
  <2>1. call.text \in Texts /\ call.size \in Nat
    BY <1>1, GivenIs
  <2>2. decoded = -1 /\ read = 0 /\ buffer64 = 0 /\ buffer_bits = 0 /\ bytes = << >>
    BY <1>1 DEF Decoding, AtStart
  <2>3. /\ decoded' = -1 /\ read' = 0 /\ buffer64' = 0 /\ buffer_bits' = 0 /\ bytes' = << >>
        /\ string' = CString(call'.text) /\ outcome' = "none" /\ stage' = "base64"
    BY <1>1, <1>3, <2>2 DEF base64Vars
  <2>4. InBase64(call'.text, read', buffer64', buffer_bits', bytes')
    BY <1>1, <2>1, <2>3, Base64Begins, Zenon
  <2>5. InBytes'
    <3>1. Len(<< >>) <= call.size
      BY <2>1
    <3> QED
      BY <1>1, <2>3, <2>4, <3>1 DEF InBytes
  <2>6. CallFits' /\ AtStart' /\ InDecoder' /\ InReader' /\ DecodedIsGiven' /\ BytesAreGiven'
    BY <1>1, <2>3 DEF CallFits, AtStart, InDecoder, InReader, DecodedIsGiven, BytesAreGiven
  <2> QED
    BY <2>5, <2>6 DEF Decoding
<1> QED
  BY <1>2, <1>3 DEF loadBase64

LEMMA DecodeBase64Holds ==
  ASSUME Decoding, DecodeBase64
  PROVE  Decoding'
<1> DEFINE t == call.text
           n == call.size
<1>1. /\ CallFits /\ call' = call /\ stage = "base64" /\ outcome = "none"
      /\ decoded = -1 /\ call.op = "loadBase64" /\ string = CString(t)
      /\ InBase64(t, read, buffer64, buffer_bits, bytes) /\ Len(bytes) <= n
  BY DEF Decoding, DecodeBase64, CallFits, InBytes
<1>2. t \in Texts /\ n \in Nat
  BY <1>1, GivenIs
<1>3. Len(bytes) \in Nat
  <2>1. bytes \in Seq(Int)
    BY <1>1 DEF InBase64
  <2> QED
    BY <2>1, LenProperties
<1>4. ASSUME InBase64(t, read', buffer64', buffer_bits', bytes'), Len(bytes') <= n,
             UNCHANGED <<stage, outcome, string, decoded>>
      PROVE  Decoding'
  <2>1. InBytes'
    <3>1. call'.op = "loadBase64" /\ string' = CString(call'.text) /\ decoded' = -1
      BY <1>1, <1>4
    <3> QED
      BY <1>1, <1>4, <3>1 DEF InBytes
  <2>2. CallFits' /\ AtStart' /\ InDecoder' /\ InReader' /\ DecodedIsGiven' /\ BytesAreGiven'
    BY <1>1, <1>4 DEF CallFits, AtStart, InDecoder, InReader, DecodedIsGiven, BytesAreGiven
  <2> QED
    BY <2>1, <2>2 DEF Decoding
<1>5. ASSUME stage' = "returned", UNCHANGED decoded, BytesAreGiven'
      PROVE  Decoding'
  <2>1. CallFits' /\ AtStart' /\ InDecoder' /\ InBytes' /\ InReader' /\ DecodedIsGiven'
    BY <1>1, <1>5 DEF CallFits, AtStart, InDecoder, InBytes, InReader, DecodedIsGiven
  <2> QED
    BY <1>5, <2>1 DEF Decoding
<1> HIDE DEF t, n
<1>6. CASE Len(bytes) < n /\ ReadCharacter /\ UNCHANGED <<stage, outcome>>
  <2>1. /\ buffer_bits < 8 /\ Index(CString(t)[read]) >= 0
        /\ buffer64' = (buffer64 * 64 + Index(CString(t)[read])) % Uint
        /\ buffer_bits' = buffer_bits + 6 /\ read' = read + 1
        /\ UNCHANGED <<string, decoded, bytes>>
    BY <1>1, <1>6 DEF ReadCharacter
  <2>2. InBase64(t, read + 1, (buffer64 * 64 + Index(CString(t)[read])) % Uint, buffer_bits + 6, bytes)
    BY <1>1, <1>2, <2>1, CharacterIsRead
  <2>3. InBase64(t, read', buffer64', buffer_bits', bytes')
    BY <2>1, <2>2, Zenon
  <2> QED
    BY <1>1, <1>4, <1>6, <2>1, <2>3
<1>7. CASE Len(bytes) < n /\ WriteByte /\ UNCHANGED <<stage, outcome>>
  <2>1. /\ buffer_bits >= 8 /\ bytes' = Append(bytes, TopByte(buffer64, buffer_bits))
        /\ buffer_bits' = buffer_bits - 8
        /\ UNCHANGED <<string, read, decoded, buffer64>>
    BY <1>7 DEF WriteByte
  <2>2. /\ InBase64(t, read, buffer64, buffer_bits - 8, Append(bytes, TopByte(buffer64, buffer_bits)))
        /\ Len(Append(bytes, TopByte(buffer64, buffer_bits))) = Len(bytes) + 1
    BY <1>1, <1>2, <2>1, ByteIsWritten
  <2>3. InBase64(t, read', buffer64', buffer_bits', bytes') /\ Len(bytes') = Len(bytes) + 1
    BY <2>1, <2>2, Zenon
  <2>4. Len(bytes') <= n
    BY <1>2, <1>3, <1>7, <2>3
  <2> QED
    BY <1>4, <1>7, <2>1, <2>3, <2>4
<1>8. CASE Len(bytes) < n /\ GiveUpBytes /\ CallReturns("io_error")
  <2>1. /\ buffer_bits < 8 /\ Index(CString(t)[read]) < 0 /\ UNCHANGED decoded
        /\ stage' = "returned" /\ outcome' = "io_error"
    BY <1>1, <1>8 DEF GiveUpBytes, CallReturns
  <2>2. ~(/\ Needed(n) <= Len(t)
          /\ \A i \in 1 .. Needed(n) : Index(t[i]) >= 0)
    BY <1>1, <1>2, <1>8, <2>1, MoreIsNeeded
  <2>3. BytesAreGiven'
    <3>1. outcome' # "success"
      BY <2>1
    <3> QED
      BY <1>1, <2>2, <3>1, Zenon DEF BytesAreGiven, t, n
  <2> QED
    BY <1>5, <2>1, <2>3
<1>9. CASE Len(bytes) = n /\ CallReturns("success") /\ UNCHANGED stringVars
  <2>1. /\ UNCHANGED <<decoded, bytes>>
        /\ stage' = "returned" /\ outcome' = "success"
    BY <1>9 DEF stringVars, base64Vars, CallReturns
  <2>2. /\ Needed(n) <= Len(t)
        /\ \A i \in 1 .. Needed(n) : Index(t[i]) >= 0
        /\ bytes = [i \in 1 .. n |-> Base64Byte(t, i - 1)]
    <3> DEFINE m == Len(bytes)
    <3>1. /\ Needed(m) <= Len(t)
          /\ \A i \in 1 .. Needed(m) : Index(t[i]) >= 0
          /\ bytes = [i \in 1 .. m |-> Base64Byte(t, i - 1)]
      <4>1. InBase64(t, read, buffer64, buffer_bits, bytes)
        BY <1>1
      <4> QED
        BY <1>2, <4>1, EnoughIsRead
    <3>2. m = n
      BY <1>9
    <3> HIDE DEF m
    <3> QED
      BY <3>1, <3>2
  <2>3. BytesAreGiven'
    BY <1>1, <2>1, <2>2, Zenon DEF BytesAreGiven, t, n
  <2> QED
    BY <1>5, <2>1, <2>3
<1> QED
  BY <1>6, <1>7, <1>8, <1>9 DEF DecodeBase64, n

LEMMA CallStepHolds ==
  ASSUME Decoding, LoadNext
  PROVE  Decoding'
<1>1. CASE ReadStep
  BY <1>1, OthersHold DEF ReadStep, callVars
<1>2. CASE FileChanges
  BY <1>2, OthersHold DEF FileChanges, callVars
<1>3. CASE FreePath
  <2>1. call.op = "loadFile"
    BY <1>3 DEF FreePath, Decoding, InReader
  <2> QED
    BY <1>3, <2>1, OthersHold DEF FreePath, CallReturns
<1> QED
  BY <1>1, <1>2, <1>3, decodeStringHolds, decodeUriHolds, CombinePathsHolds, DecodeHolds,
     loadBase64Holds, DecodeBase64Holds DEF LoadNext, CallStep

LEMMA DecodingIsRight ==
  ASSUME Decoding
  PROVE  DecodersAreRight
<1>1. CallFits /\ DecodedIsGiven /\ BytesAreGiven
  BY DEF Decoding
<1>2. ASSUME stage = "decode"
      PROVE  LET unread == IF call.op = "decodeString" THEN last ELSE read
             IN  /\ write <= unread /\ unread <= Len(Given)
                 /\ \A i \in unread .. Len(Given) : string[i] = CString(Given)[i]
  <2>1. CASE /\ call.op = "decodeString" /\ jsmn_parse_string(call.text) # 0
             /\ InString(string, read, write, last, Given, Begins(call.text))
    <3>1. Given \in Texts
      BY <1>1, <2>1, GivenIs
    <3>2. /\ write \in 0 .. last /\ last \in 0 .. read /\ read \in 0 .. Len(Given)
          /\ Unread(string, last, Given) /\ Len(Given) \in Nat
      BY <2>1, <3>1, TextIs DEF InString
    <3> QED
      BY <2>1, <3>2 DEF Unread
  <2>2. CASE /\ call.op \in {"decodeUri", "loadFile"}
             /\ InUri(string, read, write, Ahead, call.text)
    <3>1. Ahead \in Texts /\ call.text \in Texts /\ Given = Ahead \o call.text
      BY <1>1, <2>2, GivenIs
    <3>2. Given \in Texts /\ Len(Ahead) \in Nat
      BY <3>1, JoinedIs
    <3>3. /\ write \in Len(Ahead) .. read /\ read \in Len(Ahead) .. Len(Given)
          /\ Unread(string, read, Given) /\ Len(Given) \in Nat
      BY <2>2, <3>1, <3>2, TextIs DEF InUri
    <3>4. call.op # "decodeString"
      BY <2>2
    <3> QED
      BY <3>2, <3>3, <3>4 DEF Unread
  <2> QED
    BY <1>2, <2>1, <2>2 DEF Decoding, InDecoder
<1>3. ASSUME stage = "base64"
      PROVE  read <= Len(call.text)
  <2>1. call.text \in Texts /\ InBase64(call.text, read, buffer64, buffer_bits, bytes)
    BY <1>1, <1>3, GivenIs DEF Decoding, InBytes
  <2>2. read \in 0 .. Len(call.text) /\ Len(call.text) \in Nat
    BY <2>1, TextIs DEF InBase64
  <2> QED
    BY <2>2
<1>4. InPlace
  BY <1>2, <1>3 DEF InPlace
<1> QED
  BY <1>1, <1>4 DEF DecodersAreRight

(* The inductive invariant holds at every step of every call.              *)
THEOREM DecodersInductive ==
  LoadSpec => []Decoding
<1>1. LoadInit => Decoding
  BY LoadInitHolds
<1>2. Decoding /\ UNCHANGED loadVars => Decoding'
  BY OthersHold DEF loadVars, callVars
<1>3. Decoding /\ [LoadNext]_loadVars => Decoding'
  BY <1>2, CallStepHolds
<1> QED
  BY <1>1, <1>3, PTL DEF LoadSpec

(* Whatever the texts and the sizes: a decoder never writes over what it   *)
(* still has to read, the bytes it leaves are those the string stands for, *)
(* and base64 is loaded exactly when there is enough of it.                *)
THEOREM DecodingIsCorrect ==
  LoadSpec => []DecodersAreRight
<1>1. Decoding => DecodersAreRight
  BY DecodingIsRight
<1> QED
  BY <1>1, DecodersInductive, PTL
--------------------------------------------------------------------------------
(* The readers of files.                                                   *)

(* What the reader holds at each of its steps.                             *)
Holds ==
  /\ pc \in {"open", "measure", "alloc"} => buffers = 0 /\ got = 0
  /\ pc \in {"read", "close", "compare"} => buffers = 1
  /\ pc \in {"measure", "alloc", "read", "close", "defer"} => files = 1
  /\ pc = "open" => files = 0
  /\ pc = "compare" => files = (IF reader = "zig" THEN 1 ELSE 0)
  /\ pc \notin {"defer", "done"} => result = "none" /\ ~data /\ size = asked
  /\ pc \in {"alloc", "read", "close", "compare"} /\ asked # 0 => want = asked

(* Where zigRead waits for its deferred close, all but the file is as it   *)
(* will be returned.                                                       *)
ReadyToReturn ==
  pc = "defer" =>
    /\ buffers = (IF result = "success" THEN 1 ELSE 0)
    /\ data = (result = "success")
    /\ result # "success" => size = asked

IInv == TypeOK /\ Holds /\ ReadyToReturn /\ NothingLeftBehind /\ OnlyCompleteReads

USE DEF Readers, Results, Steps, given, outputs, Goto, Return, Defer, Opens, Closes,
        Allocates, Frees

--------------------------------------------------------------------------------

LEMMA InitHolds ==
  ASSUME ReaderAssumption, Init
  PROVE  IInv
<1>1. TypeOK
  <2>1. data \in BOOLEAN
    BY Zenon DEF Init
  <2> QED
    BY <2>1 DEF ReaderAssumption, Init, TypeOK
<1>2. Holds /\ ReadyToReturn
  BY DEF Init, Holds, ReadyToReturn
<1>3. NothingLeftBehind /\ OnlyCompleteReads
  BY DEF Init, NothingLeftBehind, OnlyCompleteReads
<1> QED
  BY <1>1, <1>2, <1>3 DEF IInv

LEMMA zigOpenHolds ==
  ASSUME IInv, zigOpen
  PROVE  IInv'
<1>1. TypeOK'
  BY DEF zigOpen, IInv, TypeOK, Holds
<1>2. Holds'
  BY DEF zigOpen, IInv, TypeOK, Holds
<1>3. ReadyToReturn' /\ NothingLeftBehind'
  BY DEF zigOpen, IInv, TypeOK, Holds, ReadyToReturn, NothingLeftBehind
<1>4. OnlyCompleteReads'
  BY DEF zigOpen, IInv, Holds, OnlyCompleteReads
<1> QED
  BY <1>1, <1>2, <1>3, <1>4 DEF IInv

(* The buffer's length is fixed before there is a buffer, and fits: it is  *)
(* what was asked for, or a length of the file no larger than a usize.     *)
LEMMA zigMeasureHolds ==
  ASSUME ReaderAssumption, IInv, zigMeasure
  PROVE  IInv'
<1>1. TypeOK'
  BY DEF zigMeasure, IInv, TypeOK, Holds, ReaderAssumption
<1>2. Holds'
  BY DEF zigMeasure, IInv, TypeOK, Holds, ReaderAssumption
<1>3. ReadyToReturn' /\ NothingLeftBehind'
  BY DEF zigMeasure, IInv, TypeOK, Holds, ReadyToReturn, NothingLeftBehind, ReaderAssumption
<1>4. OnlyCompleteReads'
  BY DEF zigMeasure, IInv, Holds, OnlyCompleteReads, ReaderAssumption
<1> QED
  BY <1>1, <1>2, <1>3, <1>4 DEF IInv

LEMMA zigAllocHolds ==
  ASSUME IInv, zigAlloc
  PROVE  IInv'
<1>1. TypeOK'
  BY DEF zigAlloc, IInv, TypeOK, Holds
<1>2. Holds'
  BY DEF zigAlloc, IInv, TypeOK, Holds
<1>3. ReadyToReturn' /\ NothingLeftBehind'
  BY DEF zigAlloc, IInv, TypeOK, Holds, ReadyToReturn, NothingLeftBehind
<1>4. OnlyCompleteReads'
  BY DEF zigAlloc, IInv, Holds, OnlyCompleteReads
<1> QED
  BY <1>1, <1>2, <1>3, <1>4 DEF IInv

(* A short read stays inside the buffer.                                   *)
LEMMA zigReadLoopHolds ==
  ASSUME ReaderAssumption, IInv, zigReadLoop
  PROVE  IInv'
<1>1. TypeOK'
  BY DEF zigReadLoop, IInv, TypeOK, Holds, ReaderAssumption, Available
<1>2. Holds'
  BY DEF zigReadLoop, IInv, TypeOK, Holds, ReaderAssumption, Available
<1>3. ReadyToReturn' /\ NothingLeftBehind'
  BY DEF zigReadLoop, IInv, TypeOK, Holds, ReadyToReturn, NothingLeftBehind,
     ReaderAssumption, Available
<1>4. OnlyCompleteReads'
  BY DEF zigReadLoop, IInv, Holds, OnlyCompleteReads, ReaderAssumption, Available
<1> QED
  BY <1>1, <1>2, <1>3, <1>4 DEF IInv

(* Success needs all of it.                                                *)
LEMMA zigCompareHolds ==
  ASSUME IInv, zigCompare
  PROVE  IInv'
<1>1. CASE got # want /\ Frees /\ Defer("io_error") /\ UNCHANGED outputs
  <2>1. data' \in BOOLEAN /\ data' = data
    BY <1>1, Zenon DEF IInv, TypeOK
  <2>2. TypeOK'
    BY <1>1, <2>1 DEF zigCompare, IInv, TypeOK, Holds
  <2>3. Holds'
    BY <1>1, <2>1 DEF zigCompare, IInv, TypeOK, Holds
  <2>4. ReadyToReturn' /\ NothingLeftBehind' /\ OnlyCompleteReads'
    BY <1>1, <2>1 DEF zigCompare, IInv, TypeOK, Holds, ReadyToReturn, NothingLeftBehind,
       OnlyCompleteReads
  <2> QED
    BY <2>2, <2>3, <2>4 DEF IInv
<1>2. CASE got = want /\ size' = want /\ data' = TRUE /\ Defer("success") /\ UNCHANGED buffers
  <2>1. data' \in BOOLEAN
    BY <1>2, Zenon
  <2>2. TypeOK'
    BY <1>2, <2>1 DEF zigCompare, IInv, TypeOK, Holds
  <2>3. Holds'
    BY <1>2 DEF zigCompare, IInv, TypeOK, Holds
  <2>4. ReadyToReturn' /\ NothingLeftBehind' /\ OnlyCompleteReads'
    BY <1>2 DEF zigCompare, IInv, TypeOK, Holds, ReadyToReturn, NothingLeftBehind,
       OnlyCompleteReads
  <2> QED
    BY <2>2, <2>3, <2>4 DEF IInv
<1> QED
  BY <1>1, <1>2 DEF zigCompare

LEMMA zigCloseHolds ==
  ASSUME IInv, zigClose
  PROVE  IInv'
<1>1. TypeOK'
  BY DEF zigClose, IInv, TypeOK, Holds
<1>2. Holds'
  BY DEF zigClose, IInv, TypeOK, Holds
<1>3. ReadyToReturn' /\ NothingLeftBehind'
  BY DEF zigClose, IInv, TypeOK, Holds, ReadyToReturn, NothingLeftBehind
<1>4. OnlyCompleteReads'
  BY DEF zigClose, IInv, Holds, OnlyCompleteReads
<1> QED
  BY <1>1, <1>2, <1>3, <1>4 DEF IInv

LEMMA cOpenHolds ==
  ASSUME IInv, cOpen
  PROVE  IInv'
<1>1. TypeOK'
  BY DEF cOpen, IInv, TypeOK, Holds
<1>2. Holds'
  BY DEF cOpen, IInv, TypeOK, Holds
<1>3. ReadyToReturn' /\ NothingLeftBehind'
  BY DEF cOpen, IInv, TypeOK, Holds, ReadyToReturn, NothingLeftBehind
<1>4. OnlyCompleteReads'
  BY DEF cOpen, IInv, Holds, OnlyCompleteReads
<1> QED
  BY <1>1, <1>2, <1>3, <1>4 DEF IInv

LEMMA cMeasureHolds ==
  ASSUME ReaderAssumption, IInv, cMeasure
  PROVE  IInv'
<1>1. TypeOK'
  BY DEF cMeasure, IInv, TypeOK, Holds, ReaderAssumption
<1>2. Holds'
  BY DEF cMeasure, IInv, TypeOK, Holds, ReaderAssumption
<1>3. ReadyToReturn' /\ NothingLeftBehind'
  BY DEF cMeasure, IInv, TypeOK, Holds, ReadyToReturn, NothingLeftBehind, ReaderAssumption
<1>4. OnlyCompleteReads'
  BY DEF cMeasure, IInv, Holds, OnlyCompleteReads, ReaderAssumption
<1> QED
  BY <1>1, <1>2, <1>3, <1>4 DEF IInv

LEMMA cAllocHolds ==
  ASSUME IInv, cAlloc
  PROVE  IInv'
<1>1. TypeOK'
  BY DEF cAlloc, IInv, TypeOK, Holds
<1>2. Holds'
  BY DEF cAlloc, IInv, TypeOK, Holds
<1>3. ReadyToReturn' /\ NothingLeftBehind'
  BY DEF cAlloc, IInv, TypeOK, Holds, ReadyToReturn, NothingLeftBehind
<1>4. OnlyCompleteReads'
  BY DEF cAlloc, IInv, Holds, OnlyCompleteReads
<1> QED
  BY <1>1, <1>2, <1>3, <1>4 DEF IInv

LEMMA cReadHolds ==
  ASSUME ReaderAssumption, IInv, cRead
  PROVE  IInv'
<1>1. got' \in 0 .. want
  BY DEF cRead, Available, IInv, TypeOK, ReaderAssumption
<1>2. TypeOK'
  <2>1. data' \in BOOLEAN
    BY Zenon DEF cRead, IInv, TypeOK
  <2> QED
    BY <1>1, <2>1 DEF cRead, IInv, TypeOK
<1>3. Holds'
  BY DEF cRead, IInv, TypeOK, Holds
<1>4. ReadyToReturn' /\ NothingLeftBehind' /\ OnlyCompleteReads'
  BY DEF cRead, IInv, Holds, ReadyToReturn, NothingLeftBehind, OnlyCompleteReads
<1> QED
  BY <1>2, <1>3, <1>4 DEF IInv

LEMMA cCloseHolds ==
  ASSUME IInv, cClose
  PROVE  IInv'
<1>1. TypeOK'
  BY DEF cClose, IInv, TypeOK, Holds
<1>2. Holds'
  BY DEF cClose, IInv, TypeOK, Holds
<1>3. ReadyToReturn' /\ NothingLeftBehind'
  BY DEF cClose, IInv, TypeOK, Holds, ReadyToReturn, NothingLeftBehind
<1>4. OnlyCompleteReads'
  BY DEF cClose, IInv, Holds, OnlyCompleteReads
<1> QED
  BY <1>1, <1>2, <1>3, <1>4 DEF IInv

LEMMA cCompareHolds ==
  ASSUME IInv, cCompare
  PROVE  IInv'
<1>1. CASE got # want /\ Frees /\ Return("io_error") /\ UNCHANGED outputs
  <2>1. data' \in BOOLEAN /\ data' = data
    BY <1>1, Zenon DEF IInv, TypeOK
  <2>2. TypeOK'
    BY <1>1, <2>1 DEF cCompare, IInv, TypeOK, Holds
  <2>3. Holds'
    BY <1>1, <2>1 DEF cCompare, IInv, TypeOK, Holds
  <2>4. ReadyToReturn' /\ NothingLeftBehind' /\ OnlyCompleteReads'
    BY <1>1, <2>1 DEF cCompare, IInv, TypeOK, Holds, ReadyToReturn, NothingLeftBehind,
       OnlyCompleteReads
  <2> QED
    BY <2>2, <2>3, <2>4 DEF IInv
<1>2. CASE got = want /\ size' = want /\ data' = TRUE /\ Return("success") /\ UNCHANGED buffers
  <2>1. data' \in BOOLEAN
    BY <1>2, Zenon
  <2>2. TypeOK'
    BY <1>2, <2>1 DEF cCompare, IInv, TypeOK, Holds
  <2>3. Holds'
    BY <1>2 DEF cCompare, IInv, TypeOK, Holds
  <2>4. ReadyToReturn' /\ NothingLeftBehind' /\ OnlyCompleteReads'
    BY <1>2 DEF cCompare, IInv, TypeOK, Holds, ReadyToReturn, NothingLeftBehind,
       OnlyCompleteReads
  <2> QED
    BY <2>2, <2>3, <2>4 DEF IInv
<1> QED
  BY <1>1, <1>2 DEF cCompare

LEMMA ResizeHolds ==
  ASSUME ReaderAssumption, IInv, Resize
  PROVE  IInv'
  BY DEF Resize, ReaderAssumption, IInv, TypeOK, Holds, ReadyToReturn, NothingLeftBehind, OnlyCompleteReads

LEMMA StutterHolds ==
  ASSUME IInv, UNCHANGED vars
  PROVE  IInv'
  BY DEF vars, IInv, TypeOK, Holds, ReadyToReturn, NothingLeftBehind, OnlyCompleteReads

LEMMA ReaderHolds ==
  ASSUME IInv, [Next]_vars
  PROVE  IInv'
  BY ReaderAssumption, zigOpenHolds, zigMeasureHolds, zigAllocHolds, zigReadLoopHolds,
     zigCompareHolds, zigCloseHolds, cOpenHolds, cMeasureHolds, cAllocHolds, cReadHolds,
     cCloseHolds, cCompareHolds, ResizeHolds, StutterHolds DEF Next, Step

(* A step of a call is a step of the reader, or another process's, or it   *)
(* leaves both as they are.                                                *)
LEMMA CallsReader ==
  ASSUME [LoadNext]_loadVars
  PROVE  [Next]_vars
<1>1. CASE ReadStep \/ FileChanges
  BY <1>1 DEF ReadStep, FileChanges, Next
<1>2. CASE \/ decodeString \/ decodeUri \/ CombinePaths \/ Decode \/ FreePath
           \/ loadBase64 \/ DecodeBase64
  BY <1>2, Zenon DEF decodeString, decodeUri, CombinePaths, Decode, FreePath, loadBase64,
     DecodeBase64
<1>3. CASE UNCHANGED loadVars
  BY <1>3 DEF loadVars
<1> QED
  BY <1>1, <1>2, <1>3 DEF LoadNext, CallStep

(* The inductive invariant, from which the three theorems follow.          *)
THEOREM Inductive ==
  LoadSpec => []IInv
<1>1. LoadInit => IInv
  BY InitHolds, ReaderAssumption DEF LoadInit
<1>2. IInv /\ [LoadNext]_loadVars => IInv'
  BY CallsReader, ReaderHolds
<1> QED
  BY <1>1, <1>2, PTL DEF LoadSpec

(* Every variable of a call keeps its type, and no more bytes are read     *)
(* than the buffer has.                                                    *)
THEOREM ReaderTypes ==
  LoadSpec => []TypeOK
  BY Inductive, PTL DEF IInv

(* Whichever path a call leaves by, what it opened is closed, once, what   *)
(* it allocated is freed or returned, and a failure changes nothing of the *)
(* caller's.                                                               *)
THEOREM FailuresLeaveNothing ==
  LoadSpec => []NothingLeftBehind
  BY Inductive, PTL DEF IInv

(* A call that succeeds has filled its buffer.                             *)
THEOREM ReadsAreComplete ==
  LoadSpec => []OnlyCompleteReads
  BY Inductive, PTL DEF IInv
=============================================================================
