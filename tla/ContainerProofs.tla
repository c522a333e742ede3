---------------------------- MODULE ContainerProofs ----------------------------
(***************************************************************************)
(* First, of cgltf_write: for documents with any extensions, that the text *)
(* is JSON with the commas in their places, and that the extensions it     *)
(* declares are those it uses.                                             *)
(*                                                                         *)
(* There is an assertion at every step of program, made piece by piece as  *)
(* program is: Triple(P, steps, Q) says that there are assertions which    *)
(* lead from P through the steps to Q.  One lemma joins two pieces, one    *)
(* each closes an if or a loop, and one stands for each C function.  The   *)
(* invariant is then that the assertion at pc is true.                     *)
(*                                                                         *)
(* Then, of the GLB: for texts, bin chunks and files of any size, and      *)
(* words of any width, that cgltf_parse stays inside the file whatever its *)
(* words say, and that it finds in a GLB what cgltf_write_glb has put      *)
(* there.                                                                  *)
(***************************************************************************)
EXTENDS Container, FiniteSetTheorems, SequenceTheorems, WellFoundedInduction, TLAPS

\* Induction over the numbers, without an operator for a parameter.
Less == {pair \in Nat \X Nat : pair[1] < pair[2]}

\* The order of the numbers has no endless descent.
LEMMA LessIsWellFounded == IsWellFoundedOn(Less, Nat)
  BY NatLessThanWellFounded, Zenon DEF OpToRel, Less

\* Induction, said of a set.
LEMMA CountsThroughNat ==
  ASSUME NEW S, 0 \in S, \A n \in Nat : n \in S => n + 1 \in S
  PROVE  Nat \subseteq S
<1> DEFINE T == Nat \ S
<1>1. SUFFICES ASSUME T # {} PROVE FALSE
  OBVIOUS
<1>2. PICK t \in T : \A u \in T : <<u, t>> \notin Less
  BY <1>1, LessIsWellFounded, WFMin
<1>3. t # 0 /\ t \in Nat /\ t \notin S
  OBVIOUS
<1>4. t - 1 \in Nat /\ t - 1 + 1 = t
  BY <1>3
<1>5. t - 1 \in S
  <2>1. <<t - 1, t>> \in Less
    BY <1>3, <1>4 DEF Less
  <2> QED  BY <1>2, <1>4, <2>1
<1> QED
  BY <1>3, <1>4, <1>5

\* What is read lexeme by lexeme.
LEMMA Readings ==
  ASSUME NEW t, NEW s, Len(s) \in Nat
  PROVE  \E r : /\ r[0] = t
                /\ \A n \in 1 .. Len(s) : r[n] = Read(r[n - 1], s[n])
                /\ ReadAll(t, s) = r[Len(s)]
<1> DEFINE Rule(r, n) == r = [m \in 0 .. n |-> IF m = 0 THEN t ELSE Read(r[m - 1], s[m])]
           S == {n \in Nat : \E r : Rule(r, n)}
<1>1. 0 \in S
  <2> DEFINE r == [m \in 0 .. 0 |-> t]
  <2>1. Rule(r, 0)
    OBVIOUS
  <2> QED  BY <2>1
<1>2. ASSUME NEW n \in Nat, n \in S PROVE n + 1 \in S
  <2>1. PICK r : Rule(r, n)
    BY <1>2
  <2> DEFINE q == [m \in 0 .. n + 1 |-> IF m = n + 1 THEN Read(r[n], s[n + 1]) ELSE r[m]]
  <2>2. \A m \in 0 .. n : q[m] = r[m]
    OBVIOUS
  <2>3. ASSUME NEW m \in 0 .. n + 1
        PROVE  q[m] = IF m = 0 THEN t ELSE Read(q[m - 1], s[m])
    <3>1. CASE m = n + 1
      BY <2>2, <3>1
    <3>2. CASE m \in 0 .. n
      <4>1. q[m] = r[m] /\ (m # 0 => q[m - 1] = r[m - 1])
        BY <2>2, <3>2
      <4>2. r[m] = IF m = 0 THEN t ELSE Read(r[m - 1], s[m])
        BY <2>1, <3>2
      <4> QED  BY <4>1, <4>2
    <3> QED  BY <3>1, <3>2
  <2>4. Rule(q, n + 1)
    BY <2>3
  <2>5. \E p : Rule(p, n + 1)
    <3> HIDE DEF Rule, q
    <3> QED  BY <2>4
  <2> QED  BY <2>5
<1>3. Len(s) \in S
  <2> HIDE DEF S
  <2> QED  BY <1>1, <1>2, CountsThroughNat
<1> DEFINE after == CHOOSE r : Rule(r, Len(s))
<1>4. Rule(after, Len(s))
  BY <1>3
<1>5. ReadAll(t, s) = after[Len(s)]
  BY Zenon DEF ReadAll
<1>6. /\ after[0] = t
      /\ \A n \in 1 .. Len(s) : after[n] = Read(after[n - 1], s[n])
  <2> HIDE DEF after
  <2> QED  BY <1>4
<1> QED  BY <1>5, <1>6

Brackets == {"{", "["}
Text(open, expect) == [open |-> open, expect |-> expect]
Texts == [open : Seq(Brackets),
          expect : {"value", "element", "key", "member", "colon", "separator", "end", "error"}]

\* What is noted of extensions.
Ledgers ==
    {l \in [features : Features, has : SUBSET Listed, flags : SUBSET Listed,
            required : SUBSET Listed, wrote : SUBSET Listed] :
        l.has \subseteq l.features}

QuietOf(exts) ==
    /\ "KHR_materials_unlit" \in exts =>
          exts \intersect {"KHR_materials_emissive_strength", "KHR_materials_iridescence",
              "KHR_materials_diffuse_transmission", "KHR_materials_anisotropy",
              "KHR_materials_dispersion"} = {}
    /\ exts \intersect Unquoted = {}

Quiet(s) == QuietOf(s.ledger.features)

States ==
    {s \in [comma : BOOLEAN, text : Texts, ledger : Ledgers, declared : SUBSET Listed] :
        Quiet(s) => s.text # Malformed}

Printed(s, lexemes) ==
    ReadAll(s.text, (IF s.comma THEN <<",">> ELSE << >>) \o lexemes)

Began(l, ext) == [l EXCEPT !.wrote = (@ \union {ext}) \ {"none"}]

With(s, comma, read, ledger) ==
    [comma |-> comma, text |-> read, ledger |-> ledger, declared |-> s.declared]

AfterLine(s, lexemes, ext) ==
    With(s, Closing(lexemes) /\ ~Opening(lexemes),
         IF Closing(lexemes) THEN ReadAll(s.text, lexemes) ELSE Printed(s, lexemes),
         Began(s.ledger, ext))

AfterProperty(s, value) == With(s, TRUE, Printed(s, Key \o value), s.ledger)

Noted(s, ledger)  == With(s, s.comma, s.text, ledger)
Chosen(s, exts)   == Noted(s, [s.ledger EXCEPT !.has = exts])
Flagged(s, exts)  == Noted(s, [s.ledger EXCEPT !.flags = @ \union exts])
Required(s, ext)  == Noted(s, [s.ledger EXCEPT !.required = @ \union {ext}])

AfterList(s, exts) ==
    IF exts = {} THEN s
    ELSE With(s, TRUE, Printed(s, Key \o <<"[">> \o Names(Cardinality(exts \intersect Listed))
                                       \o <<"]">>), s.ledger)

AfterUsed(s) ==
    [AfterList(s, s.ledger.flags) EXCEPT !.declared = s.ledger.flags \intersect Listed]

AfterEnd(s) == With(s, s.comma, Read(s.text, "}"), s.ledger)

\* A step leads from the states that a has in front of it to those a has where
\* it goes.
Prints(step, a, i) ==
    /\ step.op = "line" => \A s \in a[i] : AfterLine(s, step.arg, step.name) \in a[i + 1]
    /\ step.op = "props" =>
          \A s \in a[i] : /\ s \in a[i + 1]
                          /\ \A value \in Values(s.ledger.features) :
                                AfterProperty(s, value) \in a[i]
    /\ step.op = "extensionsUsed" => \A s \in a[i] : AfterUsed(s) \in a[i + 1]
    /\ step.op = "extensionsRequired" =>
          \A s \in a[i] : AfterList(s, s.ledger.required) \in a[i + 1]
    /\ step.op = "end" => \A s \in a[i] : AfterEnd(s) \in a[i + 1]

Notes(step, a, i) ==
    /\ step.op \in {"choose", "lists"} =>
          \A s \in a[i] : \A exts \in SUBSET (step.arg \intersect s.ledger.features) :
              Chosen(s, exts) \in a[i + 1]
    /\ step.op = "flag" => \A s \in a[i] : Flagged(s, {step.arg}) \in a[i + 1]
    /\ step.op = "flag_those" => \A s \in a[i] : Flagged(s, s.ledger.has) \in a[i + 1]
    /\ step.op = "require" => \A s \in a[i] : Required(s, step.arg) \in a[i + 1]

Skips(step, a, i) ==
    step.op = "if" =>
        /\ step.skip \in Nat /\ i + 1 + step.skip \in DOMAIN a
        /\ \A s \in a[i] : s \in IF s.ledger.has \intersect step.arg # {} THEN a[i + 1]
                                 ELSE a[i + 1 + step.skip]

Leaves(step, a, i) ==
    step.op = "maybe" =>
        /\ step.skip \in Nat /\ i + 1 + step.skip \in DOMAIN a
        /\ \A s \in a[i] : /\ s \in a[i + 1 + step.skip]
                           /\ step.arg \in s.ledger.features \union {"none"} => s \in a[i + 1]

Repeats(step, a, i) ==
    step.op = "again" =>
        /\ step.arg \in Nat /\ i - step.arg \in DOMAIN a
        /\ \A s \in a[i] : s \in a[i - step.arg] /\ s \in a[i + 1]

Branches(step, a, i) == Skips(step, a, i) /\ Leaves(step, a, i) /\ Repeats(step, a, i)

Leads(step, a, i) == Prints(step, a, i) /\ Notes(step, a, i) /\ Branches(step, a, i)

IsSteps(steps) == \E S : steps \in Seq(S)

Annotates(a, steps) ==
    /\ a \in [1 .. Len(steps) + 1 -> SUBSET States]
    /\ \A i \in 1 .. Len(steps) : Leads(steps[i], a, i)

\* Whatever has P in front of these steps has Q behind them, and is a state at
\* every one of them.
Triple(P, steps, Q) ==
    /\ IsSteps(steps)
    /\ \E a : Annotates(a, steps) /\ P \subseteq a[1] /\ a[Len(steps) + 1] \subseteq Q

-----------------------------------------------------------------------------
\* A step asks the same of assertions that stand somewhere else, weaker there.
LEMMA Moved ==
  ASSUME NEW step, NEW a, NEW i \in Int, NEW c, NEW d \in Int,
         DOMAIN a \subseteq Int, i + 1 \in DOMAIN a,
         Leads(step, a, i), c[i + d] = a[i],
         \A j \in DOMAIN a : j + d \in DOMAIN c /\ a[j] \subseteq c[j + d]
  PROVE  Leads(step, c, i + d)
<1>0. /\ i + d + 1 = i + 1 + d
      /\ a[i + 1] \subseteq c[i + d + 1]
  BY Z3
<1>1. Prints(step, c, i + d)
  BY <1>0 DEF Leads, Prints
<1>2. Notes(step, c, i + d)
  BY <1>0 DEF Leads, Notes
<1>3. Skips(step, c, i + d)
  <2>1. SUFFICES ASSUME step.op = "if"
        PROVE  /\ step.skip \in Nat /\ i + d + 1 + step.skip \in DOMAIN c
               /\ \A s \in c[i + d] :
                     s \in IF s.ledger.has \intersect step.arg # {} THEN c[i + d + 1]
                           ELSE c[i + d + 1 + step.skip]
    BY Zenon DEF Skips
  <2>2. /\ step.skip \in Nat /\ i + 1 + step.skip \in DOMAIN a
        /\ \A s \in a[i] : s \in IF s.ledger.has \intersect step.arg # {} THEN a[i + 1]
                                 ELSE a[i + 1 + step.skip]
    BY <2>1 DEF Leads, Branches, Skips
  <2>3. i + d + 1 + step.skip = i + 1 + step.skip + d
    BY <2>2
  <2>4. i + d + 1 + step.skip \in DOMAIN c /\ a[i + 1 + step.skip] \subseteq c[i + d + 1 + step.skip]
    BY <2>2, <2>3
  <2> QED  BY <1>0, <2>2, <2>4
<1>4. Leaves(step, c, i + d)
  <2>1. SUFFICES ASSUME step.op = "maybe"
        PROVE  /\ step.skip \in Nat /\ i + d + 1 + step.skip \in DOMAIN c
               /\ \A s \in c[i + d] :
                    /\ s \in c[i + d + 1 + step.skip]
                    /\ step.arg \in s.ledger.features \union {"none"} => s \in c[i + d + 1]
    BY Zenon DEF Leaves
  <2>2. /\ step.skip \in Nat /\ i + 1 + step.skip \in DOMAIN a
        /\ \A s \in a[i] : /\ s \in a[i + 1 + step.skip]
                           /\ step.arg \in s.ledger.features \union {"none"} => s \in a[i + 1]
    BY <2>1 DEF Leads, Branches, Leaves
  <2>3. i + d + 1 + step.skip = i + 1 + step.skip + d
    BY <2>2
  <2>4. i + d + 1 + step.skip \in DOMAIN c /\ a[i + 1 + step.skip] \subseteq c[i + d + 1 + step.skip]
    BY <2>2, <2>3
  <2> QED  BY <1>0, <2>2, <2>4
<1>5. Repeats(step, c, i + d)
  <2>1. SUFFICES ASSUME step.op = "again"
        PROVE  /\ step.arg \in Nat /\ i + d - step.arg \in DOMAIN c
               /\ \A s \in c[i + d] : s \in c[i + d - step.arg] /\ s \in c[i + d + 1]
    BY DEF Repeats
  <2>2. /\ step.arg \in Nat /\ i - step.arg \in DOMAIN a
        /\ \A s \in a[i] : s \in a[i - step.arg] /\ s \in a[i + 1]
    BY <2>1 DEF Leads, Branches, Repeats
  <2>3. i + d - step.arg = i - step.arg + d
    BY <2>2
  <2>4. i + d - step.arg \in DOMAIN c /\ a[i - step.arg] \subseteq c[i + d - step.arg]
    BY <2>2, <2>3
  <2> QED  BY <1>0, <2>2, <2>4
<1> QED
  BY <1>1, <1>2, <1>3, <1>4, <1>5 DEF Leads, Branches

\* Steps can be counted.
LEMMA StepsHaveLength == ASSUME NEW steps, IsSteps(steps) PROVE Len(steps) \in Nat
  BY DEF IsSteps

\* More may be asked in front, and less promised behind.
LEMMA TripleWeaker ==
  ASSUME NEW P, NEW Q, NEW R, NEW V, NEW steps, Triple(Q, steps, R), P \subseteq Q, R \subseteq V
  PROVE  Triple(P, steps, V)
  BY DEF Triple

\* One after the other.
LEMMA InSequence ==
  ASSUME NEW P, NEW Q, NEW R, NEW s, NEW t, Triple(P, s, Q), Triple(Q, t, R)
  PROVE  Triple(P, s \o t, R)
<1>1. PICK a : Annotates(a, s) /\ P \subseteq a[1] /\ a[Len(s) + 1] \subseteq Q
  BY DEF Triple
<1>2. PICK b : Annotates(b, t) /\ Q \subseteq b[1] /\ b[Len(t) + 1] \subseteq R
  BY DEF Triple
<1>3. PICK S : s \in Seq(S)
  BY DEF Triple, IsSteps
<1>4. PICK T : t \in Seq(T)
  BY DEF Triple, IsSteps
<1>5. /\ s \o t \in Seq(S \union T) /\ Len(s \o t) = Len(s) + Len(t)
      /\ \A i \in 1 .. Len(s) + Len(t) :
            (s \o t)[i] = IF i <= Len(s) THEN s[i] ELSE t[i - Len(s)]
  <2>1. s \in Seq(S \union T) /\ t \in Seq(S \union T)
    BY <1>3, <1>4, SeqMonotonic
  <2> QED  BY <2>1, ConcatProperties
<1>6. Len(s) \in Nat /\ Len(t) \in Nat
  BY <1>3, <1>4
<1> DEFINE n == Len(s)
           m == Len(t)
           c == [i \in 1 .. n + m + 1 |-> IF i <= n THEN a[i] ELSE b[i - n]]
<1>7. /\ a \in [1 .. n + 1 -> SUBSET States] /\ b \in [1 .. m + 1 -> SUBSET States]
      /\ n \in Nat /\ m \in Nat
  BY <1>1, <1>2, <1>6 DEF Annotates
<1> HIDE DEF n, m
<1>8. /\ \A i \in 1 .. n : c[i] = a[i]
      /\ \A i \in 1 .. m + 1 : c[i + n] = b[i]
      /\ DOMAIN c = 1 .. n + m + 1
  BY <1>7
<1>9. c \in [1 .. n + m + 1 -> SUBSET States]
  BY <1>7
<1>10. a[n + 1] \subseteq c[n + 1]
  <2>1. c[1 + n] = b[1] /\ 1 + n = n + 1
    BY <1>7, <1>8
  <2> QED  BY <1>1, <1>2, <2>1 DEF n
<1> HIDE DEF c
<1>11. ASSUME NEW i \in 1 .. n PROVE Leads(s[i], c, i)
  <2>1. /\ Leads(s[i], a, i) /\ i \in Int /\ i + 1 \in DOMAIN a /\ DOMAIN a \subseteq Int
        /\ c[i + 0] = a[i] /\ i + 0 = i
    BY <1>1, <1>7, <1>8 DEF Annotates, n
  <2>2. ASSUME NEW j \in DOMAIN a PROVE j + 0 \in DOMAIN c /\ a[j] \subseteq c[j + 0]
    <3>1. j + 0 = j /\ j \in DOMAIN c
      BY <1>7, <1>8
    <3>2. CASE j = n + 1
      BY <1>10, <3>1, <3>2
    <3>3. CASE j \in 1 .. n
      BY <1>8, <3>1, <3>3
    <3> QED  BY <1>7, <3>1, <3>2, <3>3
  <2>3. Leads(s[i], c, i + 0)
    BY <2>1, <2>2, Moved
  <2> QED  BY <2>1, <2>3
<1>12. ASSUME NEW i \in 1 .. m PROVE Leads(t[i], c, i + n)
  <2>1. /\ Leads(t[i], b, i) /\ i \in Int /\ i + 1 \in DOMAIN b /\ DOMAIN b \subseteq Int
        /\ c[i + n] = b[i] /\ n \in Int
    BY <1>2, <1>7, <1>8 DEF Annotates, m
  <2>2. \A j \in DOMAIN b : j + n \in DOMAIN c /\ b[j] \subseteq c[j + n]
    BY <1>7, <1>8
  <2> QED  BY <2>1, <2>2, Moved
<1>13. ASSUME NEW i \in 1 .. n + m PROVE Leads((s \o t)[i], c, i)
  <2>1. CASE i <= n
    BY <1>5, <1>7, <1>11, <2>1 DEF n, m
  <2>2. CASE i > n
    <3>1. PICK k \in 1 .. m : k = i - n /\ i = k + n
      BY <1>7, <2>2
    <3>2. (s \o t)[i] = t[k]
      BY <1>5, <1>7, <2>2, <3>1 DEF n, m
    <3>3. Leads(t[k], c, k + n)
      BY <1>12
    <3>4. k + n = i
      BY <3>1
    <3>5. Leads(t[k], c, i)
      BY <3>3, <3>4, Zenon
    <3> QED  BY <3>2, <3>5, Zenon
  <2>3. i <= n \/ i > n
    BY <1>7
  <2> QED  BY <2>1, <2>2, <2>3, Zenon
<1>14. Annotates(c, s \o t)
  BY <1>5, <1>9, <1>13 DEF Annotates, n, m
<1>15. P \subseteq c[1]
  <2>1. CASE n = 0
    BY <1>1, <1>10, <2>1 DEF n
  <2>2. CASE n # 0
    BY <1>1, <1>7, <1>8, <2>2
  <2> QED  BY <2>1, <2>2
<1>16. c[Len(s \o t) + 1] \subseteq R
  <2>1. c[m + 1 + n] = b[m + 1] /\ m + 1 + n = Len(s \o t) + 1
    BY <1>5, <1>7, <1>8 DEF n, m
  <2> QED  BY <1>2, <2>1 DEF m
<1>17. IsSteps(s \o t)
  BY <1>5 DEF IsSteps
<1> QED
  BY <1>14, <1>15, <1>16, <1>17 DEF Triple

\* A step of its own.
LEMMA Single ==
  ASSUME NEW step, NEW P \in SUBSET States, NEW Q \in SUBSET States,
         Leads(step, <<P, Q>>, 1)
  PROVE  Triple(P, <<step>>, Q)
<1> DEFINE a == [i \in 1 .. 2 |-> <<P, Q>>[i]]
<1>1. <<step>> \in Seq({step}) /\ Len(<<step>>) = 1 /\ <<step>>[1] = step
  OBVIOUS
<1>2. a \in [1 .. 2 -> SUBSET States] /\ a[1] = P /\ a[2] = Q /\ DOMAIN a = 1 .. 2
  OBVIOUS
<1>3. DOMAIN <<P, Q>> = 1 .. 2 /\ <<P, Q>>[1] = P /\ <<P, Q>>[2] = Q
  OBVIOUS
<1> HIDE DEF a
<1>4. Leads(step, a, 1)
  <2>1. /\ a[1 + 0] = <<P, Q>>[1] /\ 1 + 1 \in DOMAIN <<P, Q>>
        /\ DOMAIN <<P, Q>> \subseteq Int
    BY <1>2, <1>3
  <2>2. \A j \in DOMAIN <<P, Q>> : j + 0 \in DOMAIN a /\ <<P, Q>>[j] \subseteq a[j + 0]
    BY <1>2, <1>3
  <2>3. Leads(step, a, 1 + 0)
    BY <2>1, <2>2, Moved
  <2> QED  BY <2>3
<1>5. Annotates(a, <<step>>)
  BY <1>1, <1>2, <1>4 DEF Annotates
<1>6. a[Len(<<step>>) + 1] = Q
  BY <1>1, <1>2
<1>7. IsSteps(<<step>>)
  BY <1>1 DEF IsSteps
<1> QED
  BY <1>2, <1>5, <1>6, <1>7 DEF Triple

\* The last of the assertions can be the one that is claimed.
LEMMA Ending ==
  ASSUME NEW P, NEW Q \in SUBSET States, NEW steps, Triple(P, steps, Q)
  PROVE  \E a : Annotates(a, steps) /\ P \subseteq a[1] /\ a[Len(steps) + 1] = Q
<1>1. PICK a : Annotates(a, steps) /\ P \subseteq a[1] /\ a[Len(steps) + 1] \subseteq Q
  BY DEF Triple
<1> DEFINE n == Len(steps)
           c == [i \in 1 .. n + 1 |-> IF i = n + 1 THEN Q ELSE a[i]]
<1>2. n \in Nat /\ a \in [1 .. n + 1 -> SUBSET States]
  BY <1>1, StepsHaveLength DEF Triple, Annotates
<1>3. /\ c \in [1 .. n + 1 -> SUBSET States] /\ c[n + 1] = Q
      /\ \A i \in 1 .. n : c[i] = a[i]
      /\ DOMAIN c = 1 .. n + 1
  <2> HIDE DEF n
  <2> QED  BY <1>2
<1>4. \A j \in DOMAIN a : j + 0 \in DOMAIN c /\ a[j] \subseteq c[j + 0]
  <2>1. a[n + 1] \subseteq c[n + 1]
    BY <1>1, <1>3
  <2> HIDE DEF n, c
  <2>2. ASSUME NEW j \in DOMAIN a PROVE j + 0 \in DOMAIN c /\ a[j] \subseteq c[j + 0]
    <3>1. j + 0 = j /\ j \in DOMAIN c
      BY <1>2, <1>3
    <3>2. CASE j = n + 1
      BY <2>1, <3>1, <3>2
    <3>3. CASE j \in 1 .. n
      BY <1>3, <3>1, <3>3
    <3> QED  BY <1>2, <3>1, <3>2, <3>3
  <2> QED  BY <2>2
<1>5. ASSUME NEW i \in 1 .. n PROVE Leads(steps[i], c, i)
  <2>1. Leads(steps[i], a, i)
    BY <1>1 DEF Annotates
  <2> HIDE DEF n, c
  <2>2. /\ i \in Int /\ i + 1 \in DOMAIN a /\ DOMAIN a \subseteq Int
        /\ c[i + 0] = a[i] /\ i + 0 = i
    BY <1>2, <1>3
  <2>3. Leads(steps[i], c, i + 0)
    BY <1>4, <2>1, <2>2, Moved
  <2> QED  BY <2>2, <2>3
<1>6. Annotates(c, steps)
  <2> HIDE DEF c
  <2> QED  BY <1>3, <1>5 DEF Annotates
<1>7. P \subseteq c[1]
  <2> HIDE DEF n, c
  <2>1. CASE n = 0
    BY <1>1, <1>3, <1>4, <1>2, <2>1
  <2>2. CASE n # 0
    BY <1>1, <1>2, <1>3, <2>2
  <2> QED  BY <2>1, <2>2
<1> QED
  <2> HIDE DEF c
  <2> QED  BY <1>3, <1>6, <1>7

\* A step in front of others.
LEMMA InFront ==
  ASSUME NEW step, NEW P \in SUBSET States, NEW Q \in SUBSET States, NEW steps, NEW a,
         IsSteps(steps), Annotates(a, steps), a[Len(steps) + 1] = Q,
         NEW c, c = [i \in 1 .. Len(steps) + 2 |-> IF i = 1 THEN P ELSE a[i - 1]],
         Leads(step, c, 1)
  PROVE  Triple(P, <<step>> \o steps, Q)
<1> DEFINE n == Len(steps)
           all == <<step>> \o steps
<1>1. PICK S : steps \in Seq(S)
  BY DEF IsSteps
<1>2. n \in Nat /\ a \in [1 .. n + 1 -> SUBSET States]
  BY <1>1 DEF Annotates
<1>3. /\ all \in Seq(S \union {step}) /\ Len(all) = n + 1
      /\ all[1] = step /\ \A i \in 1 .. n : all[i + 1] = steps[i]
  <2>1. <<step>> \in Seq(S \union {step}) /\ steps \in Seq(S \union {step})
        /\ Len(<<step>>) = 1 /\ <<step>>[1] = step
    BY <1>1, SeqMonotonic
  <2>2. /\ all \in Seq(S \union {step}) /\ Len(all) = 1 + n
        /\ \A i \in 1 .. 1 + n : all[i] = IF i <= 1 THEN <<step>>[i] ELSE steps[i - 1]
    BY <2>1, ConcatProperties
  <2> HIDE DEF all, n
  <2> QED  BY <1>2, <2>1, <2>2
<1> HIDE DEF n, all
<1>4. c = [i \in 1 .. n + 2 |-> IF i = 1 THEN P ELSE a[i - 1]]
  BY DEF n
<1>5. /\ c \in [1 .. n + 2 -> SUBSET States] /\ DOMAIN c = 1 .. n + 2 /\ c[1] = P
      /\ \A i \in 1 .. n + 1 : c[i + 1] = a[i]
  BY <1>2, <1>4
<1>6. ASSUME NEW i \in 1 .. n PROVE Leads(steps[i], c, i + 1)
  <2>1. /\ Leads(steps[i], a, i) /\ i \in Int /\ i + 1 \in DOMAIN a /\ DOMAIN a \subseteq Int
        /\ c[i + 1] = a[i] /\ 1 \in Int
    BY <1>2, <1>5 DEF Annotates, n
  <2>2. \A j \in DOMAIN a : j + 1 \in DOMAIN c /\ a[j] \subseteq c[j + 1]
    BY <1>2, <1>5
  <2> QED  BY <2>1, <2>2, Moved
<1>7. ASSUME NEW i \in 1 .. n + 1 PROVE Leads(all[i], c, i)
  <2>1. CASE i = 1
    BY <1>3, <2>1
  <2>2. CASE i # 1
    <3>1. PICK k \in 1 .. n : k = i - 1 /\ i = k + 1
      BY <1>2, <2>2
    <3>2. all[i] = steps[k] /\ k + 1 = i
      BY <1>3, <3>1
    <3>3. Leads(steps[k], c, k + 1)
      BY <1>6
    <3>4. Leads(steps[k], c, i)
      BY <3>2, <3>3, Zenon
    <3> QED  BY <3>2, <3>4, Zenon
  <2> QED  BY <2>1, <2>2
<1>8. Annotates(c, all)
  <2>1. Len(all) = n + 1 /\ n + 1 + 1 = n + 2
    BY <1>2, <1>3
  <2> QED  BY <1>5, <1>7, <2>1 DEF Annotates
<1>9. c[Len(all) + 1] = Q /\ P \subseteq c[1]
  <2>1. c[n + 1 + 1] = a[n + 1]
    BY <1>2, <1>5
  <2> QED  BY <1>3, <1>5, <2>1 DEF n
<1>10. IsSteps(all)
  BY <1>3 DEF IsSteps
<1> QED
  BY <1>8, <1>9, <1>10 DEF Triple, all

Having(P, exts)    == {s \in P : s.ledger.has \intersect exts # {}}
Lacking(P, exts)   == {s \in P : s.ledger.has \intersect exts = {}}
Featuring(P, name) == {s \in P : name \in s.ledger.features \union {"none"}}

\* An if on what the object has.
LEMMA TripleIf ==
  ASSUME NEW P \in SUBSET States, NEW Q \in SUBSET States, NEW exts, NEW steps,
         Triple(Having(P, exts), steps, Q), Lacking(P, exts) \subseteq Q
  PROVE  Triple(P, If(exts, steps), Q)
<1> DEFINE n == Len(steps)
           step == [op |-> "if", arg |-> exts, skip |-> n]
<1>1. PICK a : Annotates(a, steps) /\ Having(P, exts) \subseteq a[1] /\ a[n + 1] = Q
  BY Ending
<1>2. n \in Nat /\ IsSteps(steps)
  BY StepsHaveLength DEF Triple
<1> DEFINE c == [i \in 1 .. n + 2 |-> IF i = 1 THEN P ELSE a[i - 1]]
<1>3. /\ step.op = "if" /\ step.arg = exts /\ step.skip = n
  OBVIOUS
<1> HIDE DEF n, step
<1>4. /\ c[1] = P /\ c[1 + 1] = a[1] /\ c[1 + 1 + n] = Q /\ 1 + 1 + n \in DOMAIN c
  BY <1>1, <1>2
<1> HIDE DEF c
<1>5. \A s \in c[1] : s \in IF s.ledger.has \intersect exts # {} THEN c[1 + 1]
                            ELSE c[1 + 1 + n]
  BY <1>1, <1>4 DEF Having, Lacking
<1>6. Skips(step, c, 1)
  BY <1>2, <1>3, <1>4, <1>5 DEF Skips
<1>7. Leads(step, c, 1)
  BY <1>3, <1>6 DEF Leads, Prints, Notes, Branches, Leaves, Repeats
<1>8. Triple(P, <<step>> \o steps, Q)
  BY <1>1, <1>2, <1>7, InFront DEF c, n
<1> QED
  BY <1>8 DEF If, step, n

\* An if on what the document has, inside an extension.
LEMMA TripleMaybeExtension ==
  ASSUME NEW P \in SUBSET States, NEW Q \in SUBSET States, NEW name, NEW steps,
         Triple(Featuring(P, name), steps, Q), P \subseteq Q
  PROVE  Triple(P, MaybeExtension(name, steps), Q)
<1> DEFINE n == Len(steps)
           step == [op |-> "maybe", arg |-> name, skip |-> n]
<1>1. PICK a : Annotates(a, steps) /\ Featuring(P, name) \subseteq a[1] /\ a[n + 1] = Q
  BY Ending
<1>2. n \in Nat /\ IsSteps(steps)
  BY StepsHaveLength DEF Triple
<1> DEFINE c == [i \in 1 .. n + 2 |-> IF i = 1 THEN P ELSE a[i - 1]]
<1>3. /\ step.op = "maybe" /\ step.arg = name /\ step.skip = n
  OBVIOUS
<1> HIDE DEF n, step
<1>4. /\ c[1] = P /\ c[1 + 1] = a[1] /\ c[1 + 1 + n] = Q /\ 1 + 1 + n \in DOMAIN c
  BY <1>1, <1>2
<1> HIDE DEF c
<1>5. \A s \in c[1] : /\ s \in c[1 + 1 + n]
                      /\ name \in s.ledger.features \union {"none"} => s \in c[1 + 1]
  BY <1>1, <1>4 DEF Featuring
<1>6. Leaves(step, c, 1)
  BY <1>2, <1>3, <1>4, <1>5 DEF Leaves
<1>7. Leads(step, c, 1)
  BY <1>3, <1>6 DEF Leads, Prints, Notes, Branches, Skips, Repeats
<1>8. Triple(P, <<step>> \o steps, Q)
  BY <1>1, <1>2, <1>7, InFront DEF c, n
<1> QED
  BY <1>8 DEF MaybeExtension, step, n

\* An if or a loop on what the document has.
LEMMA TripleMaybe ==
  ASSUME NEW P \in SUBSET States, NEW Q \in SUBSET States, NEW steps,
         Triple(P, steps, Q), P \subseteq Q
  PROVE  Triple(P, Maybe(steps), Q)
<1>1. Featuring(P, "none") = P
  BY DEF Featuring
<1>2. Triple(P, MaybeExtension("none", steps), Q)
  BY <1>1, TripleMaybeExtension
<1> QED
  BY <1>2 DEF Maybe, MaybeExtension

\* Steps once or more: what is true behind them is true in front again.
LEMMA TripleSome ==
  ASSUME NEW P \in SUBSET States, NEW Q \in SUBSET States, NEW steps,
         Triple(P, steps, Q), Q \subseteq P
  PROVE  Triple(P, Some(steps), Q)
<1> DEFINE n == Len(steps)
           step == [op |-> "again", arg |-> n]
           all == steps \o <<step>>
<1>1. PICK a : Annotates(a, steps) /\ P \subseteq a[1] /\ a[n + 1] = Q
  BY Ending
<1>2. PICK S : steps \in Seq(S)
  BY DEF Triple, IsSteps
<1>3. step.op = "again" /\ step.arg = n
  OBVIOUS
<1>4. n \in Nat /\ a \in [1 .. n + 1 -> SUBSET States]
  BY <1>1, <1>2 DEF Annotates
<1>5. /\ all \in Seq(S \union {step}) /\ Len(all) = n + 1
      /\ all[n + 1] = step /\ \A i \in 1 .. n : all[i] = steps[i]
  <2> DEFINE one == <<step>>
  <2>1. /\ one \in Seq(S \union {step}) /\ steps \in Seq(S \union {step})
        /\ Len(one) = 1 /\ one[1] = step
    <3> HIDE DEF step
    <3> QED  BY <1>2, SeqMonotonic
  <2>2. all = steps \o one
    OBVIOUS
  <2> HIDE DEF all, n, step, one
  <2>3. /\ all \in Seq(S \union {step}) /\ Len(all) = Len(steps) + 1
        /\ \A i \in 1 .. Len(steps) + 1 :
              all[i] = IF i <= Len(steps) THEN steps[i] ELSE one[i - Len(steps)]
    <3>1. /\ steps \o one \in Seq(S \union {step}) /\ Len(steps \o one) = Len(steps) + Len(one)
          /\ \A i \in 1 .. Len(steps) + Len(one) :
                (steps \o one)[i] = IF i <= Len(steps) THEN steps[i] ELSE one[i - Len(steps)]
      BY <2>1, ConcatProperties
    <3> QED  BY Zenon, <2>1, <2>2, <3>1
  <2>4. n + 1 - n = 1 /\ ~(n + 1 <= n) /\ n + 1 \in 1 .. n + 1
    BY <1>4
  <2>5. all[n + 1] = one[n + 1 - n]
    BY <2>3, <2>4 DEF n
  <2>6. all[n + 1] = step
    BY <2>1, <2>4, <2>5
  <2>7. \A i \in 1 .. n : i <= n /\ i \in 1 .. n + 1
    BY <1>4
  <2> QED  BY <2>3, <2>6, <2>7 DEF n
<1> HIDE DEF n, step, all
<1> DEFINE c == [i \in 1 .. n + 2 |-> IF i = n + 2 THEN Q ELSE a[i]]
<1>6. /\ c \in [1 .. n + 2 -> SUBSET States] /\ DOMAIN c = 1 .. n + 2
      /\ c[n + 2] = Q /\ \A i \in 1 .. n + 1 : c[i] = a[i]
  <2>1. \A i \in 1 .. n + 1 : i \in 1 .. n + 2 /\ i # n + 2 /\ n + 2 \in 1 .. n + 2
    BY <1>4
  <2>2. \A i \in 1 .. n + 2 : i # n + 2 => i \in 1 .. n + 1
    BY <1>4
  <2>3. \A i \in 1 .. n + 2 : (IF i = n + 2 THEN Q ELSE a[i]) \in SUBSET States
    BY <1>4, <2>2
  <2> QED  BY <1>4, <2>1, <2>3
<1> HIDE DEF c
<1>7. ASSUME NEW i \in 1 .. n PROVE Leads(steps[i], c, i)
  <2>1. /\ Leads(steps[i], a, i) /\ i \in Int /\ i + 1 \in DOMAIN a /\ DOMAIN a \subseteq Int
        /\ c[i + 0] = a[i] /\ i + 0 = i
    BY <1>1, <1>4, <1>6 DEF Annotates, n
  <2>2. \A j \in DOMAIN a : j + 0 \in DOMAIN c /\ a[j] \subseteq c[j + 0]
    BY <1>4, <1>6
  <2>3. Leads(steps[i], c, i + 0)
    BY <2>1, <2>2, Moved
  <2> QED  BY <2>1, <2>3
<1>8. Leads(step, c, n + 1)
  <2>1. PICK k \in Nat : k = n + 1
    BY <1>4
  <2>2. /\ k - step.arg = 1 /\ 1 \in DOMAIN c /\ step.arg \in Nat
        /\ k \in 1 .. n + 1 /\ k + 1 = n + 2 /\ 1 \in 1 .. n + 1
    BY <1>3, <1>4, <1>6, <2>1
  <2>3. c[k] = Q /\ P \subseteq c[1] /\ c[k + 1] = Q /\ c[k - step.arg] = c[1]
    BY <1>1, <1>6, <2>1, <2>2
  <2>4. \A s \in c[k] : s \in c[k - step.arg] /\ s \in c[k + 1]
    BY <2>3
  <2>5. Repeats(step, c, k)
    BY <2>2, <2>4 DEF Repeats
  <2>6. Leads(step, c, k)
    BY <1>3, <2>5 DEF Leads, Prints, Notes, Branches, Skips, Leaves
  <2> QED  BY <2>1, <2>6
<1>9. ASSUME NEW i \in 1 .. n + 1 PROVE Leads(all[i], c, i)
  <2>1. CASE i = n + 1
    BY <1>5, <1>8, <2>1
  <2>2. CASE i \in 1 .. n
    BY <1>5, <1>7, <2>2
  <2>3. i = n + 1 \/ i \in 1 .. n
    BY <1>4
  <2> QED  BY <2>1, <2>2, <2>3, Zenon
<1>10. Annotates(c, all)
  <2>1. Len(all) = n + 1 /\ n + 1 + 1 = n + 2
    BY <1>4, <1>5
  <2> QED  BY <1>6, <1>9, <2>1 DEF Annotates
<1>11. c[Len(all) + 1] = Q /\ P \subseteq c[1]
  <2>1. n + 1 + 1 = n + 2
    BY <1>4
  <2> QED  BY <1>1, <1>4, <1>5, <1>6, <2>1
<1>12. IsSteps(all)
  BY <1>5 DEF IsSteps
<1> QED
  BY <1>10, <1>11, <1>12 DEF Triple, Some, Do, all, step, n

-----------------------------------------------------------------------------
\* Text.

\* Lexemes are read in parts as they are read at once.
LEMMA SeveralAreRead ==
  ASSUME NEW t, NEW S, NEW s1 \in Seq(S), NEW s2 \in Seq(S)
  PROVE  ReadAll(t, s1 \o s2) = ReadAll(ReadAll(t, s1), s2)
<1> DEFINE n == Len(s1)
           m == Len(s2)
<1>1. /\ Len(s1 \o s2) = n + m /\ n \in Nat /\ m \in Nat
      /\ \A i \in 1 .. n + m : (s1 \o s2)[i] = IF i <= n THEN s1[i] ELSE s2[i - n]
  BY ConcatProperties
<1>2. PICK r : /\ r[0] = t
               /\ \A i \in 1 .. n + m : r[i] = Read(r[i - 1], (s1 \o s2)[i])
               /\ ReadAll(t, s1 \o s2) = r[n + m]
  <2>1. Len(s1 \o s2) \in Nat
    BY <1>1
  <2>2. PICK r : /\ r[0] = t
                 /\ \A i \in 1 .. Len(s1 \o s2) : r[i] = Read(r[i - 1], (s1 \o s2)[i])
                 /\ ReadAll(t, s1 \o s2) = r[Len(s1 \o s2)]
    BY <2>1, Readings
  <2> QED  BY Zenon, <1>1, <2>2
<1>3. PICK r1 : /\ r1[0] = t
                /\ \A i \in 1 .. n : r1[i] = Read(r1[i - 1], s1[i])
                /\ ReadAll(t, s1) = r1[n]
  BY <1>1, Readings
<1>4. PICK r2 : /\ r2[0] = r1[n]
                /\ \A i \in 1 .. m : r2[i] = Read(r2[i - 1], s2[i])
                /\ ReadAll(r1[n], s2) = r2[m]
  <2>1. PICK u : u = r1[n]
    OBVIOUS
  <2>2. PICK r2 : /\ r2[0] = u
                  /\ \A i \in 1 .. Len(s2) : r2[i] = Read(r2[i - 1], s2[i])
                  /\ ReadAll(u, s2) = r2[Len(s2)]
    BY <1>1, Readings
  <2> QED  BY Zenon, <2>1, <2>2
<1> HIDE DEF n, m
<1>5. \A i \in Nat : i <= n => r[i] = r1[i]
  <2> DEFINE T == {i \in Nat : i <= n => r[i] = r1[i]}
  <2>1. 0 \in T
    BY <1>2, <1>3
  <2>2. ASSUME NEW i \in Nat, i \in T PROVE i + 1 \in T
    <3>1. SUFFICES ASSUME i + 1 <= n PROVE r[i + 1] = r1[i + 1]
      OBVIOUS
    <3>2. PICK k \in Nat : k = i + 1
      OBVIOUS
    <3>3. /\ k \in 1 .. n /\ k \in 1 .. n + m /\ k - 1 = i /\ k <= n /\ i <= n
      BY <1>1, <3>1, <3>2
    <3>4. r[k] = Read(r[i], s1[k])
      BY <1>1, <1>2, <3>3
    <3>5. r1[k] = Read(r1[i], s1[k])
      BY <1>3, <3>3
    <3>6. r[i] = r1[i]
      BY <2>2, <3>3
    <3> QED  BY <3>2, <3>4, <3>5, <3>6
  <2> HIDE DEF T
  <2>3. Nat \subseteq T
    BY <2>1, <2>2, CountsThroughNat
  <2> QED  BY <2>3 DEF T
<1>6. \A i \in Nat : i <= m => r[n + i] = r2[i]
  <2> DEFINE T == {i \in Nat : i <= m => r[n + i] = r2[i]}
  <2>1. 0 \in T
    <3>1. n + 0 = n /\ n <= n
      BY <1>1
    <3> QED  BY <1>1, <1>4, <1>5, <3>1
  <2>2. ASSUME NEW i \in Nat, i \in T PROVE i + 1 \in T
    <3>1. SUFFICES ASSUME i + 1 <= m PROVE r[n + (i + 1)] = r2[i + 1]
      OBVIOUS
    <3>2. PICK k \in Nat : k = n + (i + 1)
      BY <1>1
    <3>3. /\ k \in 1 .. n + m /\ k - 1 = n + i /\ k - n = i + 1 /\ ~(k <= n)
          /\ i + 1 \in 1 .. m /\ i + 1 - 1 = i /\ i <= m
      BY <1>1, <3>1, <3>2
    <3>4. r[k] = Read(r[n + i], s2[i + 1])
      BY <1>1, <1>2, <3>3
    <3>5. r2[i + 1] = Read(r2[i], s2[i + 1])
      BY <1>4, <3>3
    <3>6. r[n + i] = r2[i]
      BY <2>2, <3>3
    <3> QED  BY <3>2, <3>4, <3>5, <3>6
  <2> HIDE DEF T
  <2>3. Nat \subseteq T
    BY <2>1, <2>2, CountsThroughNat
  <2> QED  BY <2>3 DEF T
<1>7. r[n + m] = r2[m]
  BY <1>1, <1>6
<1> QED
  BY <1>2, <1>3, <1>4, <1>7

\* One lexeme, two, five: a line has no more of its own.
LEMMA OneIsRead == ASSUME NEW t, NEW x PROVE ReadAll(t, <<x>>) = Read(t, x)
<1>1. Len(<<x>>) = 1 /\ <<x>>[1] = x /\ 1 - 1 = 0 /\ 1 \in 1 .. 1
  OBVIOUS
<1>2. PICK r : /\ r[0] = t
               /\ \A n \in 1 .. Len(<<x>>) : r[n] = Read(r[n - 1], <<x>>[n])
               /\ ReadAll(t, <<x>>) = r[Len(<<x>>)]
  <2>1. Len(<<x>>) \in Nat
    OBVIOUS
  <2> QED  BY <2>1, Readings
<1> QED
  BY <1>1, <1>2

\* Two.
LEMMA TwoAreRead ==
  ASSUME NEW t, NEW x, NEW y PROVE ReadAll(t, <<x, y>>) = Read(Read(t, x), y)
<1> DEFINE s == <<x, y>>
<1>1. Len(s) = 2 /\ s[1] = x /\ s[2] = y
  OBVIOUS
<1> HIDE DEF s
<1>2. PICK r : /\ r[0] = t
               /\ \A n \in 1 .. Len(s) : r[n] = Read(r[n - 1], s[n])
               /\ ReadAll(t, s) = r[Len(s)]
  <2>1. Len(s) \in Nat
    BY <1>1
  <2> QED  BY Zenon, <2>1, Readings
<1>3. r[1] = Read(r[0], x) /\ r[2] = Read(r[1], y) /\ ReadAll(t, s) = r[2]
  BY <1>1, <1>2
<1> QED
  BY <1>2, <1>3 DEF s

\* Five.
LEMMA FiveAreRead ==
  ASSUME NEW t, NEW x1, NEW x2, NEW x3, NEW x4, NEW x5
  PROVE  ReadAll(t, <<x1, x2, x3, x4, x5>>) = Read(Read(Read(Read(Read(t, x1), x2), x3), x4), x5)
<1> DEFINE s == <<x1, x2, x3, x4, x5>>
<1>1. Len(s) = 5 /\ s[1] = x1 /\ s[2] = x2 /\ s[3] = x3 /\ s[4] = x4 /\ s[5] = x5
  OBVIOUS
<1> HIDE DEF s
<1>2. PICK r : /\ r[0] = t
               /\ \A n \in 1 .. Len(s) : r[n] = Read(r[n - 1], s[n])
               /\ ReadAll(t, s) = r[Len(s)]
  <2>1. Len(s) \in Nat
    BY <1>1
  <2> QED  BY Zenon, <2>1, Readings
<1>3. /\ r[1] = Read(r[0], x1) /\ r[2] = Read(r[1], x2) /\ r[3] = Read(r[2], x3)
      /\ r[4] = Read(r[3], x4) /\ r[5] = Read(r[4], x5) /\ ReadAll(t, s) = r[5]
  BY <1>1, <1>2
<1> QED
  BY <1>2, <1>3 DEF s

\* The automaton stays among its states.
LEMMA TextsStay ==
  ASSUME NEW t \in Texts, NEW lexeme PROVE Read(t, lexeme) \in Texts
<1>1. /\ t.open \in Seq(Brackets) /\ t = Text(t.open, t.expect)
      /\ t.expect \in {"value", "element", "key", "member", "colon", "separator", "end", "error"}
  BY DEF Texts, Text
<1>2. /\ Append(t.open, "{") \in Seq(Brackets) /\ Append(t.open, "[") \in Seq(Brackets)
      /\ Front(t.open) \in Seq(Brackets)
  <2>1. "{" \in Brackets /\ "[" \in Brackets
    BY DEF Brackets
  <2>2. Front(t.open) \in Seq(Brackets)
    BY <1>1 DEF Front
  <2>3. \A o \in Seq(Brackets), b \in Brackets : Append(o, b) \in Seq(Brackets)
    BY AppendProperties
  <2> QED  BY Zenon, <1>1, <2>1, <2>2, <2>3
<1>3. \A o \in Seq(Brackets) : AfterValue(o) \in Texts
  BY DEF AfterValue, Texts
<1>4. Malformed \in Texts
  BY DEF Malformed, Texts
<1> DEFINE u == Read(t, lexeme)
<1>5. \/ u = Malformed
      \/ u = [open |-> Append(t.open, "{"), expect |-> "member"]
      \/ u = [open |-> Append(t.open, "["), expect |-> "element"]
      \/ u = AfterValue(Front(t.open))
      \/ u = [t EXCEPT !.expect = "value"]
      \/ u = [t EXCEPT !.expect = IF Last(t.open) = "{" THEN "key" ELSE "value"]
      \/ u = [t EXCEPT !.expect = "colon"]
      \/ u = AfterValue(t.open)
  <2>1. CASE lexeme \notin Allowed(t)
    BY <2>1 DEF Read
  <2>2. CASE lexeme \in Allowed(t)
    <3>1. lexeme \in {"{", "[", "}", "]", ":", ",", "string", "primitive"}
      BY <2>2 DEF Allowed, Closes
    <3>2. CASE lexeme = "{"
      BY <2>2, <3>2 DEF Read
    <3>3. CASE lexeme = "["
      BY <2>2, <3>3 DEF Read
    <3>4. CASE lexeme \in {"}", "]"}
      BY <2>2, <3>4 DEF Read
    <3>5. CASE lexeme = ":"
      BY <2>2, <3>5 DEF Read
    <3>6. CASE lexeme = ","
      BY <2>2, <3>6 DEF Read
    <3>7. CASE lexeme \in {"string", "primitive"}
      BY <2>2, <3>7 DEF Read
    <3> QED  BY <3>1, <3>2, <3>3, <3>4, <3>5, <3>6, <3>7
  <2> QED  BY <2>1, <2>2
<1>6. /\ [t EXCEPT !.expect = "value"] \in Texts
      /\ [t EXCEPT !.expect = IF Last(t.open) = "{" THEN "key" ELSE "value"] \in Texts
      /\ [t EXCEPT !.expect = "colon"] \in Texts
  BY DEF Texts
<1>7. /\ [open |-> Append(t.open, "{"), expect |-> "member"] \in Texts
      /\ [open |-> Append(t.open, "["), expect |-> "element"] \in Texts
  BY <1>2 DEF Texts
<1> HIDE DEF u
<1>8. u \in Texts
  BY <1>1, <1>2, <1>3, <1>4, <1>5, <1>6, <1>7
<1> QED
  BY <1>8 DEF u

\* However much it reads.
LEMMA AllTextsStay ==
  ASSUME NEW t \in Texts, NEW s, Len(s) \in Nat PROVE ReadAll(t, s) \in Texts
<1>1. PICK r : /\ r[0] = t
               /\ \A n \in 1 .. Len(s) : r[n] = Read(r[n - 1], s[n])
               /\ ReadAll(t, s) = r[Len(s)]
  BY Readings
<1> DEFINE T == {i \in Nat : i <= Len(s) => r[i] \in Texts}
<1>2. 0 \in T
  BY <1>1
<1>3. ASSUME NEW i \in Nat, i \in T PROVE i + 1 \in T
  <2>1. SUFFICES ASSUME i + 1 <= Len(s) PROVE r[i + 1] \in Texts
    OBVIOUS
  <2>2. i + 1 \in 1 .. Len(s) /\ i + 1 - 1 = i /\ i <= Len(s)
    BY <2>1
  <2>3. r[i + 1] = Read(r[i], s[i + 1])
    BY <1>1, <2>2
  <2> QED  BY <1>3, <2>2, <2>3, TextsStay
<1> HIDE DEF T
<1>4. Nat \subseteq T
  BY <1>2, <1>3, CountsThroughNat
<1> QED
  BY <1>1, <1>4 DEF T

\* What the automaton does where the writer is.
LEMMA TextIs == ASSUME NEW o, NEW e PROVE Text(o, e).open = o /\ Text(o, e).expect = e
  BY DEF Text

\* What each lexeme does where it is allowed.
LEMMA AllowedIsRead ==
  ASSUME NEW t, NEW lexeme \in Allowed(t)
  PROVE  /\ lexeme = "{" => Read(t, lexeme) = Text(Append(t.open, "{"), "member")
         /\ lexeme = "[" => Read(t, lexeme) = Text(Append(t.open, "["), "element")
         /\ lexeme \in {"}", "]"} => Read(t, lexeme) = AfterValue(Front(t.open))
         /\ lexeme = ":" => Read(t, lexeme) = [t EXCEPT !.expect = "value"]
         /\ lexeme = "," =>
              Read(t, lexeme) = [t EXCEPT !.expect = IF Last(t.open) = "{" THEN "key" ELSE "value"]
         /\ lexeme = "string" /\ t.expect \in {"key", "member"} =>
              Read(t, lexeme) = [t EXCEPT !.expect = "colon"]
         /\ lexeme = "string" /\ t.expect \notin {"key", "member"} =>
              Read(t, lexeme) = AfterValue(t.open)
         /\ lexeme = "primitive" => Read(t, lexeme) = AfterValue(t.open)
<1>1. CASE lexeme = "{"
  BY <1>1 DEF Read, Text
<1>2. CASE lexeme = "["
  BY <1>2 DEF Read, Text
<1>3. CASE lexeme \in {"}", "]"}
  BY <1>3 DEF Read
<1>4. CASE lexeme = ":"
  BY <1>4 DEF Read
<1>5. CASE lexeme = ","
  BY <1>5 DEF Read
<1>6. CASE lexeme = "string" /\ t.expect \in {"key", "member"}
  BY <1>6 DEF Read
<1>7. CASE lexeme = "string" /\ t.expect \notin {"key", "member"}
  BY <1>7 DEF Read
<1>8. CASE lexeme = "primitive"
  BY <1>8 DEF Read
<1>9. CASE lexeme \notin Lexemes
  BY <1>9 DEF Lexemes
<1> QED
  BY <1>1, <1>2, <1>3, <1>4, <1>5, <1>6, <1>7, <1>8, <1>9 DEF Lexemes

\* Only what is expected changes.
LEMMA TextWith ==
  ASSUME NEW o, NEW e, NEW f
  PROVE  [Text(o, e) EXCEPT !.expect = f] = Text(o, f)
  BY DEF Text

\* A comma is read between members, and between elements.
LEMMA ReadsComma ==
  ASSUME NEW o
  PROVE  Read(Text(o, "separator"), ",") =
            Text(o, IF Last(o) = "{" THEN "key" ELSE "value")
<1> DEFINE t == Text(o, "separator")
           next == IF Last(o) = "{" THEN "key" ELSE "value"
<1>1. t.open = o /\ t.expect = "separator" /\ [t EXCEPT !.expect = next] = Text(o, next)
  BY Zenon, TextIs, TextWith
<1> HIDE DEF t
<1>2. "," \in Allowed(t)
  BY <1>1 DEF Allowed
<1>3. Read(t, ",") = [t EXCEPT !.expect = next]
  BY <1>1, <1>2, AllowedIsRead
<1> HIDE DEF next
<1>4. Read(t, ",") = Text(o, next)
  BY Zenon, <1>1, <1>3
<1> QED
  BY Zenon, <1>4 DEF t, next

\* A key and its colon are read at the beginning of an object or behind a comma.
LEMMA ReadsKey ==
  ASSUME NEW o, NEW e \in {"key", "member"}
  PROVE  ReadAll(Text(o, e), Key) = Text(o, "value")
<1> DEFINE t == Text(o, e)
           u == Text(o, "colon")
<1>1. t.open = o /\ t.expect = e /\ [t EXCEPT !.expect = "colon"] = u
  BY Zenon, TextIs, TextWith
<1>2. u.open = o /\ u.expect = "colon" /\ [u EXCEPT !.expect = "value"] = Text(o, "value")
  BY Zenon, TextIs, TextWith
<1> HIDE DEF t, u
<1>3. "string" \in Allowed(t) /\ ":" \in Allowed(u)
  BY <1>1, <1>2 DEF Allowed
<1>4. Read(t, "string") = [t EXCEPT !.expect = "colon"]
  BY <1>1, <1>3, AllowedIsRead
<1>5. Read(u, ":") = [u EXCEPT !.expect = "value"]
  BY <1>2, <1>3, AllowedIsRead
<1>6. ReadAll(t, <<"string", ":">>) = Read(Read(t, "string"), ":")
  <2> DEFINE x == "string"
             y == ":"
  <2> HIDE DEF x, y
  <2>1. ReadAll(t, <<x, y>>) = Read(Read(t, x), y)
    BY TwoAreRead
  <2> QED  BY <2>1 DEF x, y
<1>7. Read(t, "string") = u
  BY Zenon, <1>1, <1>4
<1>8. ReadAll(t, <<"string", ":">>) = Text(o, "value")
  BY Zenon, <1>2, <1>5, <1>6, <1>7
<1> QED
  BY Zenon, <1>8 DEF Key, t

\* A bracket is read where a value may be.
LEMMA ReadsOpening ==
  ASSUME NEW o, NEW e \in {"value", "element"}
  PROVE  /\ Read(Text(o, e), "{") = Text(Append(o, "{"), "member")
         /\ Read(Text(o, e), "[") = Text(Append(o, "["), "element")
<1> DEFINE t == Text(o, e)
<1>1. t.open = o /\ t.expect = e
  BY Zenon, TextIs
<1> HIDE DEF t
<1>2. "{" \in Allowed(t) /\ "[" \in Allowed(t)
  BY <1>1 DEF Allowed
<1>3. Read(t, "{") = Text(Append(t.open, "{"), "member")
  BY <1>2, AllowedIsRead
<1>4. Read(t, "[") = Text(Append(t.open, "["), "element")
  BY <1>2, AllowedIsRead
<1> QED
  BY Zenon, <1>1, <1>3, <1>4 DEF t

\* So is a string, a number or a word.
LEMMA ReadsScalar ==
  ASSUME NEW o, NEW e \in {"value", "element"}, NEW x \in {"string", "primitive"}, o # << >>
  PROVE  Read(Text(o, e), x) = Text(o, "separator")
<1> DEFINE t == Text(o, e)
<1>1. t.open = o /\ t.expect = e
  BY Zenon, TextIs
<1> HIDE DEF t
<1>2. x \in Allowed(t)
  BY <1>1 DEF Allowed
<1>3. Read(t, x) = AfterValue(t.open)
  <2>1. t.expect \notin {"key", "member"}
    BY <1>1
  <2> QED  BY <1>2, <2>1, AllowedIsRead
<1>4. AfterValue(o) = Text(o, "separator")
  BY DEF AfterValue, Text
<1> QED
  BY Zenon, <1>1, <1>3, <1>4 DEF t

\* The brackets around, with one more.
LEMMA OpenedIs ==
  ASSUME NEW o \in Seq(Brackets), NEW b \in Brackets
  PROVE  /\ Append(o, b) \in Seq(Brackets) /\ Append(o, b) # << >>
         /\ Last(Append(o, b)) = b /\ Front(Append(o, b)) = o
<1>1. /\ Append(o, b) \in Seq(Brackets) /\ Len(Append(o, b)) = Len(o) + 1 /\ Len(o) \in Nat
      /\ Append(o, b)[Len(o) + 1] = b
  OBVIOUS
<1>2. Last(Append(o, b)) = b
  BY <1>1 DEF Last
<1>3. Len(o) + 1 - 1 = Len(o)
  BY <1>1
<1>4. Front(Append(o, b)) = o
  BY <1>1, <1>3 DEF Front
<1>5. Append(o, b) # << >>
  BY <1>1
<1> QED
  BY <1>1, <1>2, <1>4, <1>5

\* The right bracket closes, behind a member or an element or without any.
LEMMA ReadsClosing ==
  ASSUME NEW o \in Seq(Brackets)
  PROVE  /\ \A e \in {"member", "separator"} :
                Read(Text(Append(o, "{"), e), "}") = AfterValue(o)
         /\ \A e \in {"element", "separator"} :
                Read(Text(Append(o, "["), e), "]") = AfterValue(o)
<1>1. /\ Last(Append(o, "{")) = "{" /\ Front(Append(o, "{")) = o
      /\ Last(Append(o, "[")) = "[" /\ Front(Append(o, "[")) = o
  BY OpenedIs DEF Brackets
<1>2. \A e \in {"member", "separator"} :
          "}" \in Allowed(Text(Append(o, "{"), e))
  BY <1>1 DEF Allowed, Text, Closes
<1>3. \A e \in {"element", "separator"} :
          "]" \in Allowed(Text(Append(o, "["), e))
  BY <1>1 DEF Allowed, Text, Closes
<1> QED
  BY <1>1, <1>2, <1>3 DEF Read, Text

\* Every value that a property may have is read as one.
LEMMA ReadsValue ==
  ASSUME NEW o \in Seq(Brackets), o # << >>, NEW value \in JsonValues
  PROVE  ReadAll(Text(o, "value"), value) = Text(o, "separator")
<1>1. AfterValue(o) = Text(o, "separator")
  BY DEF AfterValue, Text
<1>2. CASE value = <<"primitive">> \/ value = <<"string">>
  BY <1>2, OneIsRead, ReadsScalar
<1>3. CASE value = <<"{", "}">>
  <2>1. Read(Text(o, "value"), "{") = Text(Append(o, "{"), "member")
    BY ReadsOpening
  <2>2. Read(Text(Append(o, "{"), "member"), "}") = Text(o, "separator")
    BY <1>1, ReadsClosing
  <2>3. ReadAll(Text(o, "value"), <<"{", "}">>) = Read(Read(Text(o, "value"), "{"), "}")
    <3> DEFINE t == Text(o, "value")
               x == "{"
               y == "}"
    <3> HIDE DEF t, x, y
    <3>1. ReadAll(t, <<x, y>>) = Read(Read(t, x), y)
      BY TwoAreRead
    <3> QED  BY <3>1 DEF t, x, y
  <2> QED  BY Zenon, <1>3, <2>1, <2>2, <2>3
<1>4. CASE value = <<"[", "]">>
  <2>1. Read(Text(o, "value"), "[") = Text(Append(o, "["), "element")
    BY ReadsOpening
  <2>2. Read(Text(Append(o, "["), "element"), "]") = Text(o, "separator")
    BY <1>1, ReadsClosing
  <2>3. ReadAll(Text(o, "value"), <<"[", "]">>) = Read(Read(Text(o, "value"), "["), "]")
    <3> DEFINE t == Text(o, "value")
               x == "["
               y == "]"
    <3> HIDE DEF t, x, y
    <3>1. ReadAll(t, <<x, y>>) = Read(Read(t, x), y)
      BY TwoAreRead
    <3> QED  BY <3>1 DEF t, x, y
  <2> QED  BY Zenon, <1>4, <2>1, <2>2, <2>3
<1>5. CASE value = <<"[", "primitive", ",", "primitive", "]">>
  <2> DEFINE p == Append(o, "[")
  <2>1. p # << >> /\ Last(p) = "["
    BY OpenedIs DEF Brackets
  <2>2. ReadAll(Text(o, "value"), value)
          = Read(Read(Read(Read(Read(Text(o, "value"), "["), "primitive"), ","), "primitive"), "]")
    <3>1. ReadAll(Text(o, "value"), <<"[", "primitive", ",", "primitive", "]">>)
            = Read(Read(Read(Read(Read(Text(o, "value"), "["), "primitive"), ","), "primitive"), "]")
      <4> DEFINE t == Text(o, "value")
                 b == "["
                 x == "primitive"
                 y == ","
                 c == "]"
      <4> HIDE DEF t, b, x, y, c
      <4>1. ReadAll(t, <<b, x, y, x, c>>) = Read(Read(Read(Read(Read(t, b), x), y), x), c)
        BY FiveAreRead
      <4> QED  BY <4>1 DEF t, b, x, y, c
    <3> QED  BY <1>5, <3>1, Zenon
  <2>3. Read(Text(o, "value"), "[") = Text(p, "element")
    BY ReadsOpening
  <2> HIDE DEF p
  <2>4. Read(Text(p, "element"), "primitive") = Text(p, "separator")
    BY <2>1, ReadsScalar
  <2>5. Read(Text(p, "separator"), ",") = Text(p, "value")
    BY <2>1, ReadsComma
  <2>6. Read(Text(p, "value"), "primitive") = Text(p, "separator")
    BY <2>1, ReadsScalar
  <2>7. Read(Text(p, "separator"), "]") = Text(o, "separator")
    BY <1>1, ReadsClosing DEF p
  <2> QED  BY Zenon, <2>2, <2>3, <2>4, <2>5, <2>6, <2>7
<1> QED
  BY <1>2, <1>3, <1>4, <1>5 DEF JsonValues

\* Inside the brackets o, with or without a comma due.
Opened == Seq(Brackets) \ {<< >>}

Place(o, comma) ==
    Text(o, IF comma THEN "separator" ELSE IF Last(o) = "{" THEN "member" ELSE "element")

At(o, F) == {s \in States : s.ledger \in F /\ (Quiet(s) => s.text = Place(o, s.comma))}

\* The fields of a state.
LEMMA StatesAre ==
  ASSUME NEW s \in States
  PROVE  /\ s = [comma |-> s.comma, text |-> s.text, ledger |-> s.ledger, declared |-> s.declared]
         /\ s.comma \in BOOLEAN /\ s.text \in Texts /\ s.ledger \in Ledgers
         /\ s.declared \in SUBSET Listed
  BY DEF States

\* At a place of the writer the text is in order.
LEMMA PlacesAreTexts ==
  ASSUME NEW o \in Opened, NEW comma \in BOOLEAN
  PROVE  Place(o, comma) \in Texts /\ Place(o, comma) # Malformed
  BY DEF Place, Text, Texts, Opened, Malformed

\* How a state is shown to be inside the brackets o.
LEMMA Arrives ==
  ASSUME NEW s \in States, NEW t, NEW o \in Opened, NEW G \in SUBSET Ledgers,
         NEW x \in Texts, NEW c \in BOOLEAN, NEW l \in G,
         t = [comma |-> c, text |-> x, ledger |-> l, declared |-> s.declared],
         l.features = s.ledger.features,
         Quiet(s) => x = Place(o, c)
  PROVE  t \in At(o, G)
<1>1. t.comma = c /\ t.text = x /\ t.ledger = l /\ t.declared = s.declared
  OBVIOUS
<1>2. Quiet(t) = Quiet(s)
  BY <1>1 DEF Quiet
<1>3. l \in Ledgers /\ s.declared \in SUBSET Listed
  BY StatesAre
<1>4. t \in [comma : BOOLEAN, text : Texts, ledger : Ledgers, declared : SUBSET Listed]
  BY <1>3
<1>5. Quiet(t) => t.text # Malformed
  BY <1>1, <1>2, PlacesAreTexts
<1> QED
  BY <1>1, <1>2, <1>4, <1>5 DEF At, States

\* Less said of the ledger, more states.
LEMMA AtAreStates ==
  ASSUME NEW o, NEW F
  PROVE  /\ At(o, F) \in SUBSET States
         /\ \A G : F \subseteq G => At(o, F) \subseteq At(o, G)
  BY DEF At

-----------------------------------------------------------------------------
\* What the lines and properties print.

\* What is printed: lexemes, and words that are none.
Words == Lexemes \union {"bad"}

\* What lines and properties print are words.
LEMMA LexemesAre ==
  /\ Key \in Seq(Words) /\ Len(Key) = 2
  /\ \A b \in Lexemes : <<b>> \in Seq(Words) /\ Len(<<b>>) = 1
  /\ JsonValues \subseteq Seq(Words) \ {<< >>}
  /\ \A those : Values(those) \subseteq Seq(Words)
<1>1. {"string", ":", "primitive", "{", "}", "[", "]", ",", "bad"} \subseteq Words
  BY DEF Words, Lexemes
<1>2. \A b \in Words : <<b>> \in Seq(Words) /\ Len(<<b>>) = 1
  OBVIOUS
<1>3. \A b \in Words, c \in Words : <<b, c>> \in Seq(Words) /\ Len(<<b, c>>) = 2
  OBVIOUS
<1>4. \A a \in Words, b \in Words, c \in Words, d \in Words, e \in Words :
         <<a, b, c, d, e>> \in Seq(Words) /\ Len(<<a, b, c, d, e>>) = 5
  OBVIOUS
<1>5. /\ "string" \in Words /\ ":" \in Words /\ "primitive" \in Words
      /\ "{" \in Words /\ "}" \in Words /\ "[" \in Words /\ "]" \in Words
      /\ "," \in Words /\ "bad" \in Words
  BY <1>1
<1>6. Key \in Seq(Words) /\ Len(Key) = 2
  BY Zenon, <1>3, <1>5 DEF Key
<1>7. Len(<< >>) = 0 /\ 1 # 0 /\ 2 # 0 /\ 5 # 0
  OBVIOUS
<1>8. ASSUME NEW v \in JsonValues PROVE v \in Seq(Words) /\ v # << >>
  <2>1. CASE v = <<"primitive">> \/ v = <<"string">>
    <3>1. v \in Seq(Words) /\ Len(v) = 1
      BY Zenon, <1>2, <1>5, <2>1
    <3> QED  BY Zenon, <1>7, <3>1
  <2>2. CASE v = <<"[", "]">> \/ v = <<"{", "}">>
    <3>1. v \in Seq(Words) /\ Len(v) = 2
      BY Zenon, <1>3, <1>5, <2>2
    <3> QED  BY Zenon, <1>7, <3>1
  <2>3. CASE v = <<"[", "primitive", ",", "primitive", "]">>
    <3>1. v \in Seq(Words) /\ Len(v) = 5
      BY Zenon, <1>4, <1>5, <2>3
    <3> QED  BY Zenon, <1>7, <3>1
  <2> QED  BY Zenon, <2>1, <2>2, <2>3 DEF JsonValues
<1>9. ASSUME NEW those, NEW v \in BareValues(those) PROVE v \in Seq(Words)
  <2>1. \/ v = << >> \/ v = <<"bad">> \/ v = <<"[", "bad", "]">>
    BY DEF BareValues, Unquoted
  <2>2. << >> \in Seq(Words)
    OBVIOUS
  <2>3. <<"bad">> \in Seq(Words)
    BY Zenon, <1>2, <1>5
  <2>4. \A b \in Words, c \in Words, d \in Words : <<b, c, d>> \in Seq(Words)
    OBVIOUS
  <2>5. <<"[", "bad", "]">> \in Seq(Words)
    BY Zenon, <1>5, <2>4
  <2> QED  BY Zenon, <2>1, <2>2, <2>3, <2>5
<1>10. \A those : Values(those) \subseteq Seq(Words)
  BY <1>8, <1>9 DEF Values
<1>11. \A b \in Lexemes : b \in Words
  BY DEF Words
<1> QED
  BY <1>2, <1>6, <1>8, <1>10, <1>11

\* A document that Quiet speaks of has values that are JSON.
LEMMA QuietValues ==
  ASSUME NEW s, Quiet(s) PROVE Values(s.ledger.features) = JsonValues
  BY DEF Quiet, QuietOf, Values, BareValues

\* So are two of them, one behind the other.
LEMMA JoinedLexemes ==
  ASSUME NEW s1 \in Seq(Words), NEW s2 \in Seq(Words)
  PROVE  /\ s1 \o s2 \in Seq(Words) /\ Len(s1 \o s2) \in Nat
         /\ \A t : ReadAll(t, s1 \o s2) = ReadAll(ReadAll(t, s1), s2)
<1>1. s1 \o s2 \in Seq(Words) /\ Len(s1 \o s2) \in Nat
  BY ConcatProperties
<1> QED
  BY <1>1, SeveralAreRead

\* The text stays one whatever is printed.
LEMMA PrintedIsText ==
  ASSUME NEW s \in States, NEW lexemes \in Seq(Words)
  PROVE  Printed(s, lexemes) \in Texts
<1> DEFINE comma == IF s.comma THEN <<",">> ELSE << >>
<1>1. comma \in Seq(Words)
  <2>0. << >> \in Seq(Words)
    OBVIOUS
  <2>1. "," \in Words
    BY DEF Words, Lexemes
  <2>2. <<",">> \in Seq(Words)
    <3> DEFINE x == ","
    <3>1. x \in Words
      BY <2>1
    <3> HIDE DEF x
    <3>2. <<x>> \in Seq(Words)
      BY <3>1
    <3> QED  BY <3>2 DEF x
  <2> QED  BY Zenon, <2>0, <2>2
<1> HIDE DEF comma
<1>2. Len(comma \o lexemes) \in Nat
  BY <1>1, JoinedLexemes
<1>3. ReadAll(s.text, comma \o lexemes) \in Texts
  BY <1>2, AllTextsStay, StatesAre
<1> QED
  BY <1>3 DEF Printed, comma

\* Where the comma, if one is due, has been printed.
Behind(o, comma) ==
    Text(o, IF comma THEN (IF Last(o) = "{" THEN "key" ELSE "value")
            ELSE IF Last(o) = "{" THEN "member" ELSE "element")

\* The comma that is due is printed first.
LEMMA PrintedIs ==
  ASSUME NEW s \in States, NEW o, NEW lexemes \in Seq(Words),
         s.text = Place(o, s.comma)
  PROVE  Printed(s, lexemes) = ReadAll(Behind(o, s.comma), lexemes)
<1>1. CASE s.comma
  <2> DEFINE one == <<",">>
  <2>1. one \in Seq(Words) /\ ReadAll(s.text, one) = Read(s.text, ",")
    BY LexemesAre, OneIsRead DEF Lexemes
  <2>2. Read(s.text, ",") = Behind(o, s.comma)
    BY <1>1, ReadsComma DEF Place, Behind
  <2>3. Printed(s, lexemes) = ReadAll(s.text, one \o lexemes)
    BY <1>1 DEF Printed
  <2> HIDE DEF one
  <2>4. ReadAll(s.text, one \o lexemes) = ReadAll(ReadAll(s.text, one), lexemes)
    BY <2>1, JoinedLexemes
  <2> QED  BY Zenon, <2>1, <2>2, <2>3, <2>4
<1>2. CASE ~s.comma
  <2>1. << >> \o lexemes = lexemes
    OBVIOUS
  <2>2. Place(o, s.comma) = Behind(o, s.comma)
    BY <1>2 DEF Place, Behind
  <2>3. Printed(s, lexemes) = ReadAll(s.text, << >> \o lexemes)
    BY <1>2 DEF Printed
  <2> QED  BY Zenon, <2>1, <2>2, <2>3
<1> QED
  BY <1>1, <1>2

\* A member that is an object or an array is opened.
LEMMA OpensMember ==
  ASSUME NEW s \in States, NEW o \in Opened, NEW b \in Brackets,
         Last(o) = "{", s.text = Place(o, s.comma)
  PROVE  Printed(s, Key \o <<b>>) = Place(Append(o, b), FALSE)
<1> DEFINE one == <<b>>
           e == IF s.comma THEN "key" ELSE "member"
<1>1. one \in Seq(Words) /\ \A t : ReadAll(t, one) = Read(t, b)
  BY LexemesAre, OneIsRead DEF Lexemes, Brackets
<1>2. Behind(o, s.comma) = Text(o, e) /\ e \in {"key", "member"}
  BY DEF Behind
<1> HIDE DEF e, one
<1>3. Printed(s, Key \o one) = ReadAll(Behind(o, s.comma), Key \o one)
  BY <1>1, LexemesAre, JoinedLexemes, PrintedIs
<1>4. ReadAll(Text(o, e), Key \o one) = ReadAll(ReadAll(Text(o, e), Key), one)
  BY <1>1, LexemesAre, JoinedLexemes
<1>5. ReadAll(Text(o, e), Key) = Text(o, "value")
  BY <1>2, ReadsKey
<1>6. Printed(s, Key \o one) = Read(Text(o, "value"), b)
  BY Zenon, <1>1, <1>2, <1>3, <1>4, <1>5
<1>7. Read(Text(o, "value"), b) = Place(Append(o, b), FALSE)
  <2>1. Last(Append(o, b)) = b
    BY OpenedIs DEF Opened
  <2>2. Read(Text(o, "value"), "{") = Text(Append(o, "{"), "member")
    BY ReadsOpening
  <2>3. Read(Text(o, "value"), "[") = Text(Append(o, "["), "element")
    BY ReadsOpening
  <2>4. CASE b = "{"
    BY <2>1, <2>2, <2>4 DEF Place
  <2>5. CASE b = "["
    BY <2>1, <2>3, <2>5 DEF Place
  <2> QED  BY <2>4, <2>5 DEF Brackets
<1> QED
  BY Zenon, <1>6, <1>7 DEF one

\* An element is opened.
LEMMA OpensElement ==
  ASSUME NEW s \in States, NEW o \in Opened, Last(o) = "[", s.text = Place(o, s.comma)
  PROVE  Printed(s, <<"{">>) = Place(Append(o, "{"), FALSE)
<1> DEFINE one == <<"{">>
           e == IF s.comma THEN "value" ELSE "element"
<1>1. one \in Seq(Words) /\ \A t : ReadAll(t, one) = Read(t, "{")
  BY LexemesAre, OneIsRead DEF Lexemes
<1>2. Behind(o, s.comma) = Text(o, e) /\ e \in {"value", "element"}
  BY DEF Behind
<1> HIDE DEF e, one
<1>3. Printed(s, one) = ReadAll(Behind(o, s.comma), one)
  BY <1>1, PrintedIs
<1>4. Read(Text(o, e), "{") = Text(Append(o, "{"), "member")
  BY <1>2, ReadsOpening
<1>5. Last(Append(o, "{")) = "{"
  BY OpenedIs DEF Opened, Brackets
<1>6. Place(Append(o, "{"), FALSE) = Text(Append(o, "{"), "member")
  BY <1>5 DEF Place
<1> QED
  BY Zenon, <1>1, <1>2, <1>3, <1>4, <1>6 DEF one

\* A property is printed, and a comma is due.
LEMMA PrintsProperty ==
  ASSUME NEW s \in States, NEW o \in Opened, NEW value \in JsonValues,
         Last(o) = "{", s.text = Place(o, s.comma)
  PROVE  Printed(s, Key \o value) = Place(o, TRUE)
<1> DEFINE e == IF s.comma THEN "key" ELSE "member"
<1>1. value \in Seq(Words)
  BY LexemesAre
<1>2. Behind(o, s.comma) = Text(o, e) /\ e \in {"key", "member"}
  BY DEF Behind
<1> HIDE DEF e
<1>3. Printed(s, Key \o value) = ReadAll(Behind(o, s.comma), Key \o value)
  BY <1>1, LexemesAre, JoinedLexemes, PrintedIs
<1>4. ReadAll(Text(o, e), Key \o value) = ReadAll(ReadAll(Text(o, e), Key), value)
  BY <1>1, LexemesAre, JoinedLexemes
<1>5. ReadAll(Text(o, e), Key) = Text(o, "value")
  BY <1>2, ReadsKey
<1>6. ReadAll(Text(o, "value"), value) = Text(o, "separator")
  BY ReadsValue DEF Opened
<1>7. Place(o, TRUE) = Text(o, "separator")
  BY DEF Place
<1> QED
  BY Zenon, <1>2, <1>3, <1>4, <1>5, <1>6, <1>7

\* The bracket that closes another.
Closer(b) == IF b = "{" THEN "}" ELSE "]"

\* What is closed is a member or an element of what is around it.
LEMMA ClosesOne ==
  ASSUME NEW o \in Opened, NEW b \in Brackets, NEW comma \in BOOLEAN
  PROVE  ReadAll(Place(Append(o, b), comma), <<Closer(b)>>) = Place(o, TRUE)
<1>1. AfterValue(o) = Place(o, TRUE)
  BY DEF AfterValue, Place, Text, Opened
<1>2. Last(Append(o, b)) = b
  BY OpenedIs DEF Opened
<1>3. ReadAll(Place(Append(o, b), comma), <<Closer(b)>>)
        = Read(Place(Append(o, b), comma), Closer(b))
  BY OneIsRead
<1>4. Read(Place(Append(o, b), comma), Closer(b)) = AfterValue(o)
  <2>1. CASE b = "{"
    <3> DEFINE e == IF comma THEN "separator" ELSE "member"
    <3>1. e \in {"member", "separator"} /\ Place(Append(o, b), comma) = Text(Append(o, "{"), e)
      BY <1>2, <2>1 DEF Place
    <3> HIDE DEF e
    <3>2. Read(Text(Append(o, "{"), e), "}") = AfterValue(o)
      BY <3>1, ReadsClosing DEF Opened
    <3> QED  BY <2>1, <3>1, <3>2 DEF Closer
  <2>2. CASE b = "["
    <3> DEFINE e == IF comma THEN "separator" ELSE "element"
    <3>1. e \in {"element", "separator"} /\ Place(Append(o, b), comma) = Text(Append(o, "["), e)
      BY <1>2, <2>2 DEF Place
    <3> HIDE DEF e
    <3>2. Read(Text(Append(o, "["), e), "]") = AfterValue(o)
      BY <3>1, ReadsClosing DEF Opened
    <3> QED  BY <2>2, <3>1, <3>2 DEF Closer
  <2> QED  BY <2>1, <2>2 DEF Brackets
<1> QED
  BY Zenon, <1>1, <1>3, <1>4

-----------------------------------------------------------------------------
\* The steps one by one.

\* An assertion in front and one behind.
LEMMA PairOf ==
  ASSUME NEW P, NEW Q
  PROVE  <<P, Q>>[1] = P /\ <<P, Q>>[1 + 1] = Q
  OBVIOUS

\* A line.
LEMMA LineStep ==
  ASSUME NEW P \in SUBSET States, NEW Q \in SUBSET States, NEW step, step.op = "line",
         \A s \in P : AfterLine(s, step.arg, step.name) \in Q
  PROVE  Triple(P, <<step>>, Q)
<1>0. PICK a : a = <<P, Q>>
  OBVIOUS
<1>1. a[1] = P /\ a[1 + 1] = Q
  BY Zenon, <1>0, PairOf
<1>2. Leads(step, a, 1)
  BY <1>1 DEF Leads, Prints, Notes, Branches, Skips, Leaves, Repeats
<1> QED
  BY Zenon, <1>0, <1>2, Single

\* A property, any number of times.
LEMMA PropsStep ==
  ASSUME NEW P \in SUBSET States, NEW step, step.op = "props",
         \A s \in P : \A value \in Values(s.ledger.features) : AfterProperty(s, value) \in P
  PROVE  Triple(P, <<step>>, P)
<1>0. PICK a : a = <<P, P>>
  OBVIOUS
<1>1. a[1] = P /\ a[1 + 1] = P
  BY Zenon, <1>0, PairOf
<1>2. Leads(step, a, 1)
  BY <1>1 DEF Leads, Prints, Notes, Branches, Skips, Leaves, Repeats
<1> QED
  BY Zenon, <1>0, <1>2, Single

\* The lists of extensions, and the end.
LEMMA ListsStep ==
  ASSUME NEW P \in SUBSET States, NEW Q \in SUBSET States, NEW step,
         \/ step.op = "extensionsUsed" /\ \A s \in P : AfterUsed(s) \in Q
         \/ step.op = "extensionsRequired" /\ \A s \in P : AfterList(s, s.ledger.required) \in Q
         \/ step.op = "end" /\ \A s \in P : AfterEnd(s) \in Q
  PROVE  Triple(P, <<step>>, Q)
<1>0. PICK a : a = <<P, Q>>
  OBVIOUS
<1>1. a[1] = P /\ a[1 + 1] = Q
  BY Zenon, <1>0, PairOf
<1>2. Leads(step, a, 1)
  BY <1>1 DEF Leads, Prints, Notes, Branches, Skips, Leaves, Repeats
<1> QED
  BY Zenon, <1>0, <1>2, Single

\* What an object has is chosen.
LEMMA ChoiceStep ==
  ASSUME NEW P \in SUBSET States, NEW Q \in SUBSET States, NEW step,
         step.op \in {"choose", "lists"},
         \A s \in P : \A exts \in SUBSET (step.arg \intersect s.ledger.features) :
             Chosen(s, exts) \in Q
  PROVE  Triple(P, <<step>>, Q)
<1>0. PICK a : a = <<P, Q>>
  OBVIOUS
<1>1. a[1] = P /\ a[1 + 1] = Q
  BY Zenon, <1>0, PairOf
<1>2. Leads(step, a, 1)
  BY <1>1 DEF Leads, Prints, Notes, Branches, Skips, Leaves, Repeats
<1> QED
  BY Zenon, <1>0, <1>2, Single

\* A flag is set.
LEMMA NoteStep ==
  ASSUME NEW P \in SUBSET States, NEW Q \in SUBSET States, NEW step,
         \/ step.op = "flag" /\ \A s \in P : Flagged(s, {step.arg}) \in Q
         \/ step.op = "flag_those" /\ \A s \in P : Flagged(s, s.ledger.has) \in Q
         \/ step.op = "require" /\ \A s \in P : Required(s, step.arg) \in Q
  PROVE  Triple(P, <<step>>, Q)
<1>0. PICK a : a = <<P, Q>>
  OBVIOUS
<1>1. a[1] = P /\ a[1 + 1] = Q
  BY Zenon, <1>0, PairOf
<1>2. Leads(step, a, 1)
  BY <1>1 DEF Leads, Prints, Notes, Branches, Skips, Leaves, Repeats
<1> QED
  BY Zenon, <1>0, <1>2, Single

-----------------------------------------------------------------------------
\* Lines.

\* A line with a key begins with it.
LEMMA HeadIs ==
  ASSUME NEW S, NEW k, NEW s \in Seq(S), NEW t \in Seq(S), Len(s) = 2, s[1] = k
  PROVE  Head(s \o t) = k
<1>1. PICK u : u = s \o t
  OBVIOUS
<1>2. /\ u \in Seq(S) /\ Len(u) = Len(s) + Len(t)
      /\ \A i \in 1 .. Len(s) + Len(t) : u[i] = IF i <= Len(s) THEN s[i] ELSE t[i - Len(s)]
  BY Zenon, <1>1, ConcatProperties
<1>3. Len(t) \in Nat
  OBVIOUS
<1>4. 1 \in 1 .. Len(s) + Len(t) /\ 1 <= Len(s)
  BY <1>3
<1>5. u[1] = k
  BY <1>2, <1>4
<1>6. Head(u) = k
  BY <1>2, <1>3, <1>5
<1> QED
  BY <1>1, <1>6

\* What a line does to the flag, the text and the ledger.
LEMMA AfterLineIs ==
  ASSUME NEW s \in States, NEW lexemes, NEW ext
  PROVE  AfterLine(s, lexemes, ext) =
            [comma |-> Closing(lexemes) /\ ~Opening(lexemes),
             text |-> IF Closing(lexemes) THEN ReadAll(s.text, lexemes) ELSE Printed(s, lexemes),
             ledger |-> Began(s.ledger, ext), declared |-> s.declared]
  BY Zenon DEF AfterLine, With

\* A line of no extension leaves the ledger alone.
LEMMA BeganIs ==
  ASSUME NEW l \in Ledgers, NEW ext
  PROVE  Began(l, ext).features = l.features /\ Began(l, "none") = l
<1>1. "none" \notin Listed
  BY DEF Listed, MaterialExtensions, WithTextures
<1>2. l = [features |-> l.features, has |-> l.has, flags |-> l.flags,
           required |-> l.required, wrote |-> l.wrote] /\ l.wrote \in SUBSET Listed
  BY DEF Ledgers
<1>3. (l.wrote \union {"none"}) \ {"none"} = l.wrote
  BY <1>1, <1>2
<1> QED
  BY <1>2, <1>3 DEF Began

\* A line with a key opens an object or an array.
LEMMA MemberLine ==
  ASSUME NEW o \in Opened, NEW b \in Brackets, Last(o) = "{",
         NEW F \in SUBSET Ledgers, NEW G \in SUBSET Ledgers, NEW ext,
         \A l \in F : Began(l, ext) \in G
  PROVE  Triple(At(o, F), Begin(ext, Key \o <<b>>), At(Append(o, b), G))
<1> DEFINE lexemes == Key \o <<b>>
           step == [op |-> "line", arg |-> lexemes, name |-> ext]
           P == At(o, F)
           Q == At(Append(o, b), G)
<1>1. step.op = "line" /\ step.arg = lexemes /\ step.name = ext
  OBVIOUS
<1>2. lexemes \in Seq(Words) /\ ~Closing(lexemes)
  <2>1. <<b>> \in Seq(Words)
    BY LexemesAre DEF Lexemes, Brackets
  <2>2. lexemes \in Seq(Words)
    BY <2>1, JoinedLexemes, LexemesAre
  <2>3. Head(lexemes) = "string"
    <3> DEFINE one == <<b>>
    <3>1. Key[1] = "string" /\ Len(Key) = 2 /\ Key \in Seq(Words) /\ one \in Seq(Words)
      BY <2>1, LexemesAre DEF Key
    <3> HIDE DEF one
    <3>2. Head(Key \o one) = "string"
      BY <3>1, HeadIs
    <3> QED  BY Zenon, <3>2 DEF one
  <2> HIDE DEF lexemes
  <2> QED  BY <2>2, <2>3 DEF Closing
<1>3. Append(o, b) \in Opened
  BY OpenedIs DEF Opened
<1>4. ASSUME NEW s \in P PROVE AfterLine(s, lexemes, ext) \in Q
  <2>1. s \in States /\ s.ledger \in F /\ s.ledger \in Ledgers
    BY DEF At
  <2>2. PICK x : x = Printed(s, lexemes)
    OBVIOUS
  <2>3. AfterLine(s, lexemes, ext) =
           [comma |-> FALSE, text |-> x, ledger |-> Began(s.ledger, ext), declared |-> s.declared]
    <3> HIDE DEF lexemes
    <3> QED  BY <1>2, <2>1, <2>2, AfterLineIs
  <2>4. Quiet(s) => x = Place(Append(o, b), FALSE)
    BY <2>1, <2>2, OpensMember DEF At
  <2>5. x \in Texts
    <3> HIDE DEF lexemes
    <3> QED  BY <1>2, <2>1, <2>2, PrintedIsText
  <2>6. Began(s.ledger, ext) \in G /\ Began(s.ledger, ext).features = s.ledger.features
    BY <2>1, BeganIs
  <2> HIDE DEF lexemes
  <2> QED  BY <1>3, <2>1, <2>3, <2>4, <2>5, <2>6, Arrives
<1>5. P \in SUBSET States /\ Q \in SUBSET States
  BY AtAreStates
<1> HIDE DEF lexemes, step, P, Q
<1>6. Triple(P, <<step>>, Q)
  BY <1>1, <1>4, <1>5, LineStep
<1> QED
  BY <1>6 DEF Begin, step, lexemes, P, Q

\* A brace opens an element.
LEMMA ElementLine ==
  ASSUME NEW o \in Opened, Last(o) = "[", NEW F \in SUBSET Ledgers
  PROVE  Triple(At(o, F), Line(<<"{">>), At(Append(o, "{"), F))
<1> DEFINE b == "{"
<1>0. b \in Brackets /\ b \in Lexemes /\ b \notin {"}", "]"}
  BY DEF Brackets, Lexemes
<1> DEFINE lexemes == <<b>>
           step == [op |-> "line", arg |-> lexemes, name |-> "none"]
           P == At(o, F)
           Q == At(Append(o, b), F)
<1>1. step.op = "line" /\ step.arg = lexemes /\ step.name = "none"
  OBVIOUS
<1> HIDE DEF b
<1>2. lexemes \in Seq(Words) /\ ~Closing(lexemes)
  <2>1. lexemes \in Seq(Words)
    BY <1>0, LexemesAre
  <2>2. Head(lexemes) = b
    OBVIOUS
  <2> HIDE DEF lexemes
  <2> QED  BY <1>0, <2>1, <2>2 DEF Closing
<1>3. Append(o, b) \in Opened
  BY <1>0, OpenedIs DEF Opened
<1>4. ASSUME NEW s \in P PROVE AfterLine(s, lexemes, "none") \in Q
  <2>1. s \in States /\ s.ledger \in F /\ s.ledger \in Ledgers
    BY DEF At
  <2>2. PICK x : x = Printed(s, lexemes)
    OBVIOUS
  <2>3. AfterLine(s, lexemes, "none") =
           [comma |-> FALSE, text |-> x, ledger |-> s.ledger, declared |-> s.declared]
    <3> HIDE DEF lexemes
    <3> QED  BY <1>2, <2>1, <2>2, AfterLineIs, BeganIs
  <2>4. Quiet(s) => x = Place(Append(o, b), FALSE)
    BY <2>1, <2>2, OpensElement DEF At, b
  <2>5. x \in Texts
    <3> HIDE DEF lexemes
    <3> QED  BY <1>2, <2>1, <2>2, PrintedIsText
  <2> HIDE DEF lexemes
  <2> QED  BY <1>3, <2>1, <2>3, <2>4, <2>5, Arrives
<1>5. P \in SUBSET States /\ Q \in SUBSET States
  BY AtAreStates
<1> HIDE DEF lexemes, step, P, Q
<1>6. Triple(P, <<step>>, Q)
  BY <1>1, <1>4, <1>5, LineStep
<1> QED
  BY <1>6 DEF Begin, Line, step, lexemes, P, Q, b

\* A line closes what is open.
LEMMA ClosingLine ==
  ASSUME NEW o \in Opened, NEW b \in Brackets, NEW F \in SUBSET Ledgers
  PROVE  Triple(At(Append(o, b), F), Line(<<Closer(b)>>), At(o, F))
<1> DEFINE c == Closer(b)
<1>0. c \in Lexemes /\ c \in {"}", "]"} /\ c \notin {"{", "["}
  BY DEF Brackets, Lexemes, Closer
<1> DEFINE lexemes == <<c>>
           step == [op |-> "line", arg |-> lexemes, name |-> "none"]
           P == At(Append(o, b), F)
           Q == At(o, F)
<1>1. step.op = "line" /\ step.arg = lexemes /\ step.name = "none"
  OBVIOUS
<1> HIDE DEF c
<1>2. lexemes \in Seq(Words) /\ Closing(lexemes) /\ ~Opening(lexemes) /\ Len(lexemes) \in Nat
  <2>1. lexemes \in Seq(Words) /\ Len(lexemes) = 1
    BY <1>0, LexemesAre
  <2>2. Head(lexemes) = c /\ lexemes[1] = c
    OBVIOUS
  <2>3. Last(lexemes) = c
    BY <2>1, <2>2 DEF Last
  <2> HIDE DEF lexemes
  <2>4. 1 \in Nat
    OBVIOUS
  <2> QED  BY Zenon, <1>0, <2>1, <2>2, <2>3, <2>4 DEF Closing, Opening
<1>4. ASSUME NEW s \in P PROVE AfterLine(s, lexemes, "none") \in Q
  <2>1. s \in States /\ s.ledger \in F /\ s.ledger \in Ledgers /\ s.comma \in BOOLEAN
        /\ s.text \in Texts
    BY StatesAre DEF At
  <2>2. PICK x : x = ReadAll(s.text, lexemes)
    OBVIOUS
  <2>3. AfterLine(s, lexemes, "none") =
           [comma |-> TRUE, text |-> x, ledger |-> s.ledger, declared |-> s.declared]
    <3> HIDE DEF lexemes
    <3> QED  BY <1>2, <2>1, <2>2, AfterLineIs, BeganIs
  <2>4. Quiet(s) => x = Place(o, TRUE)
    BY <2>1, <2>2, ClosesOne DEF At, c
  <2>5. x \in Texts
    <3> HIDE DEF lexemes
    <3> QED  BY <1>2, <2>1, <2>2, AllTextsStay
  <2> HIDE DEF lexemes
  <2> QED  BY <2>1, <2>3, <2>4, <2>5, Arrives
<1>5. P \in SUBSET States /\ Q \in SUBSET States
  BY AtAreStates
<1> HIDE DEF lexemes, step, P, Q
<1>6. Triple(P, <<step>>, Q)
  BY <1>1, <1>4, <1>5, LineStep
<1> QED
  BY <1>6 DEF Begin, Line, step, lexemes, P, Q, c

\* Properties stay where they are.
LEMMA PropsAre ==
  ASSUME NEW o \in Opened, Last(o) = "{", NEW F \in SUBSET Ledgers
  PROVE  Triple(At(o, F), Props, At(o, F))
<1> DEFINE P == At(o, F)
           step == [op |-> "props", arg |-> 0]
<1>1. ASSUME NEW s \in P, NEW value \in Values(s.ledger.features)
      PROVE  AfterProperty(s, value) \in P
  <2>1. s \in States /\ s.ledger \in F
    BY DEF At
  <2>2. PICK x : x = Printed(s, Key \o value)
    OBVIOUS
  <2>3. AfterProperty(s, value) =
           [comma |-> TRUE, text |-> x, ledger |-> s.ledger, declared |-> s.declared]
    BY Zenon, <2>1, <2>2 DEF AfterProperty, With
  <2>4. Quiet(s) => x = Place(o, TRUE)
    BY <2>1, <2>2, PrintsProperty, QuietValues DEF At
  <2>5. Key \o value \in Seq(Words)
    BY LexemesAre, JoinedLexemes
  <2>6. x \in Texts
    BY <2>1, <2>2, <2>5, PrintedIsText
  <2> QED  BY <2>1, <2>3, <2>4, <2>6, Arrives
<1>2. P \in SUBSET States /\ step.op = "props"
  BY AtAreStates
<1> HIDE DEF P, step
<1>3. Triple(P, <<step>>, P)
  BY <1>1, <1>2, PropsStep
<1> QED
  BY <1>3 DEF Props, Do, step, P

-----------------------------------------------------------------------------
\* What steps do between brackets: from ledgers in F to ledgers in G, and the
\* text as it should be around them.
Writes(b, F, steps, G) ==
    /\ F \in SUBSET Ledgers /\ G \in SUBSET Ledgers
    /\ \A o \in Opened : Last(o) = b => Triple(At(o, F), steps, At(o, G))

\* What that says of one place.
LEMMA WritesTriple ==
  ASSUME NEW b, NEW F, NEW G, NEW steps, Writes(b, F, steps, G),
         NEW o \in Opened, Last(o) = b
  PROVE  /\ Triple(At(o, F), steps, At(o, G))
         /\ At(o, F) \in SUBSET States /\ At(o, G) \in SUBSET States
         /\ F \in SUBSET Ledgers /\ G \in SUBSET Ledgers
  BY AtAreStates DEF Writes

\* Properties.
LEMMA WritesProps ==
  ASSUME NEW F \in SUBSET Ledgers PROVE Writes("{", F, Props, F)
  BY PropsAre DEF Writes

\* One after the other.
LEMMA WritesBoth ==
  ASSUME NEW b, NEW F, NEW G, NEW H, NEW s, NEW t, Writes(b, F, s, G), Writes(b, G, t, H)
  PROVE  Writes(b, F, s \o t, H)
<1>1. ASSUME NEW o \in Opened, Last(o) = b PROVE Triple(At(o, F), s \o t, At(o, H))
  BY <1>1, WritesTriple, InSequence
<1> QED
  BY <1>1 DEF Writes

\* More in front, less behind.
LEMMA WritesWeaker ==
  ASSUME NEW b, NEW F, NEW G, NEW H \in SUBSET Ledgers, NEW E, NEW s, Writes(b, F, s, G),
         E \subseteq F, G \subseteq H
  PROVE  Writes(b, E, s, H)
<1>1. ASSUME NEW o \in Opened, Last(o) = b PROVE Triple(At(o, E), s, At(o, H))
  <2>1. Triple(At(o, F), s, At(o, G))
    BY <1>1, WritesTriple
  <2>2. At(o, E) \subseteq At(o, F) /\ At(o, G) \subseteq At(o, H)
    BY AtAreStates
  <2> QED  BY <2>1, <2>2, TripleWeaker
<1> QED
  BY <1>1 DEF Writes

\* A member, perhaps the object of an extension, with what is in it.
LEMMA WritesExtension ==
  ASSUME NEW F \in SUBSET Ledgers, NEW G, NEW H, NEW steps, NEW ext, NEW b \in Brackets,
         \A l \in F : Began(l, ext) \in G, Writes(b, G, steps, H)
  PROVE  Writes("{", F, Begin(ext, Key \o <<b>>) \o steps \o Line(<<Closer(b)>>), H)
<1>1. ASSUME NEW o \in Opened, Last(o) = "{"
      PROVE  Triple(At(o, F), Begin(ext, Key \o <<b>>) \o steps \o Line(<<Closer(b)>>), At(o, H))
  <2> DEFINE p == Append(o, b)
             first == Begin(ext, Key \o <<b>>)
             last == Line(<<Closer(b)>>)
  <2>1. p \in Opened /\ Last(p) = b
    BY OpenedIs DEF Opened
  <2>2. G \in SUBSET Ledgers /\ H \in SUBSET Ledgers
    BY DEF Writes
  <2>3. Triple(At(o, F), first, At(p, G))
    BY <1>1, <2>2, MemberLine
  <2>4. Triple(At(p, H), last, At(o, H))
    BY <2>2, ClosingLine
  <2> HIDE DEF p, first, last
  <2>5. Triple(At(p, G), steps, At(p, H))
    BY <2>1, WritesTriple
  <2>6. Triple(At(o, F), first \o steps, At(p, H))
    BY <2>3, <2>5, InSequence
  <2>7. Triple(At(o, F), (first \o steps) \o last, At(o, H))
    BY <2>4, <2>6, InSequence
  <2> QED  BY <2>7 DEF first, last
<1> QED
  BY <1>1 DEF Writes

\* An object under a key.
LEMMA WritesObject ==
  ASSUME NEW F, NEW G, NEW steps, Writes("{", F, steps, G)
  PROVE  Writes("{", F, Object(steps), G)
<1> DEFINE b == "{"
           c == Closer(b)
<1>1. F \in SUBSET Ledgers /\ b \in Brackets /\ \A l \in F : Began(l, "none") \in F
  BY BeganIs DEF Writes, Brackets
<1>2. c = "}"
  BY DEF Closer
<1> HIDE DEF c
<1>3. Writes("{", F, Begin("none", Key \o <<b>>) \o steps \o Line(<<Closer(b)>>), G)
  BY <1>1, WritesExtension
<1> QED
  BY Zenon, <1>2, <1>3 DEF Object, Line, b, c

\* An array under a key.
LEMMA WritesArray ==
  ASSUME NEW F, NEW G, NEW steps, Writes("[", F, steps, G)
  PROVE  Writes("{", F, Array(steps), G)
<1> DEFINE b == "["
           c == Closer(b)
<1>1. F \in SUBSET Ledgers /\ b \in Brackets /\ \A l \in F : Began(l, "none") \in F
  BY BeganIs DEF Writes, Brackets
<1>2. c = "]"
  BY DEF Closer
<1> HIDE DEF c
<1>3. Writes("{", F, Begin("none", Key \o <<b>>) \o steps \o Line(<<Closer(b)>>), G)
  BY <1>1, WritesExtension
<1> QED
  BY Zenon, <1>2, <1>3 DEF Array, Line, b, c

\* The object of an extension.
LEMMA WritesExtensionObject ==
  ASSUME NEW F \in SUBSET Ledgers, NEW G, NEW H, NEW steps, NEW ext,
         \A l \in F : Began(l, ext) \in G, Writes("{", G, steps, H)
  PROVE  Writes("{", F, Extension(ext, steps), H)
<1> DEFINE b == "{"
           c == Closer(b)
<1>1. b \in Brackets
  BY DEF Brackets
<1>2. c = "}"
  BY DEF Closer
<1> HIDE DEF c
<1>3. Writes("{", F, Begin(ext, Key \o <<b>>) \o steps \o Line(<<Closer(b)>>), H)
  BY <1>1, WritesExtension
<1> QED
  BY Zenon, <1>2, <1>3 DEF Extension, b, c

\* An element of an array.
LEMMA WritesElement ==
  ASSUME NEW F, NEW G, NEW steps, Writes("{", F, steps, G)
  PROVE  Writes("[", F, Element(steps), G)
<1> DEFINE b == "{"
           c == Closer(b)
<1>1. F \in SUBSET Ledgers /\ G \in SUBSET Ledgers /\ b \in Brackets
  BY DEF Writes, Brackets
<1>2. c = "}"
  BY DEF Closer
<1>3. ASSUME NEW o \in Opened, Last(o) = "["
      PROVE  Triple(At(o, F), Line(<<b>>) \o steps \o Line(<<c>>), At(o, G))
  <2> DEFINE p == Append(o, b)
             first == Line(<<b>>)
             last == Line(<<c>>)
  <2>1. p \in Opened /\ Last(p) = b
    BY <1>1, OpenedIs DEF Opened
  <2>3. Triple(At(o, F), first, At(p, F))
    BY <1>1, <1>3, ElementLine
  <2>4. Triple(At(p, G), last, At(o, G))
    BY <1>1, ClosingLine
  <2> HIDE DEF p, first, last
  <2>5. Triple(At(p, F), steps, At(p, G))
    BY <2>1, WritesTriple
  <2>6. Triple(At(o, F), first \o steps, At(p, G))
    BY <2>3, <2>5, InSequence
  <2>7. Triple(At(o, F), (first \o steps) \o last, At(o, G))
    BY <2>4, <2>6, InSequence
  <2> QED  BY <2>7 DEF first, last
<1> HIDE DEF c
<1>4. Writes("[", F, Line(<<b>>) \o steps \o Line(<<c>>), G)
  BY <1>1, <1>3 DEF Writes
<1> QED
  BY Zenon, <1>2, <1>4 DEF Element, b

\* What only some documents have.
LEMMA WritesMaybe ==
  ASSUME NEW b, NEW F, NEW G, NEW steps, Writes(b, F, steps, G), F \subseteq G
  PROVE  Writes(b, F, Maybe(steps), G)
<1>1. ASSUME NEW o \in Opened, Last(o) = b PROVE Triple(At(o, F), Maybe(steps), At(o, G))
  BY <1>1, WritesTriple, AtAreStates, TripleMaybe
<1> QED
  BY <1>1 DEF Writes

\* What only documents with this extension have.
LEMMA WritesMaybeExtension ==
  ASSUME NEW b, NEW F, NEW G, NEW steps, NEW name, Writes(b, F, steps, G), F \subseteq G
  PROVE  Writes(b, F, MaybeExtension(name, steps), G)
<1>1. ASSUME NEW o \in Opened, Last(o) = b
      PROVE  Triple(At(o, F), MaybeExtension(name, steps), At(o, G))
  <2>1. Featuring(At(o, F), name) \subseteq At(o, F) /\ At(o, G) \subseteq At(o, G)
    BY DEF Featuring
  <2>2. /\ Triple(At(o, F), steps, At(o, G)) /\ At(o, F) \subseteq At(o, G)
        /\ At(o, F) \in SUBSET States /\ At(o, G) \in SUBSET States
    BY <1>1, WritesTriple, AtAreStates
  <2>3. Triple(Featuring(At(o, F), name), steps, At(o, G))
    BY <2>1, <2>2, TripleWeaker
  <2> QED  BY <2>2, <2>3, TripleMaybeExtension
<1> QED
  BY <1>1 DEF Writes

\* What is repeated.
LEMMA WritesSome ==
  ASSUME NEW b, NEW F, NEW G, NEW steps, Writes(b, F, steps, G), G \subseteq F
  PROVE  Writes(b, F, Some(steps), G)
<1>1. ASSUME NEW o \in Opened, Last(o) = b PROVE Triple(At(o, F), Some(steps), At(o, G))
  BY <1>1, WritesTriple, AtAreStates, TripleSome
<1> QED
  BY <1>1 DEF Writes

\* What only some objects have.
LEMMA WritesIf ==
  ASSUME NEW b, NEW F \in SUBSET Ledgers, NEW G, NEW steps, NEW exts,
         Writes(b, {l \in F : l.has \intersect exts # {}}, steps, G),
         \A l \in F : l.has \intersect exts = {} => l \in G
  PROVE  Writes(b, F, If(exts, steps), G)
<1> DEFINE E == {l \in F : l.has \intersect exts # {}}
<1>1. ASSUME NEW o \in Opened, Last(o) = b PROVE Triple(At(o, F), If(exts, steps), At(o, G))
  <2>1. Having(At(o, F), exts) \subseteq At(o, E) /\ Lacking(At(o, F), exts) \subseteq At(o, G)
    BY DEF Having, Lacking, At
  <2> HIDE DEF E
  <2>2. Triple(At(o, E), steps, At(o, G))
    BY <1>1, WritesTriple DEF E
  <2>3. Triple(Having(At(o, F), exts), steps, At(o, G))
    BY <2>1, <2>2, TripleWeaker
  <2>4. At(o, F) \in SUBSET States /\ At(o, G) \in SUBSET States
    BY AtAreStates
  <2> QED  BY <2>1, <2>3, <2>4, TripleIf
<1> QED
  BY <1>1 DEF Writes

-----------------------------------------------------------------------------
\* Steps that only note something.

\* Notes leave the text and the comma alone.
LEMMA NotedIs ==
  ASSUME NEW o \in Opened, NEW F, NEW s \in At(o, F), NEW G \in SUBSET Ledgers, NEW l \in G,
         l.features = s.ledger.features
  PROVE  Noted(s, l) \in At(o, G)
<1>1. s \in States /\ s.text \in Texts /\ s.comma \in BOOLEAN
      /\ (Quiet(s) => s.text = Place(o, s.comma))
  BY StatesAre DEF At
<1>2. Noted(s, l) = [comma |-> s.comma, text |-> s.text, ledger |-> l, declared |-> s.declared]
  BY Zenon DEF Noted, With
<1> QED
  BY <1>1, <1>2, Arrives

\* A choice of extensions.
LEMMA WritesChoose ==
  ASSUME NEW b, NEW F \in SUBSET Ledgers, NEW G \in SUBSET Ledgers, NEW exts,
         NEW op \in {"choose", "lists"},
         \A l \in F : \A chosen \in SUBSET (exts \intersect l.features) :
             [l EXCEPT !.has = chosen] \in G
  PROVE  Writes(b, F, Do(op, exts), G)
<1> DEFINE step == [op |-> op, arg |-> exts]
<1>1. step.op \in {"choose", "lists"} /\ step.arg = exts
  OBVIOUS
<1> HIDE DEF step
<1>2. ASSUME NEW o \in Opened PROVE Triple(At(o, F), <<step>>, At(o, G))
  <2>1. ASSUME NEW s \in At(o, F), NEW chosen \in SUBSET (exts \intersect s.ledger.features)
        PROVE  Chosen(s, chosen) \in At(o, G)
    <3>1. s.ledger \in F
      BY DEF At
    <3>2. [s.ledger EXCEPT !.has = chosen].features = s.ledger.features
      BY <3>1 DEF Ledgers
    <3> QED  BY <3>1, <3>2, NotedIs DEF Chosen
  <2>2. \A s \in At(o, F) : \A chosen \in SUBSET (step.arg \intersect s.ledger.features) :
           Chosen(s, chosen) \in At(o, G)
    BY Zenon, <1>1, <2>1
  <2>3. At(o, F) \in SUBSET States /\ At(o, G) \in SUBSET States
    BY AtAreStates
  <2> QED  BY <1>1, <2>2, <2>3, ChoiceStep
<1>3. Do(op, exts) = <<step>>
  BY DEF Do, step
<1> QED
  BY <1>2, <1>3 DEF Writes

\* A flag.
LEMMA WritesFlag ==
  ASSUME NEW b, NEW F \in SUBSET Ledgers, NEW G \in SUBSET Ledgers, NEW ext,
         \A l \in F : [l EXCEPT !.flags = @ \union {ext}] \in G
  PROVE  Writes(b, F, Flag(ext), G)
<1> DEFINE step == [op |-> "flag", arg |-> ext]
<1>1. step.op = "flag" /\ step.arg = ext
  OBVIOUS
<1> HIDE DEF step
<1>2. ASSUME NEW o \in Opened PROVE Triple(At(o, F), <<step>>, At(o, G))
  <2>1. ASSUME NEW s \in At(o, F) PROVE Flagged(s, {ext}) \in At(o, G)
    <3>1. s.ledger \in F
      BY DEF At
    <3>2. [s.ledger EXCEPT !.flags = @ \union {ext}].features = s.ledger.features
      BY <3>1 DEF Ledgers
    <3> QED  BY <3>1, <3>2, NotedIs DEF Flagged
  <2> QED  BY <1>1, <2>1, AtAreStates, NoteStep
<1>3. Flag(ext) = <<step>>
  BY DEF Flag, Do, step
<1> QED
  BY <1>2, <1>3 DEF Writes

\* The flags of a material.
LEMMA WritesFlagThose ==
  ASSUME NEW b, NEW F \in SUBSET Ledgers, NEW G \in SUBSET Ledgers,
         \A l \in F : [l EXCEPT !.flags = @ \union l.has] \in G
  PROVE  Writes(b, F, Do("flag_those", 0), G)
<1> DEFINE step == [op |-> "flag_those", arg |-> 0]
<1>1. step.op = "flag_those"
  OBVIOUS
<1> HIDE DEF step
<1>2. ASSUME NEW o \in Opened PROVE Triple(At(o, F), <<step>>, At(o, G))
  <2>1. ASSUME NEW s \in At(o, F) PROVE Flagged(s, s.ledger.has) \in At(o, G)
    <3>1. s.ledger \in F
      BY DEF At
    <3>2. [s.ledger EXCEPT !.flags = @ \union s.ledger.has].features = s.ledger.features
      BY <3>1 DEF Ledgers
    <3> QED  BY <3>1, <3>2, NotedIs DEF Flagged
  <2> QED  BY <1>1, <2>1, AtAreStates, NoteStep
<1>3. Do("flag_those", 0) = <<step>>
  BY DEF Do, step
<1> QED
  BY <1>2, <1>3 DEF Writes

\* A flag of what is required.
LEMMA WritesRequire ==
  ASSUME NEW b, NEW F \in SUBSET Ledgers, NEW G \in SUBSET Ledgers, NEW ext,
         \A l \in F : [l EXCEPT !.required = @ \union {ext}] \in G
  PROVE  Writes(b, F, Require(ext), G)
<1> DEFINE step == [op |-> "require", arg |-> ext]
<1>1. step.op = "require" /\ step.arg = ext
  OBVIOUS
<1> HIDE DEF step
<1>2. ASSUME NEW o \in Opened PROVE Triple(At(o, F), <<step>>, At(o, G))
  <2>1. ASSUME NEW s \in At(o, F) PROVE Required(s, ext) \in At(o, G)
    <3>1. s.ledger \in F
      BY DEF At
    <3>2. [s.ledger EXCEPT !.required = @ \union {ext}].features = s.ledger.features
      BY <3>1 DEF Ledgers
    <3> QED  BY <3>1, <3>2, NotedIs DEF Required
  <2> QED  BY <1>1, <2>1, AtAreStates, NoteStep
<1>3. Require(ext) = <<step>>
  BY DEF Require, Do, step
<1> QED
  BY <1>2, <1>3 DEF Writes

-----------------------------------------------------------------------------
\* What is flagged and what is written: all that has been written is flagged, and
\* besides it of R what the object has, and the extensions of X.  H are the sets
\* of extensions that the object may have.
Owing(H, R, X) ==
    {l \in Ledgers : /\ l.has \in H
                     /\ l.flags = l.wrote \union (l.has \intersect R) \union X
                     /\ l.required \subseteq l.flags}

Owed(H, R) == Owing(H, R, {})

Anything == SUBSET Listed
Clean == Owed(Anything, {})

\* The fields of a ledger.
LEMMA LedgersAre ==
  ASSUME NEW l \in Ledgers
  PROVE  /\ l = [features |-> l.features, has |-> l.has, flags |-> l.flags,
                 required |-> l.required, wrote |-> l.wrote]
         /\ l.features \in Features /\ l.has \in SUBSET Listed /\ l.flags \in SUBSET Listed
         /\ l.required \in SUBSET Listed /\ l.wrote \in SUBSET Listed
         /\ l.has \subseteq l.features
  BY DEF Ledgers

\* The object of an extension is begun.
LEMMA BeganWrote ==
  ASSUME NEW l \in Ledgers, NEW ext \in Listed
  PROVE  /\ Began(l, ext) \in Ledgers /\ Began(l, ext).wrote = l.wrote \union {ext}
         /\ Began(l, ext).has = l.has /\ Began(l, ext).flags = l.flags
         /\ Began(l, ext).required = l.required
<1>1. "none" \notin Listed
  BY DEF Listed, MaterialExtensions, WithTextures
<1>2. (l.wrote \union {ext}) \ {"none"} = l.wrote \union {ext}
  BY <1>1, LedgersAre
<1>3. Began(l, ext) = [l EXCEPT !.wrote = l.wrote \union {ext}]
  BY <1>2 DEF Began
<1> QED
  BY <1>3, LedgersAre DEF Ledgers

\* A flag changes the flags alone.
LEMMA FlagNotes ==
  ASSUME NEW l \in Ledgers, NEW exts \in SUBSET Listed
  PROVE  LET k == [l EXCEPT !.flags = @ \union exts]
         IN  /\ k \in Ledgers /\ k.flags = l.flags \union exts
             /\ k.has = l.has /\ k.wrote = l.wrote /\ k.required = l.required
  BY LedgersAre DEF Ledgers

\* A requirement changes the required alone.
LEMMA RequireNotes ==
  ASSUME NEW l \in Ledgers, NEW ext \in Listed
  PROVE  LET k == [l EXCEPT !.required = @ \union {ext}]
         IN  /\ k \in Ledgers /\ k.required = l.required \union {ext}
             /\ k.has = l.has /\ k.wrote = l.wrote /\ k.flags = l.flags
  BY LedgersAre DEF Ledgers

\* A choice changes what the object has alone.
LEMMA ChoiceNotes ==
  ASSUME NEW l \in Ledgers, NEW exts \in SUBSET Listed, exts \subseteq l.features
  PROVE  LET k == [l EXCEPT !.has = exts]
         IN  /\ k \in Ledgers /\ k.has = exts
             /\ k.flags = l.flags /\ k.wrote = l.wrote /\ k.required = l.required
  BY LedgersAre DEF Ledgers

\* Ledgers all of them.
LEMMA OwingAreLedgers ==
  ASSUME NEW H, NEW R, NEW X PROVE Owing(H, R, X) \in SUBSET Ledgers
  BY DEF Owing

\* Ledgers all of them.
LEMMA OwedAreLedgers ==
  ASSUME NEW H, NEW R
  PROVE  Owed(H, R) \in SUBSET Ledgers /\ Clean \in SUBSET Ledgers
  BY DEF Owed, Clean, Owing

\* An extension that is flagged, and then written.
LEMMA WritesFlagged ==
  ASSUME NEW H, NEW R, NEW ext \in Listed, NEW steps, NEW b,
         Writes("{", Owed(H, R), steps, Owed(H, R))
  PROVE  /\ Writes(b, Owed(H, R), Flag(ext), Owing(H, R, {ext}))
         /\ Writes(b, Owing(H, R, {ext}), Require(ext), Owing(H, R, {ext}))
         /\ Writes("{", Owing(H, R, {ext}), Extension(ext, steps), Owed(H, R))
<1> DEFINE F == Owed(H, R)
           G == Owing(H, R, {ext})
<1>1. F \in SUBSET Ledgers /\ G \in SUBSET Ledgers
  BY OwingAreLedgers, OwedAreLedgers
<1>2. ASSUME NEW l \in F PROVE [l EXCEPT !.flags = @ \union {ext}] \in G
  <2>1. l \in Ledgers /\ {ext} \in SUBSET Listed
    BY <1>1
  <2>2. l.has \in H /\ l.flags = l.wrote \union (l.has \intersect R)
        /\ l.required \subseteq l.flags
    BY DEF Owed, Owing
  <2>3. PICK k : k = [l EXCEPT !.flags = @ \union {ext}]
    OBVIOUS
  <2>4. /\ k \in Ledgers /\ k.flags = l.flags \union {ext}
        /\ k.has = l.has /\ k.wrote = l.wrote /\ k.required = l.required
    BY Zenon, <2>1, <2>3, FlagNotes
  <2>5. k \in G
    BY <2>2, <2>4 DEF Owing
  <2> QED  BY Zenon, <2>3, <2>5
<1>3. ASSUME NEW l \in G PROVE [l EXCEPT !.required = @ \union {ext}] \in G
  <2>1. l \in Ledgers /\ {ext} \in SUBSET Listed
    BY <1>1
  <2>2. l.has \in H /\ l.flags = l.wrote \union (l.has \intersect R) \union {ext}
        /\ l.required \subseteq l.flags
    BY DEF Owing
  <2>3. PICK k : k = [l EXCEPT !.required = @ \union {ext}]
    OBVIOUS
  <2>4. /\ k \in Ledgers /\ k.required = l.required \union {ext}
        /\ k.has = l.has /\ k.wrote = l.wrote /\ k.flags = l.flags
    BY Zenon, <2>1, <2>3, RequireNotes
  <2>5. k \in G
    BY <2>2, <2>4 DEF Owing
  <2> QED  BY Zenon, <2>3, <2>5
<1>4. ASSUME NEW l \in G PROVE Began(l, ext) \in F
  <2>1. l \in Ledgers
    BY <1>1
  <2>2. l.has \in H /\ l.flags = l.wrote \union (l.has \intersect R) \union {ext}
        /\ l.required \subseteq l.flags
    BY DEF Owing
  <2>3. PICK k : k = Began(l, ext)
    OBVIOUS
  <2>4. /\ k \in Ledgers /\ k.wrote = l.wrote \union {ext}
        /\ k.has = l.has /\ k.flags = l.flags /\ k.required = l.required
    BY <2>1, <2>3, BeganWrote
  <2>5. k \in F
    BY <2>2, <2>4 DEF Owed, Owing
  <2> QED  BY <2>3, <2>5
<1> HIDE DEF F, G
<1>5. Writes(b, F, Flag(ext), G)
  BY <1>1, <1>2, WritesFlag
<1>6. Writes(b, G, Require(ext), G)
  BY <1>1, <1>3, WritesRequire
<1>7. Writes("{", F, steps, F)
  BY DEF F
<1>8. Writes("{", G, Extension(ext, steps), F)
  BY <1>1, <1>4, <1>7, WritesExtensionObject
<1> QED
  BY <1>5, <1>6, <1>8 DEF F, G

-----------------------------------------------------------------------------
\* The functions that most of a document is made of.

\* What has properties only.
LEMMA PlainObjects ==
  ASSUME NEW F \in SUBSET Ledgers
  PROVE  Writes("{", F, Props, F) /\ Writes("{", F, Object(Props), F)
         /\ Writes("[", F, Element(Props), F)
         /\ Writes("{", F, Array(Some(Element(Props))), F)
<1>1. Writes("{", F, Props, F)
  BY WritesProps
<1>2. Writes("{", F, Object(Props), F) /\ Writes("[", F, Element(Props), F)
  BY <1>1, WritesObject, WritesElement
<1>3. Writes("[", F, Some(Element(Props)), F)
  BY <1>2, WritesSome
<1> QED
  BY <1>1, <1>2, <1>3, WritesArray

\* An array of the document, if there is anything in it.
LEMMA WritesArrayOf ==
  ASSUME NEW F, NEW element, Writes("[", F, element, F)
  PROVE  Writes("{", F, ArrayOf(element), F)
<1>1. Writes("{", F, Array(Some(element)), F)
  BY WritesSome, WritesArray
<1> QED
  BY <1>1, WritesMaybe DEF ArrayOf

KTT == "KHR_texture_transform"

\* A texture and its transform, which is flagged on the spot.
LEMMA WritesTextureInfo ==
  ASSUME NEW H, NEW R PROVE Writes("{", Owed(H, R), TextureInfo, Owed(H, R))
<1> DEFINE F == Owed(H, R)
           G == Owing(H, R, {KTT})
           object == Extension(KTT, Props)
<1>1. F \in SUBSET Ledgers /\ KTT \in Listed
  BY OwedAreLedgers DEF Listed, KTT
<1>2. Writes("{", F, Props, F)
  BY <1>1, PlainObjects
<1>3. Writes("{", F, Flag(KTT), G) /\ Writes("{", G, object, F)
  BY <1>1, <1>2, WritesFlagged
<1> HIDE DEF F, G, object
<1>4. Writes("{", G, Object(object), F)
  BY <1>3, WritesObject
<1>5. Writes("{", F, Flag(KTT) \o Object(object), F)
  BY <1>3, <1>4, WritesBoth
<1>6. Writes("{", F, MaybeExtension(KTT, Flag(KTT) \o Object(object)), F)
  BY <1>5, WritesMaybeExtension
<1>7. Writes("{", F, Props \o MaybeExtension(KTT, Flag(KTT) \o Object(object)), F)
  BY <1>2, <1>6, WritesBoth
<1>8. Writes("{", F, Object(Props \o MaybeExtension(KTT, Flag(KTT) \o Object(object))), F)
  BY <1>7, WritesObject
<1>9. Writes("{", F, Maybe(Object(Props \o MaybeExtension(KTT, Flag(KTT) \o Object(object)))), F)
  BY <1>8, WritesMaybe
<1> QED
  BY Zenon, <1>9 DEF TextureInfo, cgltf_write_texture_transform, object, F, KTT

\* An if, when it does not matter what it asks.
LEMMA WritesEither ==
  ASSUME NEW b, NEW F, NEW steps, NEW exts, Writes(b, F, steps, F)
  PROVE  Writes(b, F, If(exts, steps), F)
<1> DEFINE E == {l \in F : l.has \intersect exts # {}}
<1>1. F \in SUBSET Ledgers /\ E \subseteq F
  BY DEF Writes
<1>2. Writes(b, E, steps, F)
  BY <1>1, WritesWeaker
<1> QED
  BY <1>1, <1>2, WritesIf

\* What an object has is chosen out of a set of extensions.
LEMMA WritesChoice ==
  ASSUME NEW b, NEW exts \in SUBSET Listed, NEW op \in {"choose", "lists"}
  PROVE  Writes(b, Clean, Do(op, exts), Owed(SUBSET exts, {}))
<1> DEFINE G == Owed(SUBSET exts, {})
<1>1. ASSUME NEW l \in Clean, NEW chosen \in SUBSET (exts \intersect l.features)
      PROVE  [l EXCEPT !.has = chosen] \in G
  <2>1. l \in Ledgers /\ l.flags = l.wrote /\ l.required \subseteq l.flags
    BY LedgersAre DEF Clean, Owed, Owing
  <2>2. PICK k : k = [l EXCEPT !.has = chosen]
    OBVIOUS
  <2>3. chosen \in SUBSET Listed /\ chosen \subseteq l.features /\ chosen \subseteq exts
    OBVIOUS
  <2>4. /\ k \in Ledgers /\ k.has = chosen
        /\ k.flags = l.flags /\ k.wrote = l.wrote /\ k.required = l.required
    BY Zenon, <2>1, <2>2, <2>3, ChoiceNotes
  <2>5. k \in G
    BY <2>1, <2>3, <2>4 DEF Owed, Owing
  <2> QED  BY <2>2, <2>5
<1>2. Clean \in SUBSET Ledgers /\ G \in SUBSET Ledgers
  BY OwedAreLedgers
<1> HIDE DEF G
<1>3. Writes(b, Clean, Do(op, exts), G)
  BY <1>1, <1>2, WritesChoose
<1> QED
  BY <1>3 DEF G

\* When nothing is owed it does not matter what the object may have.
LEMMA OwedIsClean ==
  ASSUME NEW exts \in SUBSET Listed PROVE Owed(SUBSET exts, {}) \subseteq Clean
  BY DEF Owed, Owing, Clean, Anything

\* A choice when nothing is owed.
LEMMA WritesAnyChoice ==
  ASSUME NEW b, NEW exts \in SUBSET Listed, NEW op \in {"choose", "lists"}
  PROVE  Writes(b, Clean, Do(op, exts), Clean)
<1>1. Writes(b, Clean, Do(op, exts), Owed(SUBSET exts, {}))
  BY WritesChoice
<1>2. Owed(SUBSET exts, {}) \subseteq Clean /\ Clean \subseteq Clean /\ Clean \in SUBSET Ledgers
  BY OwedIsClean, OwedAreLedgers
<1> QED
  BY <1>1, <1>2, WritesWeaker

KDMC == "KHR_draco_mesh_compression"
KMV  == "KHR_materials_variants"

\* cgltf_write_primitive.
LEMMA WritesPrimitive == Writes("{", Clean, cgltf_write_primitive, Clean)
<1> DEFINE F == Clean
           D == Owing(Anything, {}, {KDMC})
           V == Owing(Anything, {}, {KMV})
           draco == Flag(KDMC) \o Maybe(Require(KDMC)) \o Extension(KDMC, Props \o Object(Props))
           variants == Flag(KMV) \o Extension(KMV, Array(Some(Element(Props))))
           both == If({KDMC}, draco) \o If({KMV}, variants)
<1>1. F \in SUBSET Ledgers /\ KDMC \in Listed /\ KMV \in Listed
  BY OwedAreLedgers DEF Listed, KDMC, KMV
<1>2. {KDMC, KMV} \in SUBSET Listed
  BY <1>1
<1>3. /\ Writes("{", F, Props, F) /\ Writes("{", F, Object(Props), F)
      /\ Writes("{", F, Array(Some(Element(Props))), F)
  BY <1>1, PlainObjects
<1>4. Writes("{", F, Props \o Object(Props), F)
  BY <1>3, WritesBoth
<1>5. /\ Writes("{", F, Flag(KDMC), D) /\ Writes("{", D, Require(KDMC), D)
      /\ Writes("{", D, Extension(KDMC, Props \o Object(Props)), F)
  BY <1>1, <1>4, WritesFlagged DEF Clean
<1>6. /\ Writes("{", F, Flag(KMV), V)
      /\ Writes("{", V, Extension(KMV, Array(Some(Element(Props)))), F)
  BY <1>1, <1>3, WritesFlagged DEF Clean
<1> HIDE DEF F, D, V
<1>7. Writes("{", D, Maybe(Require(KDMC)), D)
  BY <1>5, WritesMaybe
<1>8. Writes("{", F, draco, F)
  BY <1>5, <1>7, WritesBoth
<1>9. Writes("{", F, variants, F)
  BY <1>6, WritesBoth
<1> HIDE DEF draco, variants
<1>10. Writes("{", F, both, F)
  BY <1>8, <1>9, WritesEither, WritesBoth
<1> HIDE DEF both
<1>11. Writes("{", F, If({KDMC, KMV}, Object(both)), F)
  BY <1>10, WritesObject, WritesEither
<1>12. Writes("{", F, Maybe(Array(Some(Element(Props)))), F)
  BY <1>3, WritesMaybe
<1>13. Writes("{", F, Choose({KDMC, KMV}), F)
  BY <1>2, WritesAnyChoice DEF Choose, F
<1>14. Writes("{", F, Choose({KDMC, KMV}) \o Props \o Object(Props)
              \o Maybe(Array(Some(Element(Props)))) \o Props, F)
  BY <1>3, <1>12, <1>13, WritesBoth
<1>15. Writes("{", F, Choose({KDMC, KMV}) \o Props \o Object(Props)
              \o Maybe(Array(Some(Element(Props)))) \o Props
              \o If({KDMC, KMV}, Object(both)), F)
  BY <1>11, <1>14, WritesBoth
<1> QED
  BY Zenon, <1>15 DEF cgltf_write_primitive, both, draco, variants, F, KDMC, KMV

\* cgltf_write_mesh.
LEMMA WritesMesh == Writes("[", Clean, cgltf_write_mesh, Clean)
<1> DEFINE p == cgltf_write_primitive
           array == Array(Maybe(Some(Element(p))))
<1>1. Writes("{", Clean, p, Clean)
  BY WritesPrimitive
<1> HIDE DEF p
<1>2. Writes("[", Clean, Some(Element(p)), Clean)
  BY <1>1, WritesElement, WritesSome
<1>3. Writes("{", Clean, array, Clean)
  BY <1>2, WritesMaybe, WritesArray
<1>4. Writes("{", Clean, Props, Clean)
  BY OwedAreLedgers, PlainObjects
<1> HIDE DEF array
<1>5. Writes("{", Clean, Props \o array \o Props, Clean)
  BY <1>3, <1>4, WritesBoth
<1> QED
  BY Zenon, <1>5, WritesElement DEF cgltf_write_mesh, array, p

\* cgltf_write_texture.
LEMMA WritesTexture == Writes("[", Clean, cgltf_write_texture, Clean)
<1> DEFINE x == "KHR_texture_basisu"
           y == "EXT_texture_webp"
           one == Flag(x) \o Extension(x, Props)
           two == Flag(y) \o Extension(y, Props)
           both == If({x}, one) \o If({y}, two)
<1>1. Clean \in SUBSET Ledgers /\ x \in Listed /\ y \in Listed
  BY OwedAreLedgers DEF Listed
<1> HIDE DEF x, y
<1>2. {x, y} \in SUBSET Listed /\ Writes("{", Clean, Props, Clean)
  BY <1>1, PlainObjects
<1>3. Writes("{", Clean, one, Clean) /\ Writes("{", Clean, two, Clean)
  BY <1>1, <1>2, WritesFlagged, WritesBoth DEF Clean
<1> HIDE DEF one, two
<1>4. Writes("{", Clean, both, Clean)
  BY <1>3, WritesEither, WritesBoth
<1> HIDE DEF both
<1>5. Writes("{", Clean, If({x, y}, Object(both)), Clean)
  BY <1>4, WritesObject, WritesEither
<1>6. Writes("{", Clean, Choose({x, y}), Clean)
  BY <1>2, WritesAnyChoice DEF Choose
<1>7. Writes("{", Clean, Choose({x, y}) \o Props \o If({x, y}, Object(both)) \o Props, Clean)
  BY <1>2, <1>5, <1>6, WritesBoth
<1> QED
  BY Zenon, <1>7, WritesElement DEF cgltf_write_texture, both, one, two, x, y

\* What has properties only, in a document.
LEMMA WritesPlain ==
  /\ Writes("[", Clean, Element(Props), Clean)
  /\ Writes("{", Clean, Props, Clean)
  /\ Writes("{", Clean, Object(Props), Clean)
  BY OwedAreLedgers, PlainObjects

\* cgltf_write_animation.
LEMMA WritesAnimation == Writes("[", Clean, cgltf_write_animation, Clean)
<1> DEFINE sampler == Element(Props)
           channel == Element(Props \o Object(Props) \o Props)
<1>1. Writes("[", Clean, sampler, Clean) /\ Writes("{", Clean, Props, Clean)
  BY WritesPlain
<1>2. Writes("{", Clean, Props \o Object(Props) \o Props, Clean)
  BY WritesPlain, WritesBoth
<1>3. Writes("[", Clean, channel, Clean)
  BY <1>2, WritesElement
<1> HIDE DEF sampler, channel
<1>4. Writes("{", Clean, ArrayOf(sampler), Clean) /\ Writes("{", Clean, ArrayOf(channel), Clean)
  BY <1>1, <1>3, WritesArrayOf
<1>5. Writes("{", Clean, Props \o ArrayOf(sampler) \o ArrayOf(channel) \o Props, Clean)
  BY <1>1, <1>4, WritesBoth
<1> QED
  BY Zenon, <1>5, WritesElement
     DEF cgltf_write_animation, cgltf_write_animation_sampler, cgltf_write_animation_channel,
         ArrayOf, sampler, channel

\* cgltf_write_accessor.
LEMMA WritesAccessor == Writes("[", Clean, cgltf_write_accessor, Clean)
<1> DEFINE inner == Props \o Object(Props) \o Object(Props)
<1>1. Writes("{", Clean, inner, Clean) /\ Writes("{", Clean, Props, Clean)
  BY WritesPlain, WritesBoth
<1> HIDE DEF inner
<1>2. Writes("{", Clean, Maybe(Object(inner)), Clean)
  BY <1>1, WritesObject, WritesMaybe
<1>3. Writes("{", Clean, Props \o Maybe(Object(inner)) \o Props, Clean)
  BY <1>1, <1>2, WritesBoth
<1> QED
  BY Zenon, <1>3, WritesElement DEF cgltf_write_accessor, inner

\* A camera, and a light.
LEMMA WritesCamera ==
  ASSUME NEW F \in SUBSET Ledgers
  PROVE  Writes("[", F, Element(Props \o Maybe(Object(Props)) \o Props), F)
<1>1. Writes("{", F, Props, F) /\ Writes("{", F, Maybe(Object(Props)), F)
  BY PlainObjects, WritesMaybe
<1>2. Writes("{", F, Props \o Maybe(Object(Props)) \o Props, F)
  BY <1>1, WritesBoth
<1> QED
  BY <1>2, WritesElement

-----------------------------------------------------------------------------
\* The lights and the variants: the object of the extension is begun before the
\* first of them flags it.
Ahead(ext) ==
    {l \in Ledgers : l.wrote = l.flags \union {ext} /\ l.required \subseteq l.flags}

\* Nothing is owed behind the object, as it has an element that sets the flag.
LEMMA WritesAhead ==
  ASSUME NEW ext \in Listed, NEW element,
         \A F \in SUBSET Ledgers : Writes("[", F, element, F)
  PROVE  Writes("{", Clean, IfExtension(ext, Array(Some(Flag(ext) \o element))), Clean)
<1> DEFINE P == Ahead(ext)
           Q == {l \in Clean : ext \in l.flags}
           array == Array(Some(Flag(ext) \o element))
<1>1. P \in SUBSET Ledgers /\ Q \in SUBSET Ledgers /\ Clean \in SUBSET Ledgers
  BY OwedAreLedgers DEF Ahead
<1>2. Q \subseteq P /\ Q \subseteq Clean
  BY DEF Ahead, Clean, Owed, Owing
<1>3. ASSUME NEW l \in P PROVE [l EXCEPT !.flags = @ \union {ext}] \in Q
  <2>1. l \in Ledgers /\ {ext} \in SUBSET Listed /\ l.has \in SUBSET Listed
    BY <1>1, LedgersAre
  <2>2. l.wrote = l.flags \union {ext} /\ l.required \subseteq l.flags
    BY DEF Ahead
  <2>3. PICK k : k = [l EXCEPT !.flags = @ \union {ext}]
    OBVIOUS
  <2>4. /\ k \in Ledgers /\ k.flags = l.flags \union {ext}
        /\ k.has = l.has /\ k.wrote = l.wrote /\ k.required = l.required
    BY Zenon, <2>1, <2>3, FlagNotes
  <2>5. k \in Q
    BY <2>1, <2>2, <2>4 DEF Clean, Owed, Owing, Anything
  <2> QED  BY Zenon, <2>3, <2>5
<1>4. ASSUME NEW l \in Clean PROVE Began(l, ext) \in P
  <2>1. l \in Ledgers /\ l.flags = l.wrote /\ l.required \subseteq l.flags
    BY LedgersAre DEF Clean, Owed, Owing
  <2>2. PICK k : k = Began(l, ext)
    OBVIOUS
  <2>3. /\ k \in Ledgers /\ k.wrote = l.wrote \union {ext}
        /\ k.has = l.has /\ k.flags = l.flags /\ k.required = l.required
    BY <2>1, <2>2, BeganWrote
  <2>4. k \in P
    BY <2>1, <2>3 DEF Ahead
  <2> QED  BY <2>2, <2>4
<1> HIDE DEF P, Q
<1>5. Writes("[", P, Flag(ext), Q)
  BY <1>1, <1>3, WritesFlag
<1>6. Writes("[", P, Flag(ext) \o element, Q)
  BY <1>1, <1>5, WritesBoth
<1>7. Writes("[", P, Some(Flag(ext) \o element), Q)
  BY <1>2, <1>6, WritesSome
<1>8. Writes("{", P, array, Q)
  BY <1>7, WritesArray
<1> HIDE DEF array
<1>9. Writes("{", P, array, Clean)
  <2>1. P \subseteq P
    OBVIOUS
  <2> QED  BY <1>1, <1>2, <1>8, <2>1, WritesWeaker
<1>10. Writes("{", Clean, Extension(ext, array), Clean)
  BY <1>1, <1>4, <1>9, WritesExtensionObject
<1>11. Writes("{", Clean, If({ext}, Extension(ext, array)), Clean)
  BY <1>10, WritesEither
<1> QED
  BY Zenon, <1>11 DEF IfExtension, array

-----------------------------------------------------------------------------
\* A node: whether the brace of its extensions is open depends on what it has.

NodeExtensions == {"KHR_lights_punctual", "EXT_mesh_gpu_instancing"}

HasAny(exts)  == {h \in Anything : h \intersect exts # {}}
HasNone(exts) == {h \in Anything : h \intersect exts = {}}

InNode(o, exts) ==
    At(o, Owed(HasNone(exts), {})) \union At(Append(o, "{"), Owed(HasAny(exts), {}))

\* What is known in a node of the brace and of what the node has.
LEMMA NodeStates ==
  ASSUME NEW o \in Opened, NEW exts
  PROVE  /\ InNode(o, exts) \in SUBSET States
         /\ Having(InNode(o, exts), exts) \subseteq At(Append(o, "{"), Owed(HasAny(exts), {}))
         /\ Lacking(InNode(o, exts), exts) \subseteq At(o, Clean)
         /\ At(o, Owed(HasNone(exts), {})) \subseteq InNode(o, exts)
         /\ At(Append(o, "{"), Owed(HasAny(exts), {})) \subseteq InNode(o, exts)
         /\ Having(At(o, Clean), exts) \subseteq At(o, Owed(HasAny(exts), {}))
         /\ Lacking(At(o, Clean), exts) \subseteq At(o, Owed(HasNone(exts), {}))
         /\ Owed(HasAny(exts), {}) \subseteq Clean
<1>1. InNode(o, exts) \in SUBSET States
  BY DEF InNode, At
<1>2. Having(InNode(o, exts), exts) \subseteq At(Append(o, "{"), Owed(HasAny(exts), {}))
  BY DEF InNode, Having, At, Owed, Owing, HasNone
<1>3. Lacking(InNode(o, exts), exts) \subseteq At(o, Clean)
  BY DEF InNode, Lacking, At, Owed, Owing, HasAny, HasNone, Clean
<1>4. Having(At(o, Clean), exts) \subseteq At(o, Owed(HasAny(exts), {}))
  BY DEF Having, At, Owed, Owing, HasAny, Clean
<1>5. Lacking(At(o, Clean), exts) \subseteq At(o, Owed(HasNone(exts), {}))
  BY DEF Lacking, At, Owed, Owing, HasNone, Clean
<1>6. Owed(HasAny(exts), {}) \subseteq Clean
  BY DEF Owed, Owing, HasAny, Clean
<1> QED
  BY <1>1, <1>2, <1>3, <1>4, <1>5, <1>6 DEF InNode

\* The brace is opened if the node has either extension.
LEMMA NodeOpens ==
  ASSUME NEW o \in Opened, Last(o) = "{", NEW exts
  PROVE  Triple(At(o, Clean), If(exts, Line(Key \o <<"{">>)), InNode(o, exts))
<1> DEFINE b == "{"
           F == Owed(HasAny(exts), {})
           line == Begin("none", Key \o <<b>>)
<1>1. b \in Brackets /\ F \in SUBSET Ledgers /\ \A l \in F : Began(l, "none") \in F
  BY OwedAreLedgers, BeganIs DEF Brackets
<1>2. At(Append(o, b), F) \subseteq InNode(o, exts) /\ Having(At(o, Clean), exts) \subseteq At(o, F)
  BY NodeStates
<1>3. /\ Lacking(At(o, Clean), exts) \subseteq InNode(o, exts)
      /\ At(o, Clean) \in SUBSET States /\ InNode(o, exts) \in SUBSET States
  BY NodeStates, AtAreStates
<1> HIDE DEF F, b
<1>4. Triple(At(o, F), line, At(Append(o, b), F))
  BY <1>1, MemberLine
<1> HIDE DEF line
<1>5. Triple(Having(At(o, Clean), exts), line, InNode(o, exts))
  BY <1>2, <1>4, TripleWeaker
<1>6. Triple(At(o, Clean), If(exts, line), InNode(o, exts))
  BY <1>3, <1>5, TripleIf
<1> QED
  BY <1>6 DEF line, Line, b

\* It is closed in the same case.
LEMMA NodeCloses ==
  ASSUME NEW o \in Opened, Last(o) = "{", NEW exts
  PROVE  Triple(InNode(o, exts), If(exts, Line(<<"}">>)), At(o, Clean))
<1> DEFINE b == "{"
           c == Closer(b)
           F == Owed(HasAny(exts), {})
           line == Line(<<c>>)
<1>1. b \in Brackets /\ F \in SUBSET Ledgers /\ c = "}"
  BY OwedAreLedgers DEF Brackets, Closer
<1>2. /\ Having(InNode(o, exts), exts) \subseteq At(Append(o, b), F)
      /\ F \subseteq Clean
  BY NodeStates
<1>3. /\ Lacking(InNode(o, exts), exts) \subseteq At(o, Clean)
      /\ At(o, Clean) \in SUBSET States /\ InNode(o, exts) \in SUBSET States
  BY NodeStates, AtAreStates
<1> HIDE DEF F
<1>4. Triple(At(Append(o, b), F), line, At(o, F))
  BY <1>1, ClosingLine
<1>5. At(o, F) \subseteq At(o, Clean)
  BY <1>2, AtAreStates
<1> HIDE DEF line, b, c
<1>6. Triple(Having(InNode(o, exts), exts), line, At(o, Clean))
  BY <1>2, <1>4, <1>5, TripleWeaker
<1>7. Triple(InNode(o, exts), If(exts, line), At(o, Clean))
  BY <1>3, <1>6, TripleIf
<1> QED
  BY Zenon, <1>1, <1>7 DEF line

\* An extension is written between the two.
LEMMA NodeExtension ==
  ASSUME NEW o \in Opened, NEW exts, NEW ext \in exts, NEW steps,
         Writes("{", Owed(HasAny(exts), {}), steps, Owed(HasAny(exts), {}))
  PROVE  Triple(InNode(o, exts), If({ext}, steps), InNode(o, exts))
<1> DEFINE b == "{"
           F == Owed(HasAny(exts), {})
           p == Append(o, b)
           N == InNode(o, exts)
<1>1. p \in Opened /\ Last(p) = b
  BY OpenedIs DEF Opened, Brackets
<1>2. Having(N, exts) \subseteq At(p, F) /\ At(p, F) \subseteq N /\ N \in SUBSET States
  BY NodeStates
<1>3. Having(N, {ext}) \subseteq Having(N, exts) /\ Lacking(N, {ext}) \subseteq N
  BY DEF Having, Lacking
<1> HIDE DEF p, N, F
<1>4. Triple(At(p, F), steps, At(p, F))
  BY <1>1, WritesTriple DEF F
<1>5. Triple(Having(N, {ext}), steps, N)
  <2>1. Having(N, {ext}) \subseteq At(p, F)
    BY <1>2, <1>3
  <2> QED  BY <1>2, <1>4, <2>1, TripleWeaker
<1>6. Triple(N, If({ext}, steps), N)
  BY <1>2, <1>3, <1>5, TripleIf
<1> QED
  BY <1>6 DEF N

\* cgltf_write_node.
LEMMA WritesNode == Writes("[", Clean, cgltf_write_node, Clean)
<1> DEFINE x == "KHR_lights_punctual"
           y == "EXT_mesh_gpu_instancing"
           E == {x, y}
           F == Owed(HasAny(E), {})
           X == Owing(HasAny(E), {}, {x})
           Y == Owing(HasAny(E), {}, {y})
           one == Flag(x) \o Extension(x, Props)
           two == Flag(y) \o Require(y) \o Extension(y, Object(Props))
           begin == If(E, Line(Key \o <<"{">>))
           end == If(E, Line(<<"}">>))
<1>1. x \in Listed /\ y \in Listed /\ F \in SUBSET Ledgers
  BY OwedAreLedgers DEF Listed
<1> HIDE DEF x, y
<1>2. E \in SUBSET Listed /\ x \in E /\ y \in E
  BY <1>1
<1>3. Writes("{", F, Props, F) /\ Writes("{", F, Object(Props), F)
  BY <1>1, PlainObjects
<1>4. Writes("{", F, Flag(x), X) /\ Writes("{", X, Extension(x, Props), F)
  BY <1>1, <1>3, WritesFlagged
<1>5. /\ Writes("{", F, Flag(y), Y) /\ Writes("{", Y, Require(y), Y)
      /\ Writes("{", Y, Extension(y, Object(Props)), F)
  BY <1>1, <1>3, WritesFlagged
<1> HIDE DEF X, Y, F, E
<1>6. Writes("{", F, one, F) /\ Writes("{", F, two, F)
  BY <1>4, <1>5, WritesBoth
<1> HIDE DEF one, two
<1>8. Writes("{", Clean, Choose(E) \o Props, Clean) /\ Writes("{", Clean, Props, Clean)
  <2>1. Writes("{", Clean, Choose(E), Clean)
    BY <1>2, WritesAnyChoice DEF Choose
  <2> QED  BY <2>1, WritesPlain, WritesBoth
<1>9. Writes("{", Clean, Choose(E) \o Props \o begin \o If({x}, one) \o If({y}, two) \o end
                         \o Props, Clean)
  <2> DEFINE front == Choose(E) \o Props
  <2>1. ASSUME NEW o \in Opened, Last(o) = "{"
        PROVE  Triple(At(o, Clean), front \o begin \o If({x}, one) \o If({y}, two) \o end,
                      At(o, Clean))
    <3> DEFINE N == InNode(o, E)
    <3>0. Triple(At(o, Clean), front, At(o, Clean))
      BY <1>8, <2>1, WritesTriple
    <3>1. Triple(At(o, Clean), begin, N)
      BY <2>1, NodeOpens
    <3>2. Triple(N, If({x}, one), N) /\ Triple(N, If({y}, two), N)
      BY <1>2, <1>6, NodeExtension DEF F
    <3>3. Triple(N, end, At(o, Clean))
      BY <2>1, NodeCloses
    <3> HIDE DEF N, begin, end, front
    <3>4. Triple(At(o, Clean), front \o begin, N)
      BY <3>0, <3>1, InSequence
    <3>5. Triple(At(o, Clean), front \o begin \o If({x}, one), N)
      BY <3>2, <3>4, InSequence
    <3>6. Triple(At(o, Clean), front \o begin \o If({x}, one) \o If({y}, two), N)
      BY <3>2, <3>5, InSequence
    <3> QED  BY <3>3, <3>6, InSequence
  <2> HIDE DEF begin, end
  <2>2. Writes("{", Clean, front \o begin \o If({x}, one) \o If({y}, two) \o end, Clean)
    BY <2>1, OwedAreLedgers DEF Writes
  <2> HIDE DEF front
  <2>3. Writes("{", Clean, front \o begin \o If({x}, one) \o If({y}, two) \o end \o Props, Clean)
    BY <1>8, <2>2, WritesBoth
  <2> QED  BY <2>3 DEF front
<1> QED
  BY Zenon, <1>9, WritesElement DEF cgltf_write_node, begin, end, one, two, x, y, E

-----------------------------------------------------------------------------
\* A material, whose extensions are all flagged before any is written.

Material(R) == Owed(SUBSET MaterialExtensions, R)

\* One extension of a material is written, and no longer owed.
LEMMA WritesOneOf ==
  ASSUME NEW R, NEW ext \in R, ext \in Listed, NEW steps,
         Writes("{", Material(R \ {ext}), steps, Material(R \ {ext}))
  PROVE  Writes("{", Material(R), IfExtension(ext, steps), Material(R \ {ext}))
<1> DEFINE F == Material(R)
           G == Material(R \ {ext})
           E == {l \in F : l.has \intersect {ext} # {}}
<1>1. F \in SUBSET Ledgers /\ E \in SUBSET Ledgers
  BY OwedAreLedgers DEF Material
<1>2. ASSUME NEW l \in E PROVE Began(l, ext) \in G
  <2>1. /\ l \in Ledgers /\ ext \in l.has /\ l.has \in SUBSET MaterialExtensions
        /\ l.flags = l.wrote \union (l.has \intersect R) /\ l.required \subseteq l.flags
    BY <1>1 DEF Material, Owed, Owing
  <2>2. PICK k : k = Began(l, ext)
    OBVIOUS
  <2>3. /\ k \in Ledgers /\ k.wrote = l.wrote \union {ext}
        /\ k.has = l.has /\ k.flags = l.flags /\ k.required = l.required
    BY <2>1, <2>2, BeganWrote
  <2>4. k.flags = k.wrote \union (k.has \intersect (R \ {ext}))
    BY <2>1, <2>3
  <2>5. k \in G
    BY <2>1, <2>3, <2>4 DEF Material, Owed, Owing
  <2> QED  BY <2>2, <2>5
<1>3. ASSUME NEW l \in F, l.has \intersect {ext} = {} PROVE l \in G
  BY <1>3 DEF Material, Owed, Owing
<1> HIDE DEF F, G
<1>4. Writes("{", G, steps, G)
  BY DEF G
<1>5. Writes("{", E, Extension(ext, steps), G)
  BY <1>1, <1>2, <1>4, WritesExtensionObject
<1>6. Writes("{", F, If({ext}, Extension(ext, steps)), G)
  BY <1>1, <1>3, <1>5, WritesIf
<1> QED
  BY Zenon, <1>6 DEF IfExtension, F, G

\* What the objects of those extensions consist of.
LEMMA WritesTextures ==
  ASSUME NEW R
  PROVE  LET F == Material(R)
         IN  /\ Writes("{", F, Props, F) /\ Writes("{", F, TextureInfo, F)
             /\ Writes("{", F, TextureInfo \o Props, F)
             /\ Writes("{", F, TextureInfo \o TextureInfo \o Props, F)
             /\ Writes("{", F, TextureInfo \o TextureInfo \o TextureInfo \o Props, F)
             /\ Writes("{", F, Props \o TextureInfo \o Props \o TextureInfo, F)
             /\ Writes("{", F, TextureInfo \o Props \o TextureInfo, F)
             /\ Writes("{", F, Props \o TextureInfo, F)
<1> DEFINE F == Material(R)
           t == TextureInfo
           p == Props
<1>1. Writes("{", F, p, F) /\ Writes("{", F, t, F)
  BY OwedAreLedgers, PlainObjects, WritesTextureInfo DEF Material
<1> HIDE DEF F, t, p
<1>2. /\ Writes("{", F, t \o p, F) /\ Writes("{", F, t \o t, F) /\ Writes("{", F, p \o t, F)
  BY <1>1, WritesBoth
<1>3. /\ Writes("{", F, t \o t \o p, F) /\ Writes("{", F, t \o t \o t, F)
      /\ Writes("{", F, p \o t \o p, F) /\ Writes("{", F, t \o p \o t, F)
  BY <1>1, <1>2, WritesBoth
<1>4. Writes("{", F, t \o t \o t \o p, F) /\ Writes("{", F, p \o t \o p \o t, F)
  BY <1>1, <1>3, WritesBoth
<1> QED
  BY <1>1, <1>2, <1>3, <1>4 DEF F, t, p

\* Behind the object of the unlit extension the comma is not due that should be.
Unlit == "KHR_materials_unlit"

AtUnlit(o, F) ==
    {s \in States :
        /\ s.ledger \in F
        /\ Quiet(s) => \/ s.text = Place(o, s.comma)
                       \/ Unlit \in s.ledger.features /\ s.text = Place(o, TRUE)}

\* The exception is weaker than the rule.
LEMMA UnlitStates ==
  ASSUME NEW o, NEW F
  PROVE  AtUnlit(o, F) \in SUBSET States /\ At(o, F) \subseteq AtUnlit(o, F)
  BY DEF AtUnlit, At

\* The object of the unlit extension.
LEMMA UnlitLine ==
  ASSUME NEW o \in Opened, Last(o) = "{", NEW R, Unlit \in R
  PROVE  Triple(At(o, Material(R)),
                If({Unlit}, Begin(Unlit, Key \o <<"{", "}">>)),
                AtUnlit(o, Material(R \ {Unlit})))
<1> DEFINE F == Material(R)
           G == Material(R \ {Unlit})
           value == <<"{", "}">>
           lexemes == Key \o value
           step == [op |-> "line", arg |-> lexemes, name |-> Unlit]
           P == At(o, F)
           Q == AtUnlit(o, G)
<1>1. step.op = "line" /\ step.arg = lexemes /\ step.name = Unlit
  OBVIOUS
<1>2. value \in JsonValues
  BY Zenon DEF JsonValues
<1> HIDE DEF value
<1>3. lexemes \in Seq(Words) /\ ~Closing(lexemes)
  <2>1. value \in Seq(Words) /\ Key \in Seq(Words) /\ Len(Key) = 2
    BY <1>2, LexemesAre
  <2>2. Key[1] = "string"
    BY DEF Key
  <2>3. Head(lexemes) = "string"
    BY <2>1, <2>2, HeadIs
  <2>4. lexemes \in Seq(Words)
    BY <2>1, JoinedLexemes
  <2> HIDE DEF lexemes
  <2> QED  BY <2>3, <2>4 DEF Closing
<1>4. ASSUME NEW s \in Having(P, {Unlit}) PROVE AfterLine(s, lexemes, Unlit) \in Q
  <2>1. /\ s \in States /\ s.ledger \in F /\ s.ledger \in Ledgers /\ s.declared \in SUBSET Listed
        /\ Unlit \in s.ledger.has /\ (Quiet(s) => s.text = Place(o, s.comma))
    BY StatesAre DEF At, Having
  <2>2. PICK x : x = Printed(s, lexemes)
    OBVIOUS
  <2>3. PICK l : l = Began(s.ledger, Unlit)
    OBVIOUS
  <2>4. PICK t : t = AfterLine(s, lexemes, Unlit)
    OBVIOUS
  <2>5. t = [comma |-> FALSE, text |-> x, ledger |-> l, declared |-> s.declared]
    <3> HIDE DEF lexemes
    <3> QED  BY <1>3, <2>1, <2>2, <2>3, <2>4, AfterLineIs
  <2>6. Quiet(s) => x = Place(o, TRUE)
    BY <1>2, <2>1, <2>2, PrintsProperty
  <2>7. x \in Texts
    <3> HIDE DEF lexemes
    <3> QED  BY <1>3, <2>1, <2>2, PrintedIsText
  <2>8. l \in G /\ l \in Ledgers /\ l.features = s.ledger.features /\ Unlit \in l.features
    <3>1. Unlit \in Listed
      BY DEF Unlit, Listed, MaterialExtensions
    <3>2. /\ l \in Ledgers /\ l.wrote = s.ledger.wrote \union {Unlit}
          /\ l.has = s.ledger.has /\ l.flags = s.ledger.flags
          /\ l.required = s.ledger.required
      BY <2>1, <2>3, <3>1, BeganWrote
    <3>3. l.features = s.ledger.features /\ s.ledger.has \subseteq s.ledger.features
      BY <2>1, <2>3, BeganIs, LedgersAre
    <3>4. /\ s.ledger.flags = s.ledger.wrote \union (s.ledger.has \intersect R)
          /\ s.ledger.has \in SUBSET MaterialExtensions
          /\ s.ledger.required \subseteq s.ledger.flags
      BY <2>1 DEF Material, Owed, Owing
    <3>5. l.flags = l.wrote \union (l.has \intersect (R \ {Unlit}))
      BY <2>1, <3>2, <3>4
    <3>6. l \in G
      BY <3>2, <3>4, <3>5 DEF Material, Owed, Owing
    <3> QED  BY <2>1, <3>2, <3>3, <3>6
  <2> HIDE DEF F, G, lexemes, P
  <2>9. t.comma = FALSE /\ t.text = x /\ t.ledger = l /\ t.declared = s.declared
    BY <2>5
  <2>10. Quiet(t) = Quiet(s)
    BY <2>8, <2>9 DEF Quiet
  <2>11. t \in [comma : BOOLEAN, text : Texts, ledger : Ledgers, declared : SUBSET Listed]
    BY <2>1, <2>5, <2>7, <2>8
  <2>12. Quiet(t) => t.text = Place(o, TRUE) /\ t.text # Malformed
    BY <2>6, <2>9, <2>10, PlacesAreTexts
  <2>13. t \in States
    BY <2>11, <2>12 DEF States
  <2>14. t \in Q
    BY <2>8, <2>9, <2>12, <2>13 DEF AtUnlit
  <2> QED  BY <2>4, <2>14
<1>5. /\ P \in SUBSET States /\ Q \in SUBSET States
      /\ Having(P, {Unlit}) \in SUBSET States
  BY AtAreStates, UnlitStates DEF Having
<1>6. Lacking(P, {Unlit}) \subseteq Q
  BY DEF Lacking, At, AtUnlit, Material, Owed, Owing
<1> HIDE DEF lexemes, step, P, Q
<1>7. Triple(Having(P, {Unlit}), <<step>>, Q)
  BY <1>1, <1>4, <1>5, LineStep
<1>8. Triple(P, If({Unlit}, <<step>>), Q)
  BY <1>5, <1>6, <1>7, TripleIf
<1> QED
  BY Zenon, <1>8 DEF Begin, step, lexemes, value, P, Q, F, G

\* The extensions that come behind it.
Late == {"KHR_materials_emissive_strength", "KHR_materials_iridescence",
         "KHR_materials_diffuse_transmission", "KHR_materials_anisotropy",
         "KHR_materials_dispersion"}

\* In a document that Quiet speaks of, an object that comes behind is not there.
LEMMA LateOne ==
  ASSUME NEW o \in Opened, Last(o) = "{", NEW R, NEW ext \in Late, ext \in R, NEW steps,
         Writes("{", Material(R \ {ext}), steps, Material(R \ {ext}))
  PROVE  Triple(AtUnlit(o, Material(R)), IfExtension(ext, steps),
                AtUnlit(o, Material(R \ {ext})))
<1> DEFINE F == Material(R)
           G == Material(R \ {ext})
           E == {l \in F : l.has \intersect {ext} # {}}
           P == AtUnlit(o, F)
           Q == AtUnlit(o, G)
<1>0. ext \in Listed
  BY DEF Late, Listed, MaterialExtensions
<1>1. F \in SUBSET Ledgers /\ E \in SUBSET Ledgers
  BY OwedAreLedgers DEF Material
<1>2. ASSUME NEW l \in E PROVE Began(l, ext) \in G
  <2>1. /\ l \in Ledgers /\ ext \in l.has /\ l.has \in SUBSET MaterialExtensions
        /\ l.flags = l.wrote \union (l.has \intersect R) /\ l.required \subseteq l.flags
    BY <1>1 DEF Material, Owed, Owing
  <2>2. PICK k : k = Began(l, ext)
    OBVIOUS
  <2>3. /\ k \in Ledgers /\ k.wrote = l.wrote \union {ext}
        /\ k.has = l.has /\ k.flags = l.flags /\ k.required = l.required
    BY <1>0, <2>1, <2>2, BeganWrote
  <2>4. k.flags = k.wrote \union (k.has \intersect (R \ {ext}))
    BY <2>1, <2>3
  <2>5. k \in G
    BY <2>1, <2>3, <2>4 DEF Material, Owed, Owing
  <2> QED  BY <2>2, <2>5
<1>3. Lacking(P, {ext}) \subseteq Q
  BY DEF Lacking, AtUnlit, Material, Owed, Owing
<1>4. Having(P, {ext}) \subseteq At(o, E)
  <2>1. SUFFICES ASSUME NEW s \in Having(P, {ext}) PROVE s \in At(o, E)
    OBVIOUS
  <2>2. /\ s \in States /\ s.ledger \in F /\ ext \in s.ledger.has /\ s.ledger \in Ledgers
        /\ Quiet(s) => \/ s.text = Place(o, s.comma)
                       \/ Unlit \in s.ledger.features /\ s.text = Place(o, TRUE)
    BY StatesAre DEF Having, AtUnlit
  <2>3. ext \in s.ledger.features
    BY <2>2, LedgersAre
  <2>4. ~(Quiet(s) /\ Unlit \in s.ledger.features)
    BY <2>3 DEF Quiet, QuietOf, Late, Unlit
  <2> HIDE DEF F
  <2> QED  BY <2>2, <2>4 DEF At
<1> HIDE DEF F, G, E, P, Q
<1>5. Writes("{", E, Extension(ext, steps), G)
  BY <1>1, <1>2, WritesExtensionObject DEF G
<1>6. Triple(At(o, E), Extension(ext, steps), At(o, G))
  BY <1>5, WritesTriple
<1>7. Triple(Having(P, {ext}), Extension(ext, steps), Q)
  BY <1>4, <1>6, TripleWeaker, UnlitStates DEF Q
<1>8. Triple(P, If({ext}, Extension(ext, steps)), Q)
  BY <1>3, <1>7, TripleIf, UnlitStates DEF P, Q
<1> QED
  BY Zenon, <1>8 DEF IfExtension, F, G, P, Q

\* The bracket that follows needs no comma, and one is due behind it again.
LEMMA UnlitCloses ==
  ASSUME NEW o \in Opened, NEW F \in SUBSET Ledgers
  PROVE  Triple(AtUnlit(Append(o, "{"), F), Line(<<"}">>), At(o, F))
<1> DEFINE b == "{"
           c == Closer(b)
<1>0. c \in Lexemes /\ c \in {"}", "]"} /\ c \notin {"{", "["} /\ b \in Brackets /\ c = "}"
  BY DEF Brackets, Lexemes, Closer
<1> DEFINE lexemes == <<c>>
           step == [op |-> "line", arg |-> lexemes, name |-> "none"]
           P == AtUnlit(Append(o, b), F)
           Q == At(o, F)
<1>1. step.op = "line" /\ step.arg = lexemes /\ step.name = "none"
  OBVIOUS
<1> HIDE DEF b, c
<1>2. lexemes \in Seq(Words) /\ Closing(lexemes) /\ ~Opening(lexemes) /\ Len(lexemes) \in Nat
  <2>1. lexemes \in Seq(Words) /\ Len(lexemes) = 1
    BY <1>0, LexemesAre
  <2>2. Head(lexemes) = c /\ lexemes[1] = c
    OBVIOUS
  <2>3. Last(lexemes) = c
    BY <2>1, <2>2 DEF Last
  <2> HIDE DEF lexemes
  <2>4. 1 \in Nat
    OBVIOUS
  <2> QED  BY Zenon, <1>0, <2>1, <2>2, <2>3, <2>4 DEF Closing, Opening
<1>4. ASSUME NEW s \in P PROVE AfterLine(s, lexemes, "none") \in Q
  <2>1. s \in States /\ s.ledger \in F /\ s.ledger \in Ledgers /\ s.comma \in BOOLEAN
        /\ s.text \in Texts
    BY StatesAre DEF AtUnlit
  <2>2. PICK x : x = ReadAll(s.text, lexemes)
    OBVIOUS
  <2>3. AfterLine(s, lexemes, "none") =
           [comma |-> TRUE, text |-> x, ledger |-> s.ledger, declared |-> s.declared]
    <3> HIDE DEF lexemes
    <3> QED  BY <1>2, <2>1, <2>2, AfterLineIs, BeganIs
  <2>4. Quiet(s) => x = Place(o, TRUE)
    <3>1. \A comma \in BOOLEAN : ReadAll(Place(Append(o, b), comma), lexemes) = Place(o, TRUE)
      BY <1>0, ClosesOne DEF c
    <3>2. Quiet(s) => \E comma \in BOOLEAN : s.text = Place(Append(o, b), comma)
      BY <2>1 DEF AtUnlit
    <3> HIDE DEF lexemes
    <3> QED  BY <2>2, <3>1, <3>2
  <2>5. x \in Texts
    <3> HIDE DEF lexemes
    <3> QED  BY <1>2, <2>1, <2>2, AllTextsStay
  <2> HIDE DEF lexemes
  <2> QED  BY <2>1, <2>3, <2>4, <2>5, Arrives
<1>5. P \in SUBSET States /\ Q \in SUBSET States
  BY AtAreStates, UnlitStates
<1> HIDE DEF lexemes, step, P, Q
<1>6. Triple(P, <<step>>, Q)
  BY <1>1, <1>4, <1>5, LineStep
<1> QED
  BY Zenon, <1>0, <1>6 DEF Begin, Line, step, lexemes, P, Q, b

\* What comes before the unlit extension, in the order in which it comes.
R1 == MaterialExtensions \ {"KHR_materials_clearcoat"}
R2 == R1 \ {"KHR_materials_ior"}
R3 == R2 \ {"KHR_materials_specular"}
R4 == R3 \ {"KHR_materials_transmission"}
R5 == R4 \ {"KHR_materials_volume"}
R6 == R5 \ {"KHR_materials_sheen"}
R7 == R6 \ {"KHR_materials_pbrSpecularGlossiness"}
R8 == R7 \ {Unlit}
R9 == R8 \ {"KHR_materials_emissive_strength"}
R10 == R9 \ {"KHR_materials_iridescence"}
R11 == R10 \ {"KHR_materials_diffuse_transmission"}
R12 == R11 \ {"KHR_materials_anisotropy"}
R13 == R12 \ {"KHR_materials_dispersion"}

\* Each extension is owed until its turn comes.
LEMMA Remaining ==
  /\ "KHR_materials_clearcoat" \in MaterialExtensions /\ "KHR_materials_ior" \in R1
  /\ "KHR_materials_specular" \in R2 /\ "KHR_materials_transmission" \in R3
  /\ "KHR_materials_volume" \in R4 /\ "KHR_materials_sheen" \in R5
  /\ "KHR_materials_pbrSpecularGlossiness" \in R6 /\ Unlit \in R7
  /\ "KHR_materials_emissive_strength" \in R8 /\ "KHR_materials_iridescence" \in R9
  /\ "KHR_materials_diffuse_transmission" \in R10 /\ "KHR_materials_anisotropy" \in R11
  /\ "KHR_materials_dispersion" \in R12 /\ R13 = {}
  BY DEF MaterialExtensions, WithTextures, R1, R2, R3, R4, R5, R6, R7, R8, R9, R10, R11, R12,
         R13, Unlit

Early ==
    IfExtension("KHR_materials_clearcoat", TextureInfo \o TextureInfo \o TextureInfo \o Props)
    \o IfExtension("KHR_materials_ior", Props)
    \o IfExtension("KHR_materials_specular", TextureInfo \o TextureInfo \o Props)
    \o IfExtension("KHR_materials_transmission", TextureInfo \o Props)
    \o IfExtension("KHR_materials_volume", TextureInfo \o Props)
    \o IfExtension("KHR_materials_sheen", TextureInfo \o TextureInfo \o Props)
    \o IfExtension("KHR_materials_pbrSpecularGlossiness", TextureInfo \o TextureInfo \o Props)

\* The extensions before the unlit one.
LEMMA WritesEarly == Writes("{", Material(MaterialExtensions), Early, Material(R7))
<1> DEFINE e1 == IfExtension("KHR_materials_clearcoat",
                             TextureInfo \o TextureInfo \o TextureInfo \o Props)
           e2 == IfExtension("KHR_materials_ior", Props)
           e3 == IfExtension("KHR_materials_specular", TextureInfo \o TextureInfo \o Props)
           e4 == IfExtension("KHR_materials_transmission", TextureInfo \o Props)
           e5 == IfExtension("KHR_materials_volume", TextureInfo \o Props)
           e6 == IfExtension("KHR_materials_sheen", TextureInfo \o TextureInfo \o Props)
           e7 == IfExtension("KHR_materials_pbrSpecularGlossiness",
                             TextureInfo \o TextureInfo \o Props)
<1>0. /\ "KHR_materials_clearcoat" \in Listed /\ "KHR_materials_ior" \in Listed
      /\ "KHR_materials_specular" \in Listed /\ "KHR_materials_transmission" \in Listed
      /\ "KHR_materials_volume" \in Listed /\ "KHR_materials_sheen" \in Listed
      /\ "KHR_materials_pbrSpecularGlossiness" \in Listed
  BY DEF Listed, MaterialExtensions, WithTextures
<1>1. Writes("{", Material(MaterialExtensions), e1, Material(R1))
  BY <1>0, Remaining, WritesTextures, WritesOneOf DEF R1
<1>2. Writes("{", Material(R1), e2, Material(R2))
  BY <1>0, Remaining, WritesTextures, WritesOneOf DEF R2
<1>3. Writes("{", Material(R2), e3, Material(R3))
  BY <1>0, Remaining, WritesTextures, WritesOneOf DEF R3
<1>4. Writes("{", Material(R3), e4, Material(R4))
  BY <1>0, Remaining, WritesTextures, WritesOneOf DEF R4
<1>5. Writes("{", Material(R4), e5, Material(R5))
  BY <1>0, Remaining, WritesTextures, WritesOneOf DEF R5
<1>6. Writes("{", Material(R5), e6, Material(R6))
  BY <1>0, Remaining, WritesTextures, WritesOneOf DEF R6
<1>7. Writes("{", Material(R6), e7, Material(R7))
  BY <1>0, Remaining, WritesTextures, WritesOneOf DEF R7
<1> HIDE DEF e1, e2, e3, e4, e5, e6, e7
<1>8. Writes("{", Material(MaterialExtensions), e1 \o e2 \o e3 \o e4 \o e5 \o e6 \o e7,
             Material(R7))
  <2>1. Writes("{", Material(MaterialExtensions), e1 \o e2 \o e3, Material(R3))
    BY <1>1, <1>2, <1>3, WritesBoth
  <2>2. Writes("{", Material(MaterialExtensions), e1 \o e2 \o e3 \o e4 \o e5, Material(R5))
    BY <1>4, <1>5, <2>1, WritesBoth
  <2> QED  BY <1>6, <1>7, <2>2, WritesBoth
<1> QED
  BY Zenon, <1>8 DEF Early, e1, e2, e3, e4, e5, e6, e7

ExtensionsOfMaterial ==
    Early
    \o If({Unlit}, Begin(Unlit, Key \o <<"{", "}">>))
    \o IfExtension("KHR_materials_emissive_strength", Props)
    \o IfExtension("KHR_materials_iridescence", Props \o TextureInfo \o Props \o TextureInfo)
    \o IfExtension("KHR_materials_diffuse_transmission", TextureInfo \o Props \o TextureInfo)
    \o IfExtension("KHR_materials_anisotropy", Props \o TextureInfo)
    \o IfExtension("KHR_materials_dispersion", Props)

\* The extensions of a material.
LEMMA WritesExtensions ==
  Writes("{", Material(MaterialExtensions), Object(ExtensionsOfMaterial), Material({}))
<1> DEFINE F == Material(MaterialExtensions)
           u  == If({Unlit}, Begin(Unlit, Key \o <<"{", "}">>))
           e1 == IfExtension("KHR_materials_emissive_strength", Props)
           e2 == IfExtension("KHR_materials_iridescence",
                             Props \o TextureInfo \o Props \o TextureInfo)
           e3 == IfExtension("KHR_materials_diffuse_transmission",
                             TextureInfo \o Props \o TextureInfo)
           e4 == IfExtension("KHR_materials_anisotropy", Props \o TextureInfo)
           e5 == IfExtension("KHR_materials_dispersion", Props)
           first == Begin("none", Key \o <<"{">>)
           last == Line(<<"}">>)
<1>0. /\ "KHR_materials_emissive_strength" \in Late /\ "KHR_materials_iridescence" \in Late
      /\ "KHR_materials_diffuse_transmission" \in Late /\ "KHR_materials_anisotropy" \in Late
      /\ "KHR_materials_dispersion" \in Late
  BY DEF Late
<1>1. ASSUME NEW o \in Opened, Last(o) = "{"
      PROVE  Triple(At(o, F), first \o ExtensionsOfMaterial \o last, At(o, Material({})))
  <2> DEFINE b == "{"
             p == Append(o, b)
  <2>1. b \in Brackets /\ F \in SUBSET Ledgers /\ Material(R13) \in SUBSET Ledgers
    BY OwedAreLedgers DEF Brackets, Material
  <2>2. p \in Opened /\ Last(p) = "{"
    BY <2>1, OpenedIs DEF Opened
  <2>3. Triple(At(o, F), first, At(p, F))
    BY <1>1, <2>1, MemberLine, BeganIs
  <2>4. Triple(AtUnlit(p, Material(R13)), last, At(o, Material(R13)))
    BY <2>1, UnlitCloses
  <2> HIDE DEF p
  <2>5. Triple(At(p, F), Early, At(p, Material(R7)))
    BY <2>2, WritesTriple, WritesEarly
  <2>6. Triple(At(p, Material(R7)), u, AtUnlit(p, Material(R8)))
    BY <2>2, UnlitLine, Remaining DEF R8
  <2>7. Triple(AtUnlit(p, Material(R8)), e1, AtUnlit(p, Material(R9)))
    BY <1>0, <2>2, LateOne, Remaining, WritesTextures DEF R9
  <2>8. Triple(AtUnlit(p, Material(R9)), e2, AtUnlit(p, Material(R10)))
    BY <1>0, <2>2, LateOne, Remaining, WritesTextures DEF R10
  <2>9. Triple(AtUnlit(p, Material(R10)), e3, AtUnlit(p, Material(R11)))
    BY <1>0, <2>2, LateOne, Remaining, WritesTextures DEF R11
  <2>10. Triple(AtUnlit(p, Material(R11)), e4, AtUnlit(p, Material(R12)))
    BY <1>0, <2>2, LateOne, Remaining, WritesTextures DEF R12
  <2>11. Triple(AtUnlit(p, Material(R12)), e5, AtUnlit(p, Material(R13)))
    BY <1>0, <2>2, LateOne, Remaining, WritesTextures DEF R13
  <2> HIDE DEF F, u, e1, e2, e3, e4, e5, first, last, b
  <2>12. Triple(At(p, F), Early \o u, AtUnlit(p, Material(R8)))
    BY <2>5, <2>6, InSequence
  <2>13. Triple(At(p, F), Early \o u \o e1, AtUnlit(p, Material(R9)))
    BY <2>7, <2>12, InSequence
  <2>14. Triple(At(p, F), Early \o u \o e1 \o e2, AtUnlit(p, Material(R10)))
    BY <2>8, <2>13, InSequence
  <2>15. Triple(At(p, F), Early \o u \o e1 \o e2 \o e3, AtUnlit(p, Material(R11)))
    BY <2>9, <2>14, InSequence
  <2>16. Triple(At(p, F), Early \o u \o e1 \o e2 \o e3 \o e4, AtUnlit(p, Material(R12)))
    BY <2>10, <2>15, InSequence
  <2>17. Triple(At(p, F), Early \o u \o e1 \o e2 \o e3 \o e4 \o e5, AtUnlit(p, Material(R13)))
    BY <2>11, <2>16, InSequence
  <2>18. Triple(At(p, F), ExtensionsOfMaterial, AtUnlit(p, Material(R13)))
    BY Zenon, <2>17 DEF ExtensionsOfMaterial, u, e1, e2, e3, e4, e5
  <2>19. Triple(At(o, F), first \o ExtensionsOfMaterial, AtUnlit(p, Material(R13)))
    BY <2>3, <2>18, InSequence
  <2>20. Triple(At(o, F), first \o ExtensionsOfMaterial \o last, At(o, Material(R13)))
    BY <2>4, <2>19, InSequence DEF p, b
  <2> QED  BY <2>20, Remaining
<1>2. F \in SUBSET Ledgers /\ Material({}) \in SUBSET Ledgers
  BY OwedAreLedgers DEF Material
<1> HIDE DEF F, first, last
<1>3. Writes("{", F, first \o ExtensionsOfMaterial \o last, Material({}))
  BY <1>1, <1>2 DEF Writes
<1> QED
  BY Zenon, <1>3 DEF Object, Line, first, last, F

\* cgltf_write_material.
LEMMA WritesMaterial == Writes("[", Clean, cgltf_write_material, Clean)
<1> DEFINE C == Clean
           N == Material({})
           A == Material(MaterialExtensions)
           t == TextureInfo
           x == Object(ExtensionsOfMaterial)
           flag == Do("flag_those", 0)
           metallic == Object(t \o t \o Props)
           all == Choose(MaterialExtensions) \o Props \o flag \o Maybe(metallic)
                  \o If(MaterialExtensions, x) \o t \o t \o t \o Props
<1>1. /\ MaterialExtensions \in SUBSET Listed
      /\ N \in SUBSET Ledgers /\ A \in SUBSET Ledgers /\ C \in SUBSET Ledgers
      /\ N \subseteq C
  BY OwedAreLedgers, OwedIsClean DEF Material, Listed
<1>2. Writes("{", C, Choose(MaterialExtensions), N)
  BY <1>1, WritesChoice DEF Choose, Material
<1>3. Writes("{", N, Props, N) /\ Writes("{", N, t, N)
  BY WritesTextures
<1>4. ASSUME NEW l \in N PROVE [l EXCEPT !.flags = @ \union l.has] \in A
  <2>1. /\ l \in Ledgers /\ l.has \in SUBSET MaterialExtensions /\ l.flags = l.wrote
        /\ l.required \subseteq l.flags /\ l.has \in SUBSET Listed
    BY <1>1, LedgersAre DEF Material, Owed, Owing
  <2>2. PICK k : k = [l EXCEPT !.flags = @ \union l.has]
    OBVIOUS
  <2>3. /\ k \in Ledgers /\ k.flags = l.flags \union l.has
        /\ k.has = l.has /\ k.wrote = l.wrote /\ k.required = l.required
    BY Zenon, <2>1, <2>2, FlagNotes
  <2>4. k \in A
    BY <2>1, <2>3 DEF Material, Owed, Owing
  <2> QED  BY Zenon, <2>2, <2>4
<1>5. Writes("{", A, metallic, A)
  BY WritesTextures, WritesObject
<1>6. Writes("{", A, x, N)
  BY WritesExtensions
<1>7. \A l \in A : l.has \intersect MaterialExtensions = {} => l \in N
  BY DEF Material, Owed, Owing
<1> HIDE DEF C, N, A, t, x, metallic
<1>8. Writes("{", N, flag, A)
  BY <1>1, <1>4, WritesFlagThose
<1> HIDE DEF flag
<1>9. Writes("{", A, Maybe(metallic), A)
  BY <1>5, WritesMaybe
<1>10. Writes("{", A, If(MaterialExtensions, x), N)
  <2> DEFINE E == {l \in A : l.has \intersect MaterialExtensions # {}}
  <2>1. Writes("{", E, x, N)
    BY <1>1, <1>6, WritesWeaker
  <2> QED  BY <1>1, <1>7, <2>1, WritesIf
<1>11. Writes("{", C, Choose(MaterialExtensions) \o Props \o flag \o Maybe(metallic), A)
  BY <1>2, <1>3, <1>8, <1>9, WritesBoth
<1>12. Writes("{", C, Choose(MaterialExtensions) \o Props \o flag \o Maybe(metallic)
                      \o If(MaterialExtensions, x), N)
  BY <1>10, <1>11, WritesBoth
<1>13. Writes("{", C, all, N)
  BY <1>3, <1>12, WritesBoth
<1>14. Writes("{", C, all, C)
  <2>1. C \subseteq C
    OBVIOUS
  <2> HIDE DEF all
  <2> QED  BY <1>1, <1>13, <2>1, WritesWeaker
<1>15. Writes("[", C, Element(all), C)
  BY <1>14, WritesElement
<1> QED
  BY Zenon, <1>15
     DEF cgltf_write_material, all, x, metallic, flag, t, C, ExtensionsOfMaterial, Early, Unlit

-----------------------------------------------------------------------------
\* extensionsUsed and extensionsRequired.

\* Five more are still finitely many.
LEMMA FiveMore ==
  ASSUME NEW S, IsFiniteSet(S), NEW a, NEW b, NEW c, NEW d, NEW e
  PROVE  IsFiniteSet(S \union {a, b, c, d, e})
<1>1. IsFiniteSet(S \union {a})
  BY FS_AddElement
<1>2. IsFiniteSet((S \union {a}) \union {b})
  BY <1>1, FS_AddElement
<1>3. IsFiniteSet(((S \union {a}) \union {b}) \union {c})
  BY <1>2, FS_AddElement
<1>4. IsFiniteSet((((S \union {a}) \union {b}) \union {c}) \union {d})
  BY <1>3, FS_AddElement
<1>5. IsFiniteSet(((((S \union {a}) \union {b}) \union {c}) \union {d}) \union {e})
  BY <1>4, FS_AddElement
<1>6. ((((S \union {a}) \union {b}) \union {c}) \union {d}) \union {e} = S \union {a, b, c, d, e}
  OBVIOUS
<1> QED
  BY Zenon, <1>5, <1>6

\* cgltf_write_extensions knows finitely many flags.
LEMMA ListedIsFinite == IsFiniteSet(Listed)
<1> DEFINE A == {"KHR_materials_clearcoat", "KHR_materials_specular",
                 "KHR_materials_transmission", "KHR_materials_volume", "KHR_materials_sheen"}
           B == {"KHR_materials_pbrSpecularGlossiness", "KHR_materials_ior",
                 "KHR_materials_unlit", "KHR_materials_emissive_strength",
                 "KHR_materials_iridescence"}
           C == {"KHR_materials_diffuse_transmission", "KHR_materials_anisotropy",
                 "KHR_materials_dispersion", "KHR_texture_transform", "KHR_lights_punctual"}
           D == {"KHR_draco_mesh_compression", "KHR_materials_variants", "KHR_texture_basisu",
                 "EXT_texture_webp", "EXT_mesh_gpu_instancing"}
<1>1. IsFiniteSet({} \union A)
  BY FS_EmptySet, FiveMore
<1>2. IsFiniteSet(({} \union A) \union B)
  BY <1>1, FiveMore
<1>3. IsFiniteSet((({} \union A) \union B) \union C)
  BY <1>2, FiveMore
<1>4. IsFiniteSet(((({} \union A) \union B) \union C) \union D)
  BY <1>3, FiveMore
<1>5. ((({} \union A) \union B) \union C) \union D = Listed
  BY Zenon DEF Listed, MaterialExtensions, WithTextures
<1> QED
  BY Zenon, <1>4, <1>5

\* Every flag that is set has a name in the list.
LEMMA ListedAreCounted ==
  ASSUME NEW exts \in SUBSET Listed, exts # {}
  PROVE  exts \intersect Listed = exts /\ Cardinality(exts) \in Nat \ {0}
<1>1. IsFiniteSet(exts)
  BY ListedIsFinite, FS_Subset
<1>2. Cardinality(exts) \in Nat
  BY <1>1, FS_CardinalityType
<1>3. Cardinality(exts) # 0
  BY <1>1, FS_EmptySet
<1> QED
  BY <1>2, <1>3

\* Names and the commas between them.
LEMMA NamesAre ==
  ASSUME NEW n \in Nat \ {0}
  PROVE  Names(n) \in Seq(Words) /\ Len(Names(n)) = 2 * n - 1
<1> DEFINE s == Names(n)
           m == 2 * n - 1
<1>1. m \in Nat /\ m >= 1
  OBVIOUS
<1>2. /\ s = [k \in 1 .. m |-> IF k % 2 = 1 THEN "string" ELSE ","]
      /\ "string" \in Words /\ "," \in Words
  BY DEF Names, Words, Lexemes
<1> HIDE DEF m, s
<1>3. s \in [1 .. m -> Words]
  BY <1>2
<1>4. s \in Seq(Words) /\ Len(s) = m
  BY <1>1, <1>3, LenProperties, IsASeq
<1> QED
  BY Zenon, <1>4 DEF m, s

\* They are the elements of an array.
LEMMA NamesAreRead ==
  ASSUME NEW p, p # << >>, Last(p) = "[", NEW n \in Nat \ {0}
  PROVE  ReadAll(Text(p, "element"), Names(n)) = Text(p, "separator")
<1> DEFINE s == Names(n)
           t == Text(p, "element")
           m == 2 * n - 1
<1>1. m \in Nat /\ m >= 1
  OBVIOUS
<1>2. s = [k \in 1 .. m |-> IF k % 2 = 1 THEN "string" ELSE ","]
  BY DEF Names
<1>3. /\ s \in Seq(Words) /\ Len(s) = m
      /\ \A k \in 1 .. m : /\ k % 2 = 1 => s[k] = "string"
                           /\ k % 2 # 1 => s[k] = ","
  <2>1. s \in Seq(Words) /\ Len(s) = m
    BY NamesAre
  <2> HIDE DEF s, m
  <2> QED  BY <1>2, <2>1
<1>4. PICK r : /\ r[0] = t
               /\ \A k \in 1 .. Len(s) : r[k] = Read(r[k - 1], s[k])
               /\ ReadAll(t, s) = r[Len(s)]
  <2> HIDE DEF s, t, m
  <2>1. Len(s) \in Nat
    BY <1>1, <1>3
  <2> QED  BY <2>1, Readings
<1>5. /\ Read(Text(p, "element"), "string") = Text(p, "separator")
      /\ Read(Text(p, "value"), "string") = Text(p, "separator")
      /\ Read(Text(p, "separator"), ",") = Text(p, "value")
  <2>1. Read(Text(p, "separator"), ",") = Text(p, "value")
    BY ReadsComma
  <2> QED  BY <2>1, ReadsScalar
<1> DEFINE T == {i \in Nat : 2 * i + 1 <= m => r[2 * i + 1] = Text(p, "separator")}
<1> HIDE DEF s, m
<1>6. 0 \in T
  <2>1. 2 * 0 + 1 = 1 /\ 1 \in 1 .. m /\ 1 % 2 = 1 /\ 1 - 1 = 0
    BY <1>1
  <2>2. r[1] = Read(r[0], "string")
    BY <1>3, <1>4, <2>1
  <2>3. r[1] = Text(p, "separator")
    BY Zenon, <1>4, <1>5, <2>2
  <2> QED  BY <2>1, <2>3
<1>7. ASSUME NEW i \in Nat, i \in T PROVE i + 1 \in T
  <2>1. SUFFICES ASSUME 2 * (i + 1) + 1 <= m
                 PROVE  r[2 * (i + 1) + 1] = Text(p, "separator")
    OBVIOUS
  <2>2. PICK k \in Nat : k = 2 * i + 1
    OBVIOUS
  <2>3. PICK j \in Nat : j = k + 1
    OBVIOUS
  <2>4. PICK h \in Nat : h = k + 2
    OBVIOUS
  <2>5. /\ j \in 1 .. m /\ h \in 1 .. m /\ j - 1 = k /\ h - 1 = j /\ k <= m
        /\ j % 2 # 1 /\ h % 2 = 1 /\ h = 2 * (i + 1) + 1
    BY <1>1, <2>1, <2>2, <2>3, <2>4
  <2>6. r[k] = Text(p, "separator")
    BY <1>7, <2>2, <2>5
  <2>7. r[j] = Read(r[k], ",")
    BY <1>3, <1>4, <2>5
  <2>8. r[h] = Read(r[j], "string")
    BY <1>3, <1>4, <2>5
  <2>9. r[h] = Text(p, "separator")
    BY Zenon, <1>5, <2>6, <2>7, <2>8
  <2> QED  BY Zenon, <2>5, <2>9
<1> HIDE DEF T
<1>8. Nat \subseteq T
  BY <1>6, <1>7, CountsThroughNat
<1>9. r[m] = Text(p, "separator")
  <2>1. n - 1 \in Nat /\ 2 * (n - 1) + 1 = m
    BY DEF m
  <2>2. \A i \in Nat : 2 * i + 1 <= m => r[2 * i + 1] = Text(p, "separator")
    BY <1>8 DEF T
  <2>3. m <= m
    BY <1>1
  <2> QED  BY Zenon, <2>1, <2>2, <2>3
<1> QED
  BY Zenon, <1>3, <1>4, <1>9 DEF s, t

\* The list is lexemes.
LEMMA ListLexemes ==
  ASSUME NEW n \in Nat \ {0}
  PROVE  Key \o <<"[">> \o Names(n) \o <<"]">> \in Seq(Words)
<1> DEFINE b == "["
           c == "]"
           names == Names(n)
<1>1. b \in Lexemes /\ c \in Lexemes
  BY DEF Lexemes
<1> HIDE DEF b, c
<1>2. <<b>> \in Seq(Words) /\ <<c>> \in Seq(Words) /\ Key \in Seq(Words)
  BY <1>1, LexemesAre
<1>3. names \in Seq(Words)
  BY NamesAre
<1> HIDE DEF names
<1>4. Key \o <<b>> \o names \o <<c>> \in Seq(Words)
  BY <1>2, <1>3, JoinedLexemes
<1> QED
  BY <1>4 DEF b, c, names

\* The list is a member of the document.
LEMMA PrintsList ==
  ASSUME NEW s \in States, NEW o \in Opened, NEW n \in Nat \ {0},
         Last(o) = "{", s.text = Place(o, s.comma)
  PROVE  Printed(s, Key \o <<"[">> \o Names(n) \o <<"]">>) = Place(o, TRUE)
<1> DEFINE b == "["
           c == "]"
           p == Append(o, b)
           open == Key \o <<b>>
           names == Names(n)
           close == <<c>>
           here == Behind(o, s.comma)
<1>1. b \in Brackets /\ c = Closer(b) /\ b \in Lexemes /\ c \in Lexemes
  BY DEF Brackets, Lexemes, Closer
<1>2. p # << >> /\ Last(p) = "["
  BY <1>1, OpenedIs DEF Opened
<1> HIDE DEF b, c
<1>3. open \in Seq(Words) /\ close \in Seq(Words)
  <2>1. <<b>> \in Seq(Words) /\ close \in Seq(Words)
    BY <1>1, LexemesAre
  <2> QED  BY <2>1, LexemesAre, JoinedLexemes
<1>4. Printed(s, open) = Place(p, FALSE)
  BY <1>1, OpensMember
<1>5. Place(p, FALSE) = Text(p, "element") /\ Place(p, TRUE) = Text(p, "separator")
  BY <1>2 DEF Place
<1>6. ReadAll(Place(p, TRUE), close) = Place(o, TRUE)
  BY <1>1, ClosesOne
<1> HIDE DEF p, open, close
<1>7. names \in Seq(Words) /\ ReadAll(Text(p, "element"), names) = Text(p, "separator")
  BY <1>2, NamesAre, NamesAreRead
<1> HIDE DEF names
<1>8. open \o names \in Seq(Words) /\ open \o names \o close \in Seq(Words)
  BY <1>3, <1>7, JoinedLexemes
<1>9. /\ Printed(s, open) = ReadAll(here, open)
      /\ Printed(s, open \o names \o close) = ReadAll(here, open \o names \o close)
  BY <1>3, <1>8, PrintedIs
<1>10. ReadAll(here, open \o names \o close)
         = ReadAll(ReadAll(ReadAll(here, open), names), close)
  <2>1. ReadAll(here, open \o names \o close) = ReadAll(ReadAll(here, open \o names), close)
    BY <1>3, <1>8, JoinedLexemes
  <2>2. ReadAll(here, open \o names) = ReadAll(ReadAll(here, open), names)
    BY <1>3, <1>7, JoinedLexemes
  <2> QED  BY Zenon, <2>1, <2>2
<1>11. Printed(s, open \o names \o close) = Place(o, TRUE)
  BY Zenon, <1>4, <1>5, <1>6, <1>7, <1>9, <1>10
<1> QED
  BY Zenon, <1>11 DEF open, names, close, b, c

-----------------------------------------------------------------------------
\* The end of the program.

Named(o) == {s \in At(o, Clean) : s.declared = s.ledger.wrote}

Done ==
    {s \in States : /\ Quiet(s) => s.text = EndOfText
                    /\ s.declared = s.ledger.wrote
                    /\ s.ledger.required \subseteq s.declared}

\* What is known of a state where nothing is owed.
LEMMA CleanAre ==
  ASSUME NEW o, NEW s \in At(o, Clean)
  PROVE  /\ s \in States /\ s.ledger \in Clean /\ s.ledger \in Ledgers
         /\ s.ledger.flags = s.ledger.wrote /\ s.ledger.required \subseteq s.ledger.flags
         /\ s.ledger.flags \in SUBSET Listed /\ s.ledger.required \in SUBSET Listed
         /\ (Quiet(s) => s.text = Place(o, s.comma))
<1>1. s \in States /\ s.ledger \in Clean /\ (Quiet(s) => s.text = Place(o, s.comma))
  BY DEF At
<1>2. s.ledger \in Ledgers /\ s.ledger.flags = s.ledger.wrote
      /\ s.ledger.required \subseteq s.ledger.flags
  BY <1>1 DEF Clean, Owed, Owing
<1> QED
  BY <1>1, <1>2, LedgersAre

\* A list changes nothing but the text.
LEMMA ListIsPrinted ==
  ASSUME NEW o \in Opened, Last(o) = "{", NEW s \in At(o, Clean), NEW exts \in SUBSET Listed
  PROVE  AfterList(s, exts) \in At(o, Clean) /\ AfterList(s, exts).ledger = s.ledger
         /\ AfterList(s, exts).declared = s.declared
<1>1. CASE exts = {}
  BY <1>1 DEF AfterList
<1>2. CASE exts # {}
  <2> DEFINE n == Cardinality(exts)
             lexemes == Key \o <<"[">> \o Names(n) \o <<"]">>
  <2>1. n \in Nat \ {0} /\ exts \intersect Listed = exts
    BY <1>2, ListedAreCounted
  <2>2. s \in States /\ s.ledger \in Clean /\ (Quiet(s) => s.text = Place(o, s.comma))
    BY CleanAre
  <2>3. lexemes \in Seq(Words)
    <3> HIDE DEF n
    <3> QED  BY <2>1, ListLexemes
  <2>4. PICK x : x = Printed(s, lexemes)
    OBVIOUS
  <2>5. Quiet(s) => x = Place(o, TRUE)
    <3> HIDE DEF n
    <3> QED  BY Zenon, <2>1, <2>2, <2>4, PrintsList
  <2>6. AfterList(s, exts) =
           [comma |-> TRUE, text |-> x, ledger |-> s.ledger, declared |-> s.declared]
    BY Zenon, <1>2, <2>1, <2>4 DEF AfterList, With
  <2> HIDE DEF lexemes
  <2>7. x \in Texts
    BY <2>2, <2>3, <2>4, PrintedIsText
  <2>8. AfterList(s, exts) \in At(o, Clean)
    BY <2>2, <2>5, <2>6, <2>7, Arrives, OwedAreLedgers
  <2>9. PICK t : t = AfterList(s, exts)
    OBVIOUS
  <2>10. t.ledger = s.ledger /\ t.declared = s.declared
    <3>1. t = [comma |-> TRUE, text |-> x, ledger |-> s.ledger, declared |-> s.declared]
      BY Zenon, <2>6, <2>9
    <3> QED  BY <3>1
  <2> QED  BY Zenon, <2>8, <2>9, <2>10
<1> QED
  BY <1>1, <1>2

\* Behind extensionsUsed what is declared is what was written; and it stays so.
LEMMA WritesUsed ==
  ASSUME NEW o \in Opened, Last(o) = "{"
  PROVE  /\ Triple(At(o, Clean), Do("extensionsUsed", 0), Named(o))
         /\ Triple(Named(o), Do("extensionsRequired", 0), Named(o))
         /\ Triple(Named(o), Props, Named(o))
<1> DEFINE P == At(o, Clean)
           Q == Named(o)
           used == [op |-> "extensionsUsed", arg |-> 0]
           required == [op |-> "extensionsRequired", arg |-> 0]
           props == [op |-> "props", arg |-> 0]
<1>1. P \in SUBSET States /\ Q \in SUBSET States /\ Q \subseteq P
  BY AtAreStates DEF Named
<1>2. ASSUME NEW s \in P PROVE AfterUsed(s) \in Q
  <2>1. s.ledger.flags \in SUBSET Listed /\ s.ledger.flags = s.ledger.wrote
    BY CleanAre
  <2>2. PICK t : t = AfterList(s, s.ledger.flags)
    OBVIOUS
  <2>3. t \in P /\ t.ledger = s.ledger /\ t \in States /\ (Quiet(t) => t.text = Place(o, t.comma))
        /\ t.ledger \in Clean
    BY <2>1, <2>2, ListIsPrinted, CleanAre
  <2>4. PICK u : u = [t EXCEPT !.declared = s.ledger.flags \intersect Listed]
    OBVIOUS
  <2>5. /\ u.comma = t.comma /\ u.text = t.text /\ u.ledger = t.ledger
        /\ u.declared = s.ledger.flags
        /\ u \in [comma : BOOLEAN, text : Texts, ledger : Ledgers, declared : SUBSET Listed]
    <3>1. /\ t = [comma |-> t.comma, text |-> t.text, ledger |-> t.ledger,
                  declared |-> t.declared]
          /\ t.comma \in BOOLEAN /\ t.text \in Texts /\ t.ledger \in Ledgers
      BY <2>3, StatesAre
    <3>2. PICK d : d = s.ledger.flags \intersect Listed
      OBVIOUS
    <3>3. d = s.ledger.flags /\ d \in SUBSET Listed
      BY <2>1, <3>2
    <3>4. u = [t EXCEPT !.declared = d]
      BY Zenon, <2>4, <3>2
    <3>5. u = [comma |-> t.comma, text |-> t.text, ledger |-> t.ledger, declared |-> d]
      BY <3>1, <3>4
    <3>6. /\ u.comma = t.comma /\ u.text = t.text /\ u.ledger = t.ledger /\ u.declared = d
          /\ u \in [comma : BOOLEAN, text : Texts, ledger : Ledgers, declared : SUBSET Listed]
      BY <3>1, <3>3, <3>5
    <3> QED  BY Zenon, <3>3, <3>6
  <2>6. Quiet(u) = Quiet(t)
    BY <2>5 DEF Quiet
  <2>7. Quiet(t) => t.text # Malformed
    BY <2>3 DEF States
  <2>8. u \in States
    BY <2>5, <2>6, <2>7 DEF States
  <2>9. u \in Q
    BY <2>1, <2>3, <2>5, <2>6, <2>8 DEF Named, At
  <2> QED  BY Zenon, <2>2, <2>4, <2>9 DEF AfterUsed
<1>3. ASSUME NEW s \in Q PROVE AfterList(s, s.ledger.required) \in Q
  <2>1. s \in P /\ s.ledger.required \in SUBSET Listed /\ s.declared = s.ledger.wrote
    BY <1>1, CleanAre DEF Named
  <2> QED  BY <2>1, ListIsPrinted DEF Named
<1>4. ASSUME NEW s \in Q, NEW value \in Values(s.ledger.features)
      PROVE  AfterProperty(s, value) \in Q
  <2>1. s \in P /\ s \in States /\ s.ledger \in Clean /\ s.declared = s.ledger.wrote
        /\ (Quiet(s) => s.text = Place(o, s.comma))
    BY <1>1, CleanAre DEF Named
  <2>2. PICK x : x = Printed(s, Key \o value)
    OBVIOUS
  <2>3. AfterProperty(s, value) =
           [comma |-> TRUE, text |-> x, ledger |-> s.ledger, declared |-> s.declared]
    BY Zenon, <2>2 DEF AfterProperty, With
  <2>4. Quiet(s) => x = Place(o, TRUE)
    BY <2>1, <2>2, PrintsProperty, QuietValues
  <2>5. Key \o value \in Seq(Words)
    BY LexemesAre, JoinedLexemes
  <2>6. x \in Texts
    BY <2>1, <2>2, <2>5, PrintedIsText
  <2>7. AfterProperty(s, value) \in P
    BY <2>1, <2>3, <2>4, <2>6, Arrives, OwedAreLedgers
  <2>8. PICK t : t = AfterProperty(s, value)
    OBVIOUS
  <2>9. t = [comma |-> TRUE, text |-> x, ledger |-> s.ledger, declared |-> s.declared]
    BY Zenon, <2>3, <2>8
  <2>10. t.ledger = s.ledger /\ t.declared = s.declared
    BY <2>9
  <2> QED  BY <2>1, <2>7, <2>8, <2>10 DEF Named
<1>5. /\ used.op = "extensionsUsed" /\ required.op = "extensionsRequired"
      /\ props.op = "props"
  OBVIOUS
<1> HIDE DEF P, Q, used, required, props
<1>6. Triple(P, <<used>>, Q) /\ Triple(Q, <<required>>, Q)
  BY <1>1, <1>2, <1>3, <1>5, ListsStep
<1>7. Triple(Q, <<props>>, Q)
  BY <1>1, <1>4, <1>5, PropsStep
<1> QED
  BY <1>6, <1>7 DEF P, Q, used, required, props, Do, Props

\* The document itself.
Outermost == <<"{">>

\* The brace of the document is one.
LEMMA OutermostIs ==
  /\ Outermost \in Opened /\ Last(Outermost) = "{" /\ Outermost = Append(<< >>, "{")
  /\ << >> \in Seq(Brackets)
<1> DEFINE b == "{"
<1>1. b \in Brackets /\ << >> \in Seq(Brackets)
  BY DEF Brackets
<1> HIDE DEF b
<1>2. <<b>> = Append(<< >>, b)
  OBVIOUS
<1>3. Append(<< >>, b) \in Opened /\ Last(Append(<< >>, b)) = b
  BY <1>1, OpenedIs DEF Opened
<1> QED
  BY Zenon, <1>1, <1>2, <1>3 DEF Outermost, b

\* The last brace.
LEMMA WritesEnd ==
  Triple(Named(Outermost), Do("end", 0), Done)
<1> DEFINE P == Named(Outermost)
           step == [op |-> "end", arg |-> 0]
<1>1. P \in SUBSET States /\ Done \in SUBSET States
  BY AtAreStates DEF Named, Done
<1>2. ASSUME NEW s \in P PROVE AfterEnd(s) \in Done
  <2>1. /\ s \in States /\ s.ledger \in Ledgers /\ s.declared = s.ledger.wrote
        /\ s.ledger.flags = s.ledger.wrote /\ s.ledger.required \subseteq s.ledger.flags
        /\ (Quiet(s) => s.text = Place(Outermost, s.comma))
    BY CleanAre DEF Named
  <2>2. PICK x : x = Read(s.text, "}")
    OBVIOUS
  <2>3. PICK t : t = AfterEnd(s)
    OBVIOUS
  <2>4. t = [comma |-> s.comma, text |-> x, ledger |-> s.ledger, declared |-> s.declared]
    BY Zenon, <2>2, <2>3 DEF AfterEnd, With
  <2>5. x \in Texts /\ s.comma \in BOOLEAN /\ s.declared \in SUBSET Listed
    BY <2>1, <2>2, TextsStay, StatesAre
  <2>6. Quiet(s) => x = EndOfText
    <3>1. SUFFICES ASSUME Quiet(s) PROVE x = EndOfText
      OBVIOUS
    <3> DEFINE e == IF s.comma THEN "separator" ELSE "member"
    <3>2. e \in {"member", "separator"} /\ Place(Outermost, s.comma) = Text(Outermost, e)
      BY OutermostIs DEF Place
    <3> HIDE DEF e
    <3>3. Read(Text(Append(<< >>, "{"), e), "}") = AfterValue(<< >>)
      BY <3>2, OutermostIs, ReadsClosing
    <3> QED  BY Zenon, <2>1, <2>2, <3>1, <3>2, <3>3, OutermostIs DEF EndOfText
  <2>7. /\ t.comma = s.comma /\ t.text = x /\ t.ledger = s.ledger /\ t.declared = s.declared
        /\ t \in [comma : BOOLEAN, text : Texts, ledger : Ledgers, declared : SUBSET Listed]
    BY <2>1, <2>4, <2>5
  <2>8. Quiet(t) = Quiet(s)
    BY <2>7 DEF Quiet
  <2>9. EndOfText # Malformed
    BY DEF EndOfText, AfterValue, Malformed
  <2>10. t \in States
    BY <2>6, <2>7, <2>8, <2>9 DEF States
  <2>11. t \in Done
    BY <2>1, <2>6, <2>7, <2>8, <2>10 DEF Done
  <2> QED  BY <2>3, <2>11
<1>3. step.op = "end"
  OBVIOUS
<1> HIDE DEF P, step
<1>4. Triple(P, <<step>>, Done)
  BY <1>1, <1>2, <1>3, ListsStep
<1> QED
  BY <1>4 DEF P, Do, step

-----------------------------------------------------------------------------
\* cgltf_write.

Body ==
    ArrayOf(cgltf_write_accessor)
    \o cgltf_write_asset
    \o ArrayOf(cgltf_write_buffer_view)
    \o ArrayOf(cgltf_write_buffer)
    \o ArrayOf(cgltf_write_image)
    \o ArrayOf(cgltf_write_mesh)
    \o ArrayOf(cgltf_write_material)
    \o ArrayOf(cgltf_write_node)
    \o ArrayOf(cgltf_write_sampler)
    \o Props
    \o ArrayOf(cgltf_write_scene)
    \o ArrayOf(cgltf_write_texture)
    \o ArrayOf(cgltf_write_skin)
    \o ArrayOf(cgltf_write_animation)
    \o ArrayOf(cgltf_write_camera)

LightsAndVariants ==
    If({"KHR_lights_punctual", "KHR_materials_variants"}, Object(
          IfExtension("KHR_lights_punctual", Array(Some(cgltf_write_light)))
          \o IfExtension("KHR_materials_variants", Array(Some(cgltf_write_variant)))))

\* The program up to the lights and variants.
LEMMA WritesBody == Writes("{", Clean, Body, Clean)
<1> DEFINE C == Clean
           a1 == ArrayOf(cgltf_write_accessor)
           a2 == ArrayOf(Element(Props))
           a3 == ArrayOf(cgltf_write_mesh)
           a4 == ArrayOf(cgltf_write_material)
           a5 == ArrayOf(cgltf_write_node)
           a6 == ArrayOf(cgltf_write_texture)
           a7 == ArrayOf(cgltf_write_animation)
           a8 == ArrayOf(cgltf_write_camera)
           o == Object(Props)
<1>1. Writes("{", C, o, C) /\ Writes("{", C, Props, C) /\ Writes("{", C, a2, C)
  BY WritesPlain, WritesArrayOf
<1>2. Writes("{", C, a1, C) /\ Writes("{", C, a3, C)
  BY WritesAccessor, WritesMesh, WritesArrayOf
<1>3. Writes("{", C, a4, C) /\ Writes("{", C, a5, C)
  BY WritesMaterial, WritesNode, WritesArrayOf
<1>4. Writes("{", C, a6, C) /\ Writes("{", C, a7, C)
  BY WritesTexture, WritesAnimation, WritesArrayOf
<1>5. Writes("{", C, a8, C)
  <2>1. Writes("[", C, cgltf_write_camera, C)
    BY WritesCamera, OwedAreLedgers DEF cgltf_write_camera
  <2> QED  BY <2>1, WritesArrayOf
<1> HIDE DEF C, a1, a2, a3, a4, a5, a6, a7, a8, o
<1>6. Writes("{", C, a1 \o o \o a2 \o a2, C)
  BY <1>1, <1>2, WritesBoth
<1>7. Writes("{", C, a1 \o o \o a2 \o a2 \o a2 \o a3 \o a4, C)
  BY <1>1, <1>2, <1>3, <1>6, WritesBoth
<1>8. Writes("{", C, a1 \o o \o a2 \o a2 \o a2 \o a3 \o a4 \o a5 \o a2 \o Props, C)
  BY <1>1, <1>3, <1>7, WritesBoth
<1>9. Writes("{", C, a1 \o o \o a2 \o a2 \o a2 \o a3 \o a4 \o a5 \o a2 \o Props \o a2 \o a6, C)
  BY <1>1, <1>4, <1>8, WritesBoth
<1>10. Writes("{", C, a1 \o o \o a2 \o a2 \o a2 \o a3 \o a4 \o a5 \o a2 \o Props \o a2 \o a6
                      \o a2 \o a7 \o a8, C)
  BY <1>1, <1>4, <1>5, <1>9, WritesBoth
<1> QED
  BY Zenon, <1>10
     DEF Body, cgltf_write_asset, cgltf_write_buffer_view, cgltf_write_buffer,
         cgltf_write_image, cgltf_write_sampler, cgltf_write_scene, cgltf_write_skin,
         C, a1, a2, a3, a4, a5, a6, a7, a8, o

\* The lights and variants.
LEMMA WritesTail == Writes("{", Clean, LightsAndVariants, Clean)
<1> DEFINE x == "KHR_lights_punctual"
           y == "KHR_materials_variants"
           light == Element(Props \o Maybe(Object(Props)) \o Props)
           variant == Element(Props)
           one == IfExtension(x, Array(Some(Flag(x) \o light)))
           two == IfExtension(y, Array(Some(Flag(y) \o variant)))
<1>1. x \in Listed /\ y \in Listed
  BY DEF Listed
<1>2. \A F \in SUBSET Ledgers : Writes("[", F, light, F)
  BY WritesCamera
<1>3. \A F \in SUBSET Ledgers : Writes("[", F, variant, F)
  BY PlainObjects
<1> HIDE DEF x, y, light, variant
<1>4. Writes("{", Clean, one, Clean) /\ Writes("{", Clean, two, Clean)
  BY <1>1, <1>2, <1>3, WritesAhead
<1> HIDE DEF one, two
<1>5. Writes("{", Clean, Object(one \o two), Clean)
  BY <1>4, WritesBoth, WritesObject
<1>6. Writes("{", Clean, If({x, y}, Object(one \o two)), Clean)
  BY <1>5, WritesEither
<1> QED
  BY Zenon, <1>6 DEF LightsAndVariants, one, two, light, variant, x, y, cgltf_write_light, cgltf_write_variant

\* The program, from the first brace to the last.
LEMMA ProgramIsRight ==
  Triple(At(Outermost, Clean), program, Done)
<1> DEFINE P == At(Outermost, Clean)
           Q == Named(Outermost)
           exts == {"KHR_lights_punctual", "KHR_materials_variants"}
           lists == Do("lists", exts)
           used == Do("extensionsUsed", 0)
           required == Do("extensionsRequired", 0)
           end == Do("end", 0)
<1>1. Outermost \in Opened /\ Last(Outermost) = "{" /\ exts \in SUBSET Listed
  BY OutermostIs DEF Listed
<1>2. Writes("{", Clean, lists, Clean)
  BY <1>1, WritesAnyChoice
<1>3. Triple(P, used, Q) /\ Triple(Q, required, Q) /\ Triple(Q, Props, Q)
  BY <1>1, WritesUsed
<1>4. Triple(Q, end, Done)
  BY WritesEnd
<1> HIDE DEF P, Q, lists, used, required, end
<1>5. Writes("{", Clean, Body \o lists \o LightsAndVariants, Clean)
  BY <1>2, WritesBody, WritesTail, WritesBoth
<1>6. Triple(P, Body \o lists \o LightsAndVariants, P)
  BY <1>1, <1>5, WritesTriple DEF P
<1>7. Triple(P, Body \o lists \o LightsAndVariants \o used, Q)
  BY <1>3, <1>6, InSequence
<1>8. Triple(P, Body \o lists \o LightsAndVariants \o used \o required, Q)
  BY <1>3, <1>7, InSequence
<1>9. Triple(P, Body \o lists \o LightsAndVariants \o used \o required \o Props, Q)
  BY <1>3, <1>8, InSequence
<1>10. Triple(P, Body \o lists \o LightsAndVariants \o used \o required \o Props \o end, Done)
  BY <1>4, <1>9, InSequence
<1> QED
  BY Zenon, <1>10 DEF program, Body, LightsAndVariants, lists, used, required, end, P

-----------------------------------------------------------------------------
\* Where the writer is.

Ledger == [features |-> features, has |-> has, flags |-> extension_flags,
           required |-> required_extension_flags, wrote |-> wrote]

Now == [comma |-> needs_comma, text |-> text, ledger |-> Ledger, declared |-> declared]

IsRoute(a) ==
    /\ Annotates(a, program)
    /\ At(Outermost, Clean) \subseteq a[1] /\ a[Len(program) + 1] \subseteq Done

Route == CHOOSE a : IsRoute(a)

Printing == pc \in 1 .. Len(program) + 1 /\ Now \in Route[pc]

\* There is an assertion at every step of the program, and each step leads on.
LEMMA RouteIs ==
  /\ IsRoute(Route)
  /\ Len(program) \in Nat
  /\ Route \in [1 .. Len(program) + 1 -> SUBSET States]
  /\ \A i \in 1 .. Len(program) : Leads(program[i], Route, i)
<1>1. \E a : IsRoute(a)
  BY ProgramIsRight DEF Triple, IsRoute
<1>2. IsRoute(Route)
  BY Zenon, <1>1 DEF Route
<1>3. Len(program) \in Nat
  BY ProgramIsRight, StepsHaveLength DEF Triple
<1> QED
  BY Zenon, <1>2, <1>3 DEF IsRoute, Annotates

\* What is known at a step.
LEMMA OnIs ==
  ASSUME Printing, NEW op, On(op)
  PROVE  /\ pc \in 1 .. Len(program) /\ pc \in Nat /\ pc + 1 \in 1 .. Len(program) + 1
         /\ Step.op = op /\ Leads(Step, Route, pc) /\ Now \in Route[pc]
<1>1. pc \in 1 .. Len(program)
  BY RouteIs DEF Printing, On
<1>2. pc \in Nat /\ pc + 1 \in 1 .. Len(program) + 1
  BY <1>1, RouteIs
<1>3. Leads(program[pc], Route, pc)
  BY Zenon, <1>1, RouteIs
<1> QED
  BY Zenon, <1>1, <1>2, <1>3 DEF On, Step, Printing

\* The fields of Now.
LEMMA NowIs ==
  /\ Now.comma = needs_comma /\ Now.text = text /\ Now.ledger = Ledger
  /\ Now.declared = declared
  /\ Ledger.features = features /\ Ledger.has = has /\ Ledger.flags = extension_flags
  /\ Ledger.required = required_extension_flags /\ Ledger.wrote = wrote
  BY DEF Now, Ledger

\* cgltf_write_indent and the lexemes.
LEMMA PrintedIsIndented ==
  ASSUME NEW lexemes PROVE Indented(lexemes) = Printed(Now, lexemes)
  BY Zenon, NowIs DEF Indented, Printed

\* Printing goes on where the next assertion is true.
LEMMA StaysPrinting ==
  ASSUME pc' \in 1 .. Len(program) + 1, Now' \in Route[pc']
  PROVE  Printing'
  BY DEF Printing

\* When the ledger stays.
LEMMA NowNext ==
  ASSUME UNCHANGED <<features, has, flags, wrote>>
  PROVE  Ledger' = Ledger
  BY DEF Ledger, flags

\* When something is printed or noted.
LEMMA WithIs ==
  ASSUME NEW c, NEW t, NEW l, needs_comma' = c, text' = t, Ledger' = l, declared' = declared
  PROVE  Now' = With(Now, c, t, l)
<1>1. Now.declared = declared
  BY NowIs
<1>2. Now' = [comma |-> needs_comma', text |-> text', ledger |-> Ledger', declared |-> declared']
  BY DEF Now
<1> QED
  BY <1>1, <1>2 DEF With

\* cgltf_write_line.
LEMMA LinePrints ==
  ASSUME Printing, cgltf_write_line PROVE Printing'
<1>1. On("line")
  BY DEF cgltf_write_line
<1>2. /\ pc \in 1 .. Len(program) /\ pc + 1 \in 1 .. Len(program) + 1
      /\ Step.op = "line" /\ Leads(Step, Route, pc) /\ Now \in Route[pc]
  BY <1>1, OnIs
<1>3. AfterLine(Now, Step.arg, Step.name) \in Route[pc + 1]
  BY <1>2 DEF Leads, Prints
<1>4. Now' = AfterLine(Now, Step.arg, Step.name)
  <2>1. Ledger' = Began(Now.ledger, Step.name)
    BY NowIs DEF Ledger, Began, cgltf_write_line, flags
  <2>2. /\ needs_comma' = (Closing(Step.arg) /\ ~Opening(Step.arg))
        /\ text' = IF Closing(Step.arg) THEN ReadAll(text, Step.arg) ELSE Indented(Step.arg)
    BY Zenon DEF cgltf_write_line
  <2> QED
    BY <2>1, <2>2, WithIs, PrintedIsIndented, NowIs DEF AfterLine, cgltf_write_line
<1>5. pc' = pc + 1
  BY DEF cgltf_write_line, Next1
<1> QED
  BY <1>2, <1>3, <1>4, <1>5, StaysPrinting

\* A property.
LEMMA PropertyPrints ==
  ASSUME Printing, Property PROVE Printing'
<1>1. On("props")
  BY DEF Property
<1>2. /\ pc \in 1 .. Len(program) + 1
      /\ Step.op = "props" /\ Leads(Step, Route, pc) /\ Now \in Route[pc]
  BY <1>1, OnIs DEF Printing
<1>3. PICK value \in Values(features) : text' = Indented(Key \o value)
  BY DEF Property
<1>4. AfterProperty(Now, value) \in Route[pc]
  BY <1>2, NowIs DEF Leads, Prints
<1>5. Now' = AfterProperty(Now, value)
  <2>1. Ledger' = Now.ledger
    BY NowIs, NowNext DEF Property, flags
  <2>2. needs_comma' = TRUE /\ declared' = declared
    BY DEF Property
  <2> QED
    BY Zenon, <1>3, <2>1, <2>2, WithIs, PrintedIsIndented DEF AfterProperty
<1>6. pc' = pc
  BY DEF Property
<1> QED
  BY <1>2, <1>4, <1>5, <1>6, StaysPrinting

\* No more properties.
LEMMA NoMorePrints ==
  ASSUME Printing, NoMoreProperties PROVE Printing'
<1>1. On("props")
  BY DEF NoMoreProperties
<1>2. /\ pc + 1 \in 1 .. Len(program) + 1
      /\ Step.op = "props" /\ Leads(Step, Route, pc) /\ Now \in Route[pc]
  BY <1>1, OnIs
<1>3. Now \in Route[pc + 1]
  BY <1>2 DEF Leads, Prints
<1>4. Now' = Now /\ pc' = pc + 1
  BY NowNext DEF NoMoreProperties, Next1, Now
<1> QED
  BY <1>2, <1>3, <1>4, StaysPrinting

\* A choice.
LEMMA ExtensionsPrint ==
  ASSUME Printing, Extensions PROVE Printing'
<1>1. PICK op \in {"choose", "lists"} : On(op)
  BY DEF Extensions
<1>2. /\ pc + 1 \in 1 .. Len(program) + 1
      /\ Step.op = op /\ Leads(Step, Route, pc) /\ Now \in Route[pc]
  BY <1>1, OnIs
<1>3. has' \in SUBSET (Step.arg \intersect Now.ledger.features)
  BY NowIs DEF Extensions
<1>4. Chosen(Now, has') \in Route[pc + 1]
  BY <1>1, <1>2, <1>3 DEF Leads, Notes
<1>5. Now' = Chosen(Now, has')
  <2>1. Ledger' = [Now.ledger EXCEPT !.has = has']
    BY NowIs DEF Ledger, Extensions, flags
  <2>2. needs_comma' = Now.comma /\ text' = Now.text /\ declared' = declared
    BY NowIs DEF Extensions
  <2> QED
    BY Zenon, <2>1, <2>2, WithIs DEF Chosen, Noted
<1>6. pc' = pc + 1
  BY DEF Extensions, Next1
<1> QED
  BY <1>2, <1>4, <1>5, <1>6, StaysPrinting

\* The flags.
LEMMA FlagPrints ==
  ASSUME Printing, SetFlag PROVE Printing'
<1>1. pc' = pc + 1 /\ needs_comma' = Now.comma /\ text' = Now.text /\ declared' = declared
  BY NowIs DEF SetFlag, Next1
<1>2. ASSUME NEW exts, extension_flags' = extension_flags \union exts
      PROVE  Now' = Flagged(Now, exts)
  <2>1. Ledger' = [Now.ledger EXCEPT !.flags = @ \union exts]
    BY <1>2, NowIs DEF Ledger, SetFlag
  <2> QED
    BY Zenon, <1>1, <2>1, WithIs DEF Flagged, Noted
<1>3. CASE On("flag") /\ extension_flags' = extension_flags \union {Step.arg}
  <2>1. /\ pc + 1 \in 1 .. Len(program) + 1
        /\ Step.op = "flag" /\ Leads(Step, Route, pc) /\ Now \in Route[pc]
    BY <1>3, OnIs
  <2>2. Flagged(Now, {Step.arg}) \in Route[pc + 1]
    BY <2>1 DEF Leads, Notes
  <2> QED
    BY <1>1, <1>2, <1>3, <2>1, <2>2, StaysPrinting
<1>4. CASE On("flag_those") /\ extension_flags' = extension_flags \union has
  <2>1. /\ pc + 1 \in 1 .. Len(program) + 1
        /\ Step.op = "flag_those" /\ Leads(Step, Route, pc) /\ Now \in Route[pc]
    BY <1>4, OnIs
  <2>2. Flagged(Now, has) \in Route[pc + 1]
    BY <2>1, NowIs DEF Leads, Notes
  <2> QED
    BY <1>1, <1>2, <1>4, <2>1, <2>2, StaysPrinting
<1> QED
  BY <1>3, <1>4 DEF SetFlag

\* What is required.
LEMMA RequiredPrints ==
  ASSUME Printing, SetRequired PROVE Printing'
<1>1. On("require")
  BY DEF SetRequired
<1>2. /\ pc + 1 \in 1 .. Len(program) + 1
      /\ Step.op = "require" /\ Leads(Step, Route, pc) /\ Now \in Route[pc]
  BY <1>1, OnIs
<1>3. Required(Now, Step.arg) \in Route[pc + 1]
  BY <1>2 DEF Leads, Notes
<1>4. Now' = Required(Now, Step.arg)
  <2>1. Ledger' = [Now.ledger EXCEPT !.required = @ \union {Step.arg}]
    BY NowIs DEF Ledger, SetRequired
  <2>2. needs_comma' = Now.comma /\ text' = Now.text /\ declared' = declared
    BY NowIs DEF SetRequired
  <2> QED
    BY Zenon, <2>1, <2>2, WithIs DEF Required, Noted
<1>5. pc' = pc + 1
  BY DEF SetRequired, Next1
<1> QED
  BY <1>2, <1>3, <1>4, <1>5, StaysPrinting

\* An if or a loop.
LEMMA BranchPrints ==
  ASSUME Printing, Branch PROVE Printing'
<1>1. Now' = Now
  BY NowNext DEF Branch, Now
<1>2. DOMAIN Route = 1 .. Len(program) + 1
  BY RouteIs
<1>3. pc' \in 1 .. Len(program) + 1 /\ Now \in Route[pc']
  <2>1. CASE On("if") /\ pc' = pc + 1 + (IF has \intersect Step.arg # {} THEN 0 ELSE Step.skip)
    <3>1. /\ pc \in Nat /\ pc + 1 \in 1 .. Len(program) + 1
          /\ Step.op = "if" /\ Leads(Step, Route, pc) /\ Now \in Route[pc]
      BY <2>1, OnIs
    <3>2. /\ Step.skip \in Nat /\ pc + 1 + Step.skip \in 1 .. Len(program) + 1
          /\ Now \in IF has \intersect Step.arg # {} THEN Route[pc + 1]
                     ELSE Route[pc + 1 + Step.skip]
      BY <1>2, <3>1, NowIs DEF Leads, Branches, Skips
    <3> QED
      BY <2>1, <3>1, <3>2
  <2>2. CASE On("maybe") /\ pc' = pc + 1 + Step.skip
    <3>1. Step.op = "maybe" /\ Leads(Step, Route, pc) /\ Now \in Route[pc]
      BY <2>2, OnIs
    <3> QED
      BY <1>2, <2>2, <3>1 DEF Leads, Branches, Leaves
  <2>3. CASE On("maybe") /\ Step.arg \in features \union {"none"} /\ Next1
    <3>1. /\ pc + 1 \in 1 .. Len(program) + 1
          /\ Step.op = "maybe" /\ Leads(Step, Route, pc) /\ Now \in Route[pc]
      BY <2>3, OnIs
    <3> QED
      BY <2>3, <3>1, NowIs DEF Leads, Branches, Leaves, Next1
  <2>4. CASE On("again") /\ (pc' = pc - Step.arg \/ Next1)
    <3>1. /\ pc + 1 \in 1 .. Len(program) + 1
          /\ Step.op = "again" /\ Leads(Step, Route, pc) /\ Now \in Route[pc]
      BY <2>4, OnIs
    <3> QED
      BY <1>2, <2>4, <3>1 DEF Leads, Branches, Repeats, Next1
  <2> QED
    BY <2>1, <2>2, <2>3, <2>4 DEF Branch
<1> QED
  BY <1>1, <1>3, StaysPrinting

\* One field of a state is changed.
LEMMA Redeclared ==
  ASSUME NEW r, NEW c, NEW t, NEW l, NEW d, NEW e,
         r = [comma |-> c, text |-> t, ledger |-> l, declared |-> d]
  PROVE  [r EXCEPT !.declared = e] =
             [comma |-> c, text |-> t, ledger |-> l, declared |-> e]
  OBVIOUS

\* A list of extensions.
LEMMA ListIs ==
  ASSUME NEW exts, WriteExtensions(exts), Ledger' = Ledger
  PROVE  /\ Now' = [AfterList(Now, exts) EXCEPT !.declared = declared']
         /\ declared' = declared => Now' = AfterList(Now, exts)
<1>1. CASE exts = {}
  BY <1>1 DEF WriteExtensions, AfterList, Now
<1>2. CASE exts # {}
  <2> DEFINE x == Printed(Now, Key \o <<"[">> \o Names(Cardinality(exts \intersect Listed))
                                   \o <<"]">>)
  <2>1. text' = x /\ needs_comma' = TRUE
    BY Zenon, <1>2, PrintedIsIndented DEF WriteExtensions
  <2>2. AfterList(Now, exts) = With(Now, TRUE, x, Now.ledger)
    BY Zenon, <1>2 DEF AfterList
  <2> HIDE DEF x
  <2>3. AfterList(Now, exts) =
           [comma |-> TRUE, text |-> x, ledger |-> Ledger, declared |-> declared]
    BY Zenon, <2>2, NowIs DEF With
  <2>4. Now' = [comma |-> TRUE, text |-> x, ledger |-> Ledger, declared |-> declared']
    BY Zenon, <2>1 DEF Now
  <2>5. [AfterList(Now, exts) EXCEPT !.declared = declared'] =
           [comma |-> TRUE, text |-> x, ledger |-> Ledger, declared |-> declared']
    <3>1. PICK a : a = AfterList(Now, exts)
      OBVIOUS
    <3>2. PICK d : d = declared'
      OBVIOUS
    <3>3. PICK l : l = Ledger
      OBVIOUS
    <3>4. PICK e : e = declared
      OBVIOUS
    <3>5. PICK c : c = TRUE
      OBVIOUS
    <3>6. a = [comma |-> c, text |-> x, ledger |-> l, declared |-> e]
      BY Zenon, <2>3, <3>1, <3>3, <3>4, <3>5
    <3>7. [a EXCEPT !.declared = d] = [comma |-> c, text |-> x, ledger |-> l, declared |-> d]
      BY <3>6, Redeclared
    <3> QED  BY Zenon, <3>1, <3>2, <3>3, <3>5, <3>7
  <2> QED
    BY Zenon, <2>3, <2>4, <2>5
<1> QED
  BY <1>1, <1>2

\* extensionsUsed.
LEMMA UsedPrints ==
  ASSUME Printing, ExtensionsUsed PROVE Printing'
<1>1. On("extensionsUsed")
  BY DEF ExtensionsUsed
<1>2. /\ pc + 1 \in 1 .. Len(program) + 1
      /\ Step.op = "extensionsUsed" /\ Leads(Step, Route, pc) /\ Now \in Route[pc]
  BY <1>1, OnIs
<1>3. AfterUsed(Now) \in Route[pc + 1]
  BY <1>2 DEF Leads, Prints
<1>4. Now' = AfterUsed(Now)
  <2>1. Ledger' = Ledger
    BY NowNext DEF ExtensionsUsed
  <2>2. WriteExtensions(Now.ledger.flags) /\ declared' = Now.ledger.flags \intersect Listed
    BY NowIs DEF ExtensionsUsed
  <2> QED
    BY Zenon, <2>1, <2>2, ListIs DEF AfterUsed
<1>5. pc' = pc + 1
  BY DEF ExtensionsUsed, Next1
<1> QED
  BY <1>2, <1>3, <1>4, <1>5, StaysPrinting

\* extensionsRequired.
LEMMA RequiredListPrints ==
  ASSUME Printing, ExtensionsRequired PROVE Printing'
<1>1. On("extensionsRequired")
  BY DEF ExtensionsRequired
<1>2. /\ pc + 1 \in 1 .. Len(program) + 1
      /\ Step.op = "extensionsRequired" /\ Leads(Step, Route, pc) /\ Now \in Route[pc]
  BY <1>1, OnIs
<1>3. AfterList(Now, Now.ledger.required) \in Route[pc + 1]
  BY <1>2 DEF Leads, Prints
<1>4. Now' = AfterList(Now, Now.ledger.required)
  <2>1. Ledger' = Ledger
    BY NowNext DEF ExtensionsRequired
  <2>2. WriteExtensions(Now.ledger.required) /\ declared' = declared
    BY NowIs DEF ExtensionsRequired
  <2> QED
    BY Zenon, <2>1, <2>2, ListIs
<1>5. pc' = pc + 1
  BY DEF ExtensionsRequired, Next1
<1> QED
  BY <1>2, <1>3, <1>4, <1>5, StaysPrinting

\* The last brace.
LEMMA EndPrints ==
  ASSUME Printing, End PROVE Printing'
<1>1. On("end")
  BY DEF End
<1>2. /\ pc + 1 \in 1 .. Len(program) + 1
      /\ Step.op = "end" /\ Leads(Step, Route, pc) /\ Now \in Route[pc]
  BY <1>1, OnIs
<1>3. AfterEnd(Now) \in Route[pc + 1]
  BY <1>2 DEF Leads, Prints
<1>4. Now' = AfterEnd(Now)
  <2>1. Ledger' = Now.ledger
    BY NowIs, NowNext DEF End
  <2>2. needs_comma' = Now.comma /\ text' = Read(Now.text, "}") /\ declared' = declared
    BY NowIs DEF End
  <2> QED
    BY Zenon, <2>1, <2>2, WithIs DEF AfterEnd
<1>5. pc' = pc + 1
  BY DEF End, Next1
<1> QED
  BY <1>2, <1>3, <1>4, <1>5, StaysPrinting

-----------------------------------------------------------------------------
\* The first brace, which cgltf_write prints itself.
LEMMA StartsPrinting ==
  ASSUME PrintInit PROVE Printing
<1> DEFINE b == "{"
           start == StartOfText
<1>1. Read(start, b) = Text(Outermost, "member")
  <2>1. Allowed(start) = {"{", "[", "string", "primitive"}
    BY DEF Allowed, StartOfText
  <2>2. Read(start, b) = [open |-> Append(start.open, b), expect |-> "member"]
    BY <2>1 DEF Read
  <2>3. start.open = << >>
    BY DEF StartOfText
  <2> HIDE DEF start, b
  <2>4. Append(start.open, b) = Outermost
    <3>1. Append(<< >>, b) = <<b>>
      OBVIOUS
    <3> QED  BY Zenon, <2>3, <3>1 DEF Outermost, b
  <2> QED
    BY Zenon, <2>2, <2>4 DEF Text
<1>2. Place(Outermost, FALSE) = Text(Outermost, "member")
  BY Zenon, OutermostIs DEF Place
<1>3. text = Place(Outermost, FALSE)
  BY Zenon, <1>1, <1>2 DEF PrintInit
<1>4. Ledger \in Clean
  <2>1. /\ features \in Features /\ has = {} /\ extension_flags = {}
        /\ required_extension_flags = {} /\ wrote = {}
    BY DEF PrintInit
  <2>2. Ledger \in Ledgers
    BY <2>1 DEF Ledger, Ledgers
  <2> QED
    BY <2>1, <2>2, NowIs DEF Clean, Owed, Owing, Anything
<1>5. Now \in At(Outermost, Clean)
  <2>1. text \in Texts /\ text # Malformed
    <3>1. Outermost \in Opened
      BY OutermostIs
    <3>2. text \in Texts
      BY <1>3, <3>1, PlacesAreTexts
    <3>3. text.expect = "member"
      BY <1>2, <1>3, TextIs
    <3> QED  BY <3>2, <3>3 DEF Malformed
  <2>2. needs_comma = FALSE /\ declared = {} /\ Ledger \in Ledgers
    BY <1>4, OwedAreLedgers DEF PrintInit, Clean
  <2>3. Now \in States
    BY <2>1, <2>2 DEF Now, States
  <2> QED
    BY <1>3, <1>4, <2>2, <2>3, NowIs DEF At
<1>6. At(Outermost, Clean) \subseteq Route[1]
  BY Zenon, RouteIs DEF IsRoute
<1>7. Len(program) \in Nat /\ pc = 1
  BY Zenon, RouteIs DEF PrintInit
<1>8. 1 \in 1 .. Len(program) + 1
  BY <1>7
<1> QED
  BY Zenon, <1>5, <1>6, <1>7, <1>8 DEF Printing

\* Whatever cgltf_write does next.
LEMMA KeepsPrinting ==
  ASSUME Printing, cgltf_write PROVE Printing'
  BY LinePrints, PropertyPrints, NoMorePrints, ExtensionsPrint, FlagPrints, RequiredPrints,
     BranchPrints, UsedPrints, RequiredListPrints, EndPrints DEF cgltf_write

\* While the document is printed it is on its way; then it is forgotten.
Forgot == pc = 0 /\ features = {} /\ text = StartOfText

WriterIsRight == (stage = "print" => Printing) /\ (Printing \/ Forgot)

\* What is asserted on the way is what the properties ask for.
LEMMA PrintedIsRight ==
  ASSUME Printing PROVE JsonIsWritten /\ ExtensionsDeclared
<1>1. Now \in States
  BY RouteIs DEF Printing
<1>2. Quiet(Now) => text # Malformed
  BY <1>1, NowIs DEF States
<1>3. UnlitIsLast /\ AllIsQuoted => Quiet(Now)
  BY NowIs DEF UnlitIsLast, AllIsQuoted, Quiet, QuietOf
<1>4. Written => Now \in Done
  <2>1. Route[Len(program) + 1] \subseteq Done
    BY Zenon, RouteIs DEF IsRoute
  <2> QED
    BY <2>1 DEF Printing, Written
<1>5. Written => /\ Quiet(Now) => text = EndOfText
                 /\ declared = wrote /\ required_extension_flags \subseteq declared
  BY <1>4, NowIs DEF Done
<1> QED
  BY Zenon, <1>2, <1>3, <1>5 DEF JsonIsWritten, WellFormed, ExtensionsDeclared

\* Nothing is left to be wrong when the writer has returned.
LEMMA ForgottenIsRight ==
  ASSUME Forgot PROVE JsonIsWritten /\ ExtensionsDeclared
<1>1. ~Written
  BY RouteIs DEF Forgot, Written
<1>2. text # Malformed
  BY DEF Forgot, StartOfText, Malformed
<1> QED
  BY <1>1, <1>2 DEF JsonIsWritten, WellFormed, ExtensionsDeclared

\* At first.
LEMMA WriterInit ==
  ASSUME Init PROVE WriterIsRight
  BY StartsPrinting DEF Init, WriterIsRight

\* While others are at work.
LEMMA WriterStays ==
  ASSUME WriterIsRight, UNCHANGED writerVars, stage' = "print" => stage = "print"
  PROVE  WriterIsRight'
<1>1. Now' = Now /\ pc' = pc
  BY DEF writerVars, Now, Ledger
<1>2. Printing' = Printing
  BY <1>1 DEF Printing
<1>3. Forgot' = Forgot
  BY DEF writerVars, Forgot
<1> QED
  BY <1>2, <1>3 DEF WriterIsRight

\* Step by step.
LEMMA WriterNext ==
  ASSUME WriterIsRight, [Next]_vars
  PROVE  WriterIsRight'
<1>1. CASE cgltf_write_prints
  <2>1. Printing
    BY <1>1 DEF cgltf_write_prints, WriterIsRight
  <2> QED
    BY <1>1, <2>1, KeepsPrinting DEF cgltf_write_prints, WriterIsRight
<1>2. CASE AllocateText
  BY <1>2 DEF AllocateText, Forgotten, Forgot, WriterIsRight
<1>3. CASE OpenFails
  BY <1>3, WriterStays DEF OpenFails
<1>4. CASE WriteFile
  BY <1>4, WriterStays DEF WriteFile
<1>5. CASE ForeignFile
  BY <1>5, WriterStays DEF ForeignFile
<1>6. CASE cgltf_parse
  BY <1>6, WriterStays DEF cgltf_parse, Returns
<1>7. CASE ParseText
  BY <1>7, WriterStays DEF ParseText
<1>8. CASE ParseHeader
  BY <1>8, WriterStays DEF ParseHeader, Returns
<1>9. CASE ParseJsonChunk
  BY <1>9, WriterStays DEF ParseJsonChunk, Returns
<1>10. CASE ParseBinChunk
  BY <1>10, WriterStays DEF ParseBinChunk, Returns
<1>11. CASE UNCHANGED vars
  BY <1>11, WriterStays DEF vars, fileVars
<1> QED
  BY <1>1, <1>2, <1>3, <1>4, <1>5, <1>6, <1>7, <1>8, <1>9, <1>10, <1>11 DEF Next

\* The invariant of the writer.
LEMMA WriterAlwaysRight == Spec => []WriterIsRight
  BY WriterInit, WriterNext, PTL DEF Spec

\* JsonIsWritten for documents with any extensions in any combination: one flag,
\* set and cleared by thirty functions, puts every comma where it belongs, but
\* behind an unlit object and around values that are printed unquoted.
THEOREM TextStaysJson == Spec => []JsonIsWritten
<1>1. WriterIsRight => JsonIsWritten
  BY PrintedIsRight, ForgottenIsRight DEF WriterIsRight
<1> QED
  BY <1>1, WriterAlwaysRight, PTL

\* ExtensionsDeclared for the same documents: the flags that are set on the way
\* are those of the objects in the text.
THEOREM ExtensionsStayDeclared == Spec => []ExtensionsDeclared
<1>1. WriterIsRight => ExtensionsDeclared
  BY PrintedIsRight, ForgottenIsRight DEF WriterIsRight
<1> QED
  BY <1>1, WriterAlwaysRight, PTL

--------------------------------------------------------------------------------
(***************************************************************************)
(* The container.                                                          *)
(***************************************************************************)
Content == [json : Nat, has_bin : BOOLEAN, bin : Nat]

(* The states in which cgltf_parse has found a GLB.                        *)
InGlb == {"header", "json_chunk", "bin_chunk"}

ChunksAre == chunks = [json |-> chunks.json, bin |-> chunks.bin]

FileOK ==
    /\ content \in Content
    /\ file.size \in Nat /\ \A o \in Nat : Word(o) \in Nat
    /\ json_length \in Nat /\ ChunksAre

(* What was written, or a beginning of it.                                 *)
FromWriter ==
    content.json > 0 /\ file.words # << >> =>
        /\ file.words = cgltf_write_glb(content).words
        /\ file.size <= TotalSize(content)

(* What the checks so far have established, of the file and of the chunks. *)
Checked ==
    /\ stage \in InGlb => file.size >= GlbHeaderSize
    /\ stage \in InGlb \ {"header"} =>
          Word(8) <= file.size /\ GlbHeaderSize + GlbChunkHeaderSize <= file.size
    /\ stage = "bin_chunk" =>
          /\ json_length = Word(12)
          /\ json_length <= file.size - GlbHeaderSize - GlbChunkHeaderSize
          /\ chunks.json = <<GlbHeaderSize + GlbChunkHeaderSize, json_length>>
    /\ stage \in InGlb \union {"text"} => (type = "gltf" <=> stage = "text")
    /\ stage # "returned" => chunks.bin = NoChunk
    /\ stage \notin InGlb \union {"text", "returned"} => reads = {}
    /\ stage = "print" => content.json = 0

IInv == FileOK /\ FromWriter /\ Checked /\ ChunksInside /\ GlbComesBack

USE DEF GlbHeaderSize, GlbChunkHeaderSize, GlbVersion

--------------------------------------------------------------------------------
(* Sizes.                                                                  *)

LEMMA HeadersAre == GlbHeaderSize + GlbChunkHeaderSize = 20
  OBVIOUS

LEMMA PaddedIs ==
  ASSUME NEW n \in Nat
  PROVE  Padded(n) \in Nat /\ n <= Padded(n)
<1>1. n % 4 \in 0 .. 3
  OBVIOUS
<1> QED
  BY <1>1 DEF Padded

LEMMA SizesAre ==
  ASSUME NEW c \in Content
  PROVE  /\ Padded(c.json) \in Nat /\ Padded(c.bin) \in Nat
         /\ BinOffset(c) = 20 + Padded(c.json)
         /\ HasBinChunk(c) \in BOOLEAN
         /\ HasBinChunk(c) => TotalSize(c) = BinOffset(c) + 8 + Padded(c.bin)
         /\ ~HasBinChunk(c) => TotalSize(c) = BinOffset(c)
<1>1. c.json \in Nat /\ c.bin \in Nat /\ c.has_bin \in BOOLEAN
  BY DEF Content
<1>2. Padded(c.json) \in Nat /\ Padded(c.bin) \in Nat
  BY <1>1, PaddedIs
<1>3. HasBinChunk(c) \in BOOLEAN
  BY DEF HasBinChunk
<1> QED
  BY <1>2, <1>3 DEF BinOffset, TotalSize

(* The words of a GLB whose sizes fit into them.                           *)
LEMMA GlbWords ==
  ASSUME NEW c \in Content, TotalSize(c) < Uint32
  PROVE  LET words == cgltf_write_glb(c).words
         IN  /\ {0, 4, 8, 12, 16} \subseteq DOMAIN words
             /\ words[0] = GlbMagic /\ words[4] = GlbVersion
             /\ words[8] = TotalSize(c)
             /\ words[12] = Padded(c.json) /\ words[16] = GlbMagicJsonChunk
             /\ HasBinChunk(c) =>
                   /\ {BinOffset(c), BinOffset(c) + 4} \subseteq DOMAIN words
                   /\ words[BinOffset(c)] = Padded(c.bin)
                   /\ words[BinOffset(c) + 4] = GlbMagicBinChunk
<1> DEFINE bin == IF HasBinChunk(c) THEN {BinOffset(c), BinOffset(c) + 4} ELSE {}
           places == {0, 4, 8, 12, 16} \union bin
           word(o) == CASE o = 0  -> GlbMagic
                        [] o = 4  -> GlbVersion
                        [] o = 8  -> TotalSize(c) % Uint32
                        [] o = 12 -> JsonChunkLength(c)
                        [] o = 16 -> GlbMagicJsonChunk
                        [] o = BinOffset(c) -> Padded(c.bin) % Uint32
                        [] OTHER  -> GlbMagicBinChunk
<1> HIDE DEF bin, places, word
<1>1. cgltf_write_glb(c).words = [o \in places |-> word(o)]
  BY DEF cgltf_write_glb, bin, places, word
<1>2. /\ Uint32 \in Nat /\ TotalSize(c) \in Nat /\ BinOffset(c) >= 20 /\ BinOffset(c) \in Nat
      /\ Padded(c.json) \in Nat /\ Padded(c.json) < Uint32
      /\ Padded(c.bin) \in Nat
      /\ HasBinChunk(c) => Padded(c.bin) < Uint32
  BY SizesAre, Uint32Assumption
<1>3. \A n \in Nat : n < Uint32 => n % Uint32 = n
  BY <1>2
<1>4. /\ TotalSize(c) % Uint32 = TotalSize(c) /\ JsonChunkLength(c) = Padded(c.json)
      /\ HasBinChunk(c) => Padded(c.bin) % Uint32 = Padded(c.bin)
  <2>1. Padded(c.json) % Uint32 = Padded(c.json)
    BY <1>2, <1>3
  <2>2. TotalSize(c) % Uint32 = TotalSize(c)
    BY <1>2, <1>3
  <2>3. ASSUME HasBinChunk(c) PROVE Padded(c.bin) % Uint32 = Padded(c.bin)
    BY <1>2, <1>3, <2>3
  <2> QED
    BY <2>1, <2>2, <2>3 DEF JsonChunkLength
<1>5. /\ word(0) = GlbMagic /\ word(4) = GlbVersion /\ word(8) = TotalSize(c) % Uint32
      /\ word(12) = JsonChunkLength(c) /\ word(16) = GlbMagicJsonChunk
      /\ word(BinOffset(c)) = Padded(c.bin) % Uint32
      /\ word(BinOffset(c) + 4) = GlbMagicBinChunk
  BY <1>2 DEF word
<1> QED
  BY <1>1, <1>4, <1>5 DEF bin, places

LEMMA GlbIsFile ==
  ASSUME NEW c \in Content
  PROVE  /\ TotalSize(c) \in Nat
         /\ \A o \in DOMAIN cgltf_write_glb(c).words : cgltf_write_glb(c).words[o] \in Nat
         /\ cgltf_write_glb(c).size = TotalSize(c)
<1>1. /\ TotalSize(c) \in Nat /\ Padded(c.json) \in Nat /\ Padded(c.bin) \in Nat
      /\ Uint32 \in Nat \ {0}
  BY SizesAre, Uint32Assumption
<1>2. \A n \in Nat : n % Uint32 \in Nat
  BY <1>1
<1>3. /\ TotalSize(c) % Uint32 \in Nat /\ JsonChunkLength(c) \in Nat
      /\ Padded(c.bin) % Uint32 \in Nat
  BY <1>1, <1>2 DEF JsonChunkLength
<1> DEFINE word(o) == CASE o = 0  -> GlbMagic
                        [] o = 4  -> GlbVersion
                        [] o = 8  -> TotalSize(c) % Uint32
                        [] o = 12 -> JsonChunkLength(c)
                        [] o = 16 -> GlbMagicJsonChunk
                        [] o = BinOffset(c) -> Padded(c.bin) % Uint32
                        [] OTHER  -> GlbMagicBinChunk
           places == {0, 4, 8, 12, 16} \union
                     (IF HasBinChunk(c) THEN {BinOffset(c), BinOffset(c) + 4} ELSE {})
<1>4. ASSUME NEW o \in places PROVE word(o) \in Nat
  BY <1>3 DEF GlbMagic, GlbMagicJsonChunk, GlbMagicBinChunk
<1> HIDE DEF word, places
<1>5. cgltf_write_glb(c).words = [o \in places |-> word(o)]
  BY DEF cgltf_write_glb, word, places
<1> QED
  BY <1>1, <1>4, <1>5 DEF cgltf_write_glb

--------------------------------------------------------------------------------
(* Writing.                                                                *)

(* A step that leaves the file and what is known of it alone.              *)
LEMMA KeepHolds ==
  ASSUME IInv, UNCHANGED <<content, file, type, reads, json_length, chunks>>,
         stage \notin InGlb \union {"text", "returned"},
         stage' \notin InGlb \union {"text", "returned"}, stage' = "print" => stage = "print"
  PROVE  IInv'
<1>1. FileOK'
  BY DEF IInv, FileOK, ChunksAre, Word
<1>2. FromWriter'
  BY DEF IInv, FromWriter
<1>3. Checked'
  BY DEF IInv, Checked, InGlb
<1>4. ChunksInside'
  BY DEF IInv, ChunksInside, InGlb
<1>5. GlbComesBack'
  BY DEF GlbComesBack, InGlb
<1> QED
  BY <1>1, <1>2, <1>3, <1>4, <1>5 DEF IInv

LEMMA InitHolds ==
  ASSUME Init
  PROVE  IInv
<1> USE DEF Init, NoFile, NoChunk, InGlb
<1>1. FileOK
  <2>1. content \in Content /\ file.size \in Nat /\ json_length \in Nat
    BY DEF Content
  <2>2. ChunksAre
    BY DEF ChunksAre
  <2>3. \A o \in Nat : Word(o) \in Nat
    BY DEF Word
  <2> QED
    BY <2>1, <2>2, <2>3 DEF FileOK
<1>2. FromWriter /\ Checked /\ ChunksInside /\ GlbComesBack
  BY DEF FromWriter, Checked, ChunksInside, GlbComesBack
<1> QED
  BY <1>1, <1>2 DEF IInv

(* A new file, which nothing has been read of.                             *)
LEMMA FileHolds ==
  ASSUME IInv, stage \notin InGlb \union {"text", "returned"}, stage' = "file",
         content' \in Content, file'.size \in Nat, \A o \in Nat : Word(o)' \in Nat, FromWriter',
         UNCHANGED <<type, reads, json_length, chunks>>
  PROVE  IInv'
<1>1. FileOK' /\ Checked' /\ ChunksInside' /\ GlbComesBack'
  BY DEF IInv, FileOK, ChunksAre, Checked, ChunksInside, GlbComesBack, InGlb
<1> QED
  BY <1>1 DEF IInv

LEMMA WriteHolds ==
  ASSUME IInv, WriteFile
  PROVE  IInv'
<1>1. PICK json \in Lengths \ {0}, bin \in Lengths, has_bin \in BOOLEAN, glb \in BOOLEAN :
         LET c == [json |-> json, has_bin |-> has_bin, bin |-> bin]
             whole == IF glb THEN cgltf_write_glb(c) ELSE PlainFile(c)
         IN  /\ content' = c
             /\ \E size \in {whole.size} \union {n \in Lengths : n < whole.size} :
                   file' = [whole EXCEPT !.size = size]
  BY DEF WriteFile
<1> DEFINE c == [json |-> json, has_bin |-> has_bin, bin |-> bin]
<1>2. c \in Content /\ c.json \in Nat
  BY Uint32Assumption DEF Content
<1> DEFINE whole == IF glb THEN cgltf_write_glb(c) ELSE PlainFile(c)
<1> HIDE DEF c
<1>3. content' = c
  BY <1>1 DEF c
<1>4. PICK size \in {whole.size} \union {n \in Lengths : n < whole.size} :
          file' = [whole EXCEPT !.size = size]
  BY <1>1 DEF c
<1>5. /\ whole = [size |-> whole.size, words |-> whole.words] /\ whole.size \in Nat
      /\ \A o \in DOMAIN whole.words : whole.words[o] \in Nat
  <2>1. CASE glb
    <3>1. cgltf_write_glb(c) = [size |-> cgltf_write_glb(c).size, words |-> cgltf_write_glb(c).words]
      BY DEF cgltf_write_glb
    <3> QED
      BY <1>2, <2>1, <3>1, GlbIsFile
  <2>2. CASE ~glb
    BY <1>2, <2>2 DEF PlainFile
  <2> QED
    BY <2>1, <2>2
<1>6. whole.words # << >> => whole = cgltf_write_glb(c)
  BY DEF PlainFile
<1> HIDE DEF whole
<1>7. size \in Nat /\ size <= whole.size
  BY <1>5, Uint32Assumption
<1>8. file' = [size |-> size, words |-> whole.words]
  BY <1>4, <1>5
<1>9. \A o \in Nat : Word(o)' \in Nat
  BY <1>5, <1>8 DEF Word
<1>10. FromWriter'
  BY <1>2, <1>3, <1>6, <1>7, <1>8, GlbIsFile DEF FromWriter
<1> QED
  BY <1>2, <1>3, <1>7, <1>8, <1>9, <1>10, FileHolds DEF WriteFile, InGlb

LEMMA ForeignHolds ==
  ASSUME IInv, ForeignFile
  PROVE  IInv'
<1>1. file' \in Foreign /\ content' = content
  BY DEF ForeignFile
<1>2. file'.size \in Nat /\ \A o \in Nat : Word(o)' \in Nat
  BY <1>1, ForeignAssumption DEF Word
<1>3. content.json = 0
  BY DEF IInv, Checked, ForeignFile, InGlb
<1> QED
  BY <1>1, <1>2, <1>3, FileHolds DEF IInv, FileOK, FromWriter, ForeignFile, InGlb

LEMMA OthersHold ==
  ASSUME IInv, cgltf_write_prints \/ AllocateText \/ OpenFails
  PROVE  IInv'
<1>1. /\ UNCHANGED <<content, file, type, reads, json_length, chunks>>
      /\ stage \in {"print", "open"} /\ stage' \in {"print", "open", "aborted"}
      /\ stage' = "print" => stage = "print"
  BY DEF cgltf_write_prints, AllocateText, OpenFails, fileVars
<1> QED
  BY <1>1, KeepHolds DEF InGlb

--------------------------------------------------------------------------------
(* Parsing.                                                                *)

(* The words of a GLB that cgltf_write_glb has made, as they are read.     *)
LEMMA GlbIsRead ==
  ASSUME IInv, content.json > 0, file.words # << >>, TotalSize(content) < Uint32
  PROVE  /\ Word(0) = GlbMagic /\ Word(4) = GlbVersion /\ Word(8) = TotalSize(content)
         /\ Word(12) = Padded(content.json) /\ Word(16) = GlbMagicJsonChunk
         /\ HasBinChunk(content) =>
               /\ Word(BinOffset(content)) = Padded(content.bin)
               /\ Word(BinOffset(content) + 4) = GlbMagicBinChunk
         /\ file.size <= TotalSize(content)
<1>1. /\ content \in Content /\ file.words = cgltf_write_glb(content).words
      /\ file.size <= TotalSize(content)
  BY DEF IInv, FileOK, FromWriter
<1> QED
  BY <1>1, GlbWords DEF Word

(* The parse ends.  A document is right when its chunks are.               *)
LEMMA ReturnHolds ==
  ASSUME IInv, stage' = "returned", UNCHANGED <<content, file, type, json_length>>,
         ChunksAre',
         \A o \in reads' : o + 4 <= file.size, ChunksInside', GlbComesBack'
  PROVE  IInv'
<1>1. FileOK'
  BY DEF IInv, FileOK, ChunksAre, Word
<1>2. FromWriter' /\ Checked'
  BY DEF IInv, FromWriter, Checked, InGlb
<1> QED
  BY <1>1, <1>2 DEF IInv

(* It fails: then what was written has been cut short.                     *)
LEMMA FailHolds ==
  ASSUME IInv, NEW r \in {"data_too_short", "unknown_format", "legacy_gltf"}, Returns(r),
         \A o \in reads' : o + 4 <= file.size,
         content.json > 0 /\ file.words # << >> /\ TotalSize(content) < Uint32
             /\ type # "gltf" => file.size < TotalSize(content)
  PROVE  IInv'
<1>1. /\ stage' = "returned" /\ result' # "success"
      /\ UNCHANGED <<content, file, type, json_length, chunks>>
  BY DEF Returns
<1>2. ChunksInside'
  BY <1>1 DEF ChunksInside
<1>3. GlbComesBack'
  BY <1>1 DEF GlbComesBack
<1> QED
  BY <1>1, <1>2, <1>3, ReturnHolds DEF IInv, FileOK, ChunksAre

(* It goes on.                                                             *)
LEMMA GoOnHolds ==
  ASSUME IInv, stage' \in InGlb \union {"text"}, Checked',
         UNCHANGED <<content, file>>, \A o \in reads' : o + 4 <= file.size,
         json_length' \in Nat, ChunksAre'
  PROVE  IInv'
<1>1. FileOK'
  BY DEF IInv, FileOK, ChunksAre, Word
<1>2. FromWriter' /\ ChunksInside' /\ GlbComesBack'
  BY DEF IInv, FromWriter, ChunksInside, GlbComesBack, InGlb
<1> QED
  BY <1>1, <1>2 DEF IInv

LEMMA ParseHolds ==
  ASSUME IInv, cgltf_parse
  PROVE  IInv'
<1>1. PICK given \in {"invalid", "gltf", "glb"} :
          IF file.size < GlbHeaderSize
            THEN Returns("data_too_short") /\ UNCHANGED reads
          ELSE IF Word(0) # GlbMagic /\ given = "glb"
            THEN Returns("unknown_format") /\ reads' = {0}
          ELSE /\ reads' = {0}
               /\ type' = IF Word(0) # GlbMagic THEN "gltf" ELSE given
               /\ stage' = IF type' = "gltf" THEN "text" ELSE "header"
               /\ UNCHANGED <<writerVars, buffer, content, file, json_length, chunks, result>>
  BY DEF cgltf_parse
<1>2. /\ stage = "file" /\ file.size \in Nat /\ reads = {} /\ chunks.bin = NoChunk
      /\ content \in Content
  BY DEF IInv, FileOK, Checked, cgltf_parse, InGlb
<1>3. CASE file.size < GlbHeaderSize
  <2>1. Returns("data_too_short") /\ reads' = {}
    BY <1>1, <1>2, <1>3
  <2>2. BinOffset(content) >= 20 /\ TotalSize(content) >= 20
    BY <1>2, SizesAre
  <2>3. file.size < TotalSize(content)
    BY <1>2, <1>3, <2>2, GlbIsFile
  <2> QED
    BY <2>1, <2>3, FailHolds
<1>4. CASE ~(file.size < GlbHeaderSize) /\ Word(0) # GlbMagic /\ given = "glb"
  <2>1. Returns("unknown_format") /\ reads' = {0}
    BY <1>1, <1>4
  <2>2. \A o \in reads' : o + 4 <= file.size
    BY <1>2, <1>4, <2>1
  <2> QED
    BY <1>4, <2>1, <2>2, FailHolds, GlbIsRead
<1>5. CASE ~(file.size < GlbHeaderSize) /\ ~(Word(0) # GlbMagic /\ given = "glb")
  <2>1. /\ reads' = {0} /\ stage' = IF type' = "gltf" THEN "text" ELSE "header"
        /\ UNCHANGED <<content, file, json_length, chunks>>
    BY <1>1, <1>5
  <2>2. (\A o \in reads' : o + 4 <= file.size) /\ file.size >= GlbHeaderSize
    BY <1>2, <1>5, <2>1
  <2>3. Checked'
    BY <1>2, <2>1, <2>2 DEF Checked, InGlb
  <2> QED
    BY <2>1, <2>2, <2>3, GoOnHolds DEF IInv, FileOK, ChunksAre, InGlb
<1> QED
  BY <1>3, <1>4, <1>5

LEMMA TextHolds ==
  ASSUME IInv, ParseText
  PROVE  IInv'
<1>1. /\ stage = "text" /\ stage' = "returned" /\ type = "gltf"
      /\ file.size \in Nat /\ ChunksAre /\ chunks.bin = NoChunk
      /\ chunks' = [chunks EXCEPT !.json = <<0, file.size>>]
      /\ UNCHANGED <<content, file, type, reads, json_length>>
  BY DEF IInv, FileOK, Checked, ParseText, InGlb
<1>2. /\ ChunksAre'
      /\ chunks'.json = <<0, file.size>> /\ chunks'.bin = NoChunk
  BY <1>1 DEF ChunksAre
<1>3. ChunksInside'
  BY <1>1, <1>2 DEF IInv, ChunksInside
<1>4. GlbComesBack'
  BY <1>1 DEF GlbComesBack
<1> QED
  BY <1>1, <1>2, <1>3, <1>4, ReturnHolds DEF IInv, ChunksInside

USE HeadersAre

LEMMA HeaderHolds ==
  ASSUME IInv, ParseHeader
  PROVE  IInv'
<1>1. /\ stage = "header" /\ file.size \in Nat /\ file.size >= 12 /\ content \in Content
      /\ Word(8) \in Nat /\ TotalSize(content) >= 20 /\ TotalSize(content) \in Nat
      /\ \A o \in reads : o + 4 <= file.size
      /\ \A o \in {4, 8} : o + 4 <= file.size
  <2>1. /\ stage = "header" /\ file.size \in Nat /\ file.size >= 12 /\ content \in Content
        /\ Word(8) \in Nat
    BY DEF IInv, FileOK, Checked, ParseHeader, InGlb
  <2>2. TotalSize(content) >= 20 /\ TotalSize(content) \in Nat
    BY <2>1, SizesAre, GlbIsFile
  <2>3. \A o \in reads : o + 4 <= file.size
    BY DEF IInv, ChunksInside
  <2> QED
    BY <2>1, <2>2, <2>3
<1>2. CASE Word(4) # GlbVersion
  <2>1. PICK r \in {"data_too_short", "unknown_format", "legacy_gltf"} : Reads({4}) /\ Returns(r)
    BY <1>2 DEF ParseHeader
  <2>2. \A o \in reads' : o + 4 <= file.size
    BY <1>1, <2>1 DEF Reads
  <2> QED
    BY <1>2, <2>1, <2>2, FailHolds, GlbIsRead
<1>3. CASE Word(4) = GlbVersion /\ (Word(8) > file.size \/ 20 > file.size)
  <2>1. Reads({4, 8}) /\ Returns("data_too_short")
    BY <1>3 DEF ParseHeader
  <2>2. \A o \in reads' : o + 4 <= file.size
    BY <1>1, <2>1 DEF Reads
  <2>3. content.json > 0 /\ file.words # << >> /\ TotalSize(content) < Uint32 =>
            file.size < TotalSize(content)
    BY <1>1, <1>3, GlbIsRead
  <2> QED
    BY <2>1, <2>2, <2>3, FailHolds
<1>4. CASE Word(4) = GlbVersion /\ ~(Word(8) > file.size \/ 20 > file.size)
  <2>1. /\ Reads({4, 8}) /\ stage' = "json_chunk"
        /\ UNCHANGED <<content, file, type, json_length, chunks>>
    BY <1>4 DEF ParseHeader
  <2>2. \A o \in reads' : o + 4 <= file.size
    BY <1>1, <2>1 DEF Reads
  <2>3. Word(8)' = Word(8)
    BY <2>1 DEF Word
  <2>4. Checked'
    BY <1>1, <1>4, <2>1, <2>3 DEF IInv, Checked, InGlb
  <2> QED
    BY <2>1, <2>2, <2>4, GoOnHolds DEF IInv, FileOK, ChunksAre, InGlb
<1> QED
  BY <1>2, <1>3, <1>4

LEMMA JsonChunkHolds ==
  ASSUME IInv, ParseJsonChunk
  PROVE  IInv'
<1>1. /\ stage = "json_chunk" /\ file.size \in Nat /\ file.size >= 20 /\ content \in Content
      /\ Word(8) \in Nat /\ Word(8) <= file.size /\ Word(12) \in Nat
      /\ \A o \in reads : o + 4 <= file.size
      /\ \A o \in {12, 16} : o + 4 <= file.size
  <2>1. /\ stage = "json_chunk" /\ file.size \in Nat /\ file.size >= 20
        /\ content \in Content /\ Word(8) \in Nat /\ Word(8) <= file.size /\ Word(12) \in Nat
    BY DEF IInv, FileOK, Checked, ParseJsonChunk, InGlb
  <2>2. \A o \in reads : o + 4 <= file.size
    BY DEF IInv, ChunksInside
  <2> QED
    BY <2>1, <2>2
<1>0. stage = "json_chunk" /\ ChunksAre /\ chunks.bin = NoChunk /\ type # "gltf"
  BY DEF IInv, FileOK, Checked, ParseJsonChunk, InGlb
<1>2. /\ Padded(content.json) \in Nat /\ TotalSize(content) \in Nat
      /\ TotalSize(content) >= 20 + Padded(content.json)
  BY <1>1, SizesAre, GlbIsFile
<1>3. CASE Word(12) > file.size - GlbHeaderSize - GlbChunkHeaderSize
  <2>1. Reads({12}) /\ Returns("data_too_short")
    BY <1>3 DEF ParseJsonChunk
  <2>2. \A o \in reads' : o + 4 <= file.size
    BY <1>1, <2>1 DEF Reads
  <2>3. content.json > 0 /\ file.words # << >> /\ TotalSize(content) < Uint32 =>
            file.size < TotalSize(content)
    BY <1>1, <1>2, <1>3, GlbIsRead
  <2> QED
    BY <2>1, <2>2, <2>3, FailHolds
<1>4. CASE /\ ~(Word(12) > file.size - GlbHeaderSize - GlbChunkHeaderSize)
           /\ Word(16) # GlbMagicJsonChunk
  <2>1. Reads({12, 16}) /\ Returns("unknown_format")
    BY <1>4 DEF ParseJsonChunk
  <2>2. \A o \in reads' : o + 4 <= file.size
    BY <1>1, <2>1 DEF Reads
  <2> QED
    BY <1>4, <2>1, <2>2, FailHolds, GlbIsRead
<1>5. CASE /\ ~(Word(12) > file.size - GlbHeaderSize - GlbChunkHeaderSize)
           /\ Word(16) = GlbMagicJsonChunk
  <2>1. /\ Reads({12, 16}) /\ stage' = "bin_chunk" /\ json_length' = Word(12)
        /\ chunks' = [chunks EXCEPT !.json = <<GlbHeaderSize + GlbChunkHeaderSize, Word(12)>>]
        /\ UNCHANGED <<content, file, type>>
    BY <1>5 DEF ParseJsonChunk
  <2>2. \A o \in reads' : o + 4 <= file.size
    BY <1>1, <2>1 DEF Reads
  <2>3. /\ ChunksAre'
        /\ chunks'.json = <<GlbHeaderSize + GlbChunkHeaderSize, Word(12)>>
        /\ chunks'.bin = NoChunk
    BY <1>0, <2>1 DEF ChunksAre
  <2>4. Word(8)' = Word(8) /\ Word(12)' = Word(12)
    BY <2>1 DEF Word
  <2>5. Checked'
    BY <1>0, <1>1, <1>5, <2>1, <2>3, <2>4 DEF Checked, InGlb
  <2> QED
    BY <1>1, <2>1, <2>2, <2>3, <2>5, GoOnHolds DEF InGlb
<1> QED
  BY <1>3, <1>4, <1>5

(* The parse has found a bin chunk, or has found that there is none.       *)
LEMMA BinChunkHolds ==
  ASSUME IInv, ParseBinChunk
  PROVE  IInv'
<1> DEFINE at == GlbHeaderSize + GlbChunkHeaderSize + json_length
<1>1. /\ stage = "bin_chunk" /\ file.size \in Nat /\ content \in Content
      /\ Word(8) <= file.size /\ json_length = Word(12) /\ json_length \in Nat
      /\ Left \in Nat /\ file.size = at + Left /\ at \in Nat
      /\ Word(at) \in Nat
      /\ \A o \in reads : o + 4 <= file.size
      /\ ChunksAre /\ chunks.bin = NoChunk
      /\ chunks.json = <<GlbHeaderSize + GlbChunkHeaderSize, json_length>>
  <2>1. /\ stage = "bin_chunk" /\ file.size \in Nat /\ content \in Content
        /\ Word(8) <= file.size /\ json_length = Word(12) /\ json_length \in Nat
        /\ json_length <= file.size - GlbHeaderSize - GlbChunkHeaderSize
        /\ \A o \in Nat : Word(o) \in Nat
        /\ ChunksAre /\ chunks.bin = NoChunk
        /\ chunks.json = <<GlbHeaderSize + GlbChunkHeaderSize, json_length>>
    BY DEF IInv, FileOK, Checked, ParseBinChunk, InGlb
  <2>2. Left \in Nat /\ file.size = at + Left /\ at \in Nat
    BY <2>1 DEF Left
  <2>3. \A o \in reads : o + 4 <= file.size
    BY DEF IInv, ChunksInside
  <2> QED
    BY <2>1, <2>2, <2>3
<1>2. 8 <= Left => \A o \in {at, at + 4} : o + 4 <= file.size
  BY <1>1
<1> DEFINE Whole == content.json > 0 /\ file.words # << >> /\ TotalSize(content) < Uint32
<1>3. ASSUME Whole
      PROVE  /\ file.size = TotalSize(content) /\ json_length = Padded(content.json)
             /\ at = BinOffset(content)
             /\ HasBinChunk(content) => /\ Left = 8 + Padded(content.bin)
                                        /\ Word(at) = Padded(content.bin)
                                        /\ Word(at + 4) = GlbMagicBinChunk
             /\ ~HasBinChunk(content) => Left = 0
             /\ Padded(content.bin) \in Nat
  <2>1. /\ Word(8) = TotalSize(content) /\ Word(12) = Padded(content.json)
        /\ file.size <= TotalSize(content)
        /\ HasBinChunk(content) => /\ Word(BinOffset(content)) = Padded(content.bin)
                                   /\ Word(BinOffset(content) + 4) = GlbMagicBinChunk
    BY <1>3, GlbIsRead
  <2>2. /\ Padded(content.json) \in Nat /\ Padded(content.bin) \in Nat
        /\ BinOffset(content) = 20 + Padded(content.json)
        /\ TotalSize(content) \in Nat
        /\ HasBinChunk(content) =>
              TotalSize(content) = BinOffset(content) + 8 + Padded(content.bin)
        /\ ~HasBinChunk(content) => TotalSize(content) = BinOffset(content)
    BY <1>1, SizesAre, GlbIsFile
  <2>3. /\ file.size = TotalSize(content) /\ json_length = Padded(content.json)
        /\ at = BinOffset(content)
    BY <1>1, <2>1, <2>2
  <2>4. CASE HasBinChunk(content)
    BY <1>1, <2>1, <2>2, <2>3, <2>4
  <2>5. CASE ~HasBinChunk(content)
    BY <1>1, <2>1, <2>2, <2>3, <2>5
  <2> QED
    BY <2>2, <2>3, <2>4, <2>5
<1>4. CASE GlbChunkHeaderSize > Left
  <2>1. /\ stage' = "returned" /\ result' = "success"
        /\ UNCHANGED <<content, file, type, reads, json_length, chunks>>
    BY <1>4 DEF ParseBinChunk, Returns
  <2>2. ChunksInside'
    BY <1>1, <2>1 DEF ChunksInside
  <2>3. ASSUME Whole
        PROVE  ~HasBinChunk(content)
    BY <1>3, <1>4, <2>3
  <2>4. GlbComesBack'
    BY <1>1, <1>3, <2>1, <2>3 DEF GlbComesBack
  <2>5. ChunksAre'
    BY <1>1, <2>1 DEF ChunksAre
  <2> QED
    BY <1>1, <2>1, <2>2, <2>4, <2>5, ReturnHolds
<1>5. CASE ~(GlbChunkHeaderSize > Left) /\ Word(at) > Left - GlbChunkHeaderSize
  <2>1. Reads({at}) /\ Returns("data_too_short")
    BY <1>5 DEF ParseBinChunk
  <2>2. \A o \in reads' : o + 4 <= file.size
    BY <1>1, <1>2, <1>5, <2>1 DEF Reads
  <2>3. ~Whole
    BY <1>1, <1>3, <1>5
  <2> QED
    BY <2>1, <2>2, <2>3, FailHolds
<1>6. CASE /\ ~(GlbChunkHeaderSize > Left) /\ ~(Word(at) > Left - GlbChunkHeaderSize)
           /\ Word(at + 4) # GlbMagicBinChunk
  <2>1. Reads({at, at + 4}) /\ Returns("unknown_format")
    BY <1>6 DEF ParseBinChunk
  <2>2. \A o \in reads' : o + 4 <= file.size
    BY <1>1, <1>2, <1>6, <2>1 DEF Reads
  <2>3. ~Whole
    BY <1>1, <1>3, <1>6
  <2> QED
    BY <2>1, <2>2, <2>3, FailHolds
<1>7. CASE /\ ~(GlbChunkHeaderSize > Left) /\ ~(Word(at) > Left - GlbChunkHeaderSize)
           /\ Word(at + 4) = GlbMagicBinChunk
  <2>1. /\ Reads({at, at + 4}) /\ stage' = "returned" /\ result' = "success"
        /\ chunks' = [chunks EXCEPT !.bin = <<at + GlbChunkHeaderSize, Word(at)>>]
        /\ UNCHANGED <<content, file, type, json_length>>
    BY <1>7 DEF ParseBinChunk
  <2>2. \A o \in reads' : o + 4 <= file.size
    BY <1>1, <1>2, <1>7, <2>1 DEF Reads
  <2>3. /\ ChunksAre'
        /\ chunks'.json = <<GlbHeaderSize + GlbChunkHeaderSize, json_length>>
        /\ chunks'.bin = <<at + GlbChunkHeaderSize, Word(at)>>
    BY <1>1, <2>1 DEF ChunksAre
  <2>4. ChunksInside'
    BY <1>1, <1>7, <2>1, <2>2, <2>3 DEF ChunksInside
  <2>5. ASSUME Whole
        PROVE  HasBinChunk(content)
    BY <1>3, <1>7, <2>5
  <2>6. GlbComesBack'
    BY <1>1, <1>3, <2>1, <2>3, <2>5 DEF GlbComesBack
  <2> QED
    BY <2>1, <2>2, <2>3, <2>4, <2>6, ReturnHolds
<1> QED
  BY <1>4, <1>5, <1>6, <1>7

--------------------------------------------------------------------------------
(* The invariant is inductive.                                             *)
THEOREM Inductive == Spec => []IInv
<1>1. Init => IInv
  BY InitHolds
<1>2. ASSUME IInv, [Next]_vars
      PROVE  IInv'
  <2>1. CASE UNCHANGED vars
    <3>1. UNCHANGED <<stage, content, file, type, reads, json_length, chunks, result>>
      BY <2>1 DEF vars, fileVars
    <3> QED
      BY <1>2, <3>1 DEF IInv, FileOK, ChunksAre, Word, FromWriter, Checked, ChunksInside, GlbComesBack
  <2> QED
    BY <1>2, <2>1, OthersHold, WriteHolds, ForeignHolds, ParseHolds, TextHolds, HeaderHolds,
       JsonChunkHolds, BinChunkHolds DEF Next
<1> QED
  BY <1>1, <1>2, PTL DEF Spec

(* For a GLB with any words: cgltf_parse reads none behind the end of the  *)
(* file, and the text and the bin chunk of a document lie in it.  For one  *)
(* of cgltf_write_glb, whatever the sizes: they are what was written.      *)
THEOREM ContainersComeBack == Spec => []ContainerIsRight
<1>1. IInv => ContainerIsRight
  BY DEF IInv, ContainerIsRight
<1> QED
  BY <1>1, Inductive, PTL
================================================================================
