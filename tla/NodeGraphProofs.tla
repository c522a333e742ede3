---------------------------- MODULE NodeGraphProofs ----------------------------
(***************************************************************************)
(* That the fixup builds a hierarchy whose two directions agree and whose  *)
(* scenes lead to no cycle, and that cgltf_validate's verdict on cycles is *)
(* right in both ways, for every number of nodes.                          *)
(*                                                                         *)
(* The two halves of the verdict rest on sets that walking up cannot       *)
(* leave.  Success: p1 and p2 stay in every trap the node is in, so a loop *)
(* that ends at NULL shows there is none.  Cycle: p2 stays above p1 (in    *)
(* every set that holds p1's parent and is closed upwards), so a node p1   *)
(* and p2 share is above itself, and the nodes below it are a trap.        *)
(***************************************************************************)
EXTENDS NodeGraph, TLAPS

UpClosed(S) == \A m \in S : parent[m] # NULL => parent[m] \in S

(* a is a proper ancestor of n.                                            *)
Above(a, n) ==
  /\ parent[n] # NULL
  /\ \A S \in SUBSET Nodes : parent[n] \in S /\ UpClosed(S) => a \in S

RootsHaveNoParent == \A k \in DOMAIN roots : parent[roots[k]] = NULL

Fixing ==
  /\ pc = "fix_nodes" => roots = << >>
  /\ pc \in {"fix_nodes", "fix_scenes"} => ~edited /\ verdict = "none"
  /\ ~edited => RootsHaveNoParent

(* No node before the i-th is in a trap.                                   *)
PassedNodes ==
  pc \in {"cycles", "floyd"} =>
    \A C \in SUBSET Nodes : Trap(C) => \A n \in C : i <= n

Pointers ==
  pc = "floyd" =>
    /\ i \in Nodes
    /\ \A C \in SUBSET Nodes : Trap(C) /\ i \in C => p1 \in C /\ p2 \in C
    /\ p1 # NULL /\ p2 # NULL => Above(p2, p1)

PassedRoots ==
  pc = "scenes" =>
    /\ Acyclic
    /\ i > 0
    /\ \A k \in DOMAIN roots : k < i => parent[roots[k]] = NULL

IInv ==
  TypeOK /\ Hierarchy /\ Fixing /\ PassedNodes /\ Pointers /\ PassedRoots
    /\ ValidateIsRight

--------------------------------------------------------------------------------

(* Two pointers that agree are a cycle: a node above itself is in a trap,  *)
(* the set of the nodes it is above.                                       *)
LEMMA AboveItself ==
  ASSUME NodeAssumption, parent \in [Nodes -> Nodes \cup {NULL}],
         NEW x \in Nodes, Above(x, x)
  PROVE  ~Acyclic
<1> DEFINE C == {m \in Nodes : Above(x, m)}
<1>1. x \in C
  OBVIOUS
<1>2. ASSUME NEW m \in C PROVE parent[m] \in C
  <2> DEFINE q == parent[m]
  <2>1. q \in Nodes
    BY DEF Above, NULL
  <2>2. CASE q = x
    BY <2>2, <1>1
  <2>3. CASE q # x
    <3>1. parent[q] # NULL
      <4> SUFFICES ASSUME parent[q] = NULL PROVE FALSE
        OBVIOUS
      <4>1. {q} \in SUBSET Nodes /\ UpClosed({q}) /\ parent[m] \in {q}
        BY <2>1 DEF UpClosed
      <4>2. x \in {q}
        BY <4>1 DEF Above
      <4> QED BY <4>2, <2>3
    <3>2. ASSUME NEW S \in SUBSET Nodes, parent[q] \in S, UpClosed(S) PROVE x \in S
      <4>1. S \cup {q} \in SUBSET Nodes /\ UpClosed(S \cup {q}) /\ parent[m] \in S \cup {q}
        BY <2>1, <3>2 DEF UpClosed
      <4>2. x \in S \cup {q}
        BY <4>1 DEF Above
      <4> QED BY <4>2, <2>3
    <3>3. Above(x, q)
      BY <3>1, <3>2 DEF Above
    <3> QED BY <3>3, <2>1
  <2> QED BY <2>2, <2>3
<1>3. C \in SUBSET Nodes /\ Trap(C) /\ C # {}
  BY <1>1, <1>2 DEF Trap
<1> QED BY <1>3 DEF Acyclic

(* One step of the loop keeps p2 above p1.                                 *)
LEMMA AboveSteps ==
  ASSUME NodeAssumption, parent \in [Nodes -> Nodes \cup {NULL}],
         NEW a \in Nodes, NEW n \in Nodes, Above(a, n),
         parent[a] # NULL, parent[parent[a]] # NULL
  PROVE  parent[n] \in Nodes /\ Above(parent[parent[a]], parent[n])
<1> DEFINE q == parent[n]
<1>1. q \in Nodes
  BY DEF Above, NULL
<1>2. parent[q] # NULL
  <2> SUFFICES ASSUME parent[q] = NULL PROVE FALSE
    OBVIOUS
  <2>1. {q} \in SUBSET Nodes /\ UpClosed({q}) /\ parent[n] \in {q}
    BY <1>1 DEF UpClosed
  <2>2. a \in {q}
    BY <2>1 DEF Above
  <2> QED BY <2>2
<1>3. ASSUME NEW S \in SUBSET Nodes, parent[q] \in S, UpClosed(S)
      PROVE  parent[parent[a]] \in S
  <2> DEFINE T == {m \in Nodes : parent[m] # NULL => parent[m] \in S}
  <2>1. T \in SUBSET Nodes /\ q \in T
    BY <1>1, <1>3
  <2>2. UpClosed(T)
    BY <1>3 DEF UpClosed, NULL
  <2>3. a \in T
    BY <2>1, <2>2 DEF Above
  <2>4. parent[a] \in S
    BY <2>3
  <2> QED BY <2>4, <1>3 DEF UpClosed
<1> QED BY <1>1, <1>2, <1>3 DEF Above

(* A file's hierarchy leads from no scene to a cycle: outside a trap are   *)
(* all the roots, and every child of a node outside it.                    *)
LEMMA HierarchyReachesNoCycle ==
  ASSUME NodeAssumption, TypeOK, Hierarchy, Fixing
  PROVE  ScenesReachNoCycle
<1> SUFFICES ASSUME ~edited, NEW C \in SUBSET Nodes, Trap(C)
             PROVE  /\ \A k \in DOMAIN roots : roots[k] \notin C
                    /\ \A n \in Nodes \ C : \A k \in DOMAIN children[n] : children[n][k] \notin C
  BY DEF ScenesReachNoCycle
<1>0. NULL \notin C
  BY DEF Nodes, NULL
<1>1. ASSUME NEW k \in DOMAIN roots PROVE roots[k] \notin C
  <2>1. parent[roots[k]] = NULL
    BY DEF Fixing, RootsHaveNoParent
  <2> QED BY <2>1, <1>0 DEF Trap
<1>2. ASSUME NEW n \in Nodes \ C, NEW k \in DOMAIN children[n]
      PROVE  children[n][k] \notin C
  <2>1. parent[children[n][k]] = n
    BY DEF Hierarchy
  <2> QED BY <2>1 DEF Trap
<1> QED BY <1>1, <1>2

--------------------------------------------------------------------------------

(* The invariant holds of a document whose fixup has not begun.            *)
THEOREM InitIInv == Init => IInv
<1> SUFFICES ASSUME Init PROVE IInv
  OBVIOUS
<1> USE NodeAssumption DEF Init
<1>1. TypeOK
  <2>1. children \in [Nodes -> Seq(Nodes)] /\ roots \in Seq(Nodes)
    BY SMT
  <2>2. parent \in [Nodes -> Nodes \cup {NULL}] /\ i \in Nat
    BY SMT
  <2> QED BY <2>1, <2>2 DEF TypeOK, Loops, Verdicts
<1>2. Hierarchy /\ Fixing
  BY DEF Hierarchy, Fixing, RootsHaveNoParent, NULL
<1>3. PassedNodes /\ Pointers /\ PassedRoots /\ ValidateIsRight
  BY DEF PassedNodes, Pointers, PassedRoots, ValidateIsRight
<1> QED BY <1>1, <1>2, <1>3 DEF IInv

(* What a step that changes no part of the graph leaves as it was.         *)
LEMMA SameGraph ==
  ASSUME IInv, UNCHANGED graph
  PROVE  /\ Hierarchy'
         /\ Acyclic <=> Acyclic'
         /\ \A a, n : Above(a, n) => Above(a, n)'
         /\ RootsHaveNoParent => RootsHaveNoParent'
<1>1. Hierarchy'
  BY DEF IInv, Hierarchy, graph
<1>2. Acyclic <=> Acyclic'
  BY DEF Acyclic, Trap, graph
<1>3. \A a, n : Above(a, n) => Above(a, n)'
  BY DEF Above, UpClosed, graph
<1>4. RootsHaveNoParent => RootsHaveNoParent'
  BY DEF RootsHaveNoParent, graph
<1> QED BY <1>1, <1>2, <1>3, <1>4

(* A fixup that fails keeps the invariant.                                 *)
LEMMA FailsIInv == ASSUME IInv, FixupFails PROVE IInv'
<1> USE NodeAssumption DEF FixupFails
<1>1. TypeOK'
  BY DEF IInv, TypeOK, graph, Stops
<1>2. Hierarchy' /\ Fixing'
  BY SameGraph DEF IInv, Fixing, graph
<1>3. PassedNodes' /\ Pointers' /\ PassedRoots'
  BY DEF PassedNodes, Pointers, PassedRoots
<1>4. ValidateIsRight'
  BY SameGraph DEF IInv, ValidateIsRight, graph
<1> QED BY <1>1, <1>2, <1>3, <1>4 DEF IInv

(* A child that is accepted joins the hierarchy: it had no parent, so no   *)
(* list had it.                                                            *)
LEMMA ChildIInv ==
  ASSUME IInv, pc = "fix_nodes", i \in Nodes, NEW r \in Index, FixupChild(r)
  PROVE  IInv'
<1>1. CASE FixupFails
  BY <1>1, FailsIInv
<1>2. CASE ~FixupFails
  <2>1. /\ r \in Nodes /\ parent[r] = NULL
        /\ children' = [children EXCEPT ![i] = Append(@, r)]
        /\ parent' = [parent EXCEPT ![r] = i]
        /\ UNCHANGED << roots, pc, i, p1, p2, verdict, edited >>
    BY <1>2 DEF FixupChild, InRange
  <2>2. /\ children \in [Nodes -> Seq(Nodes)]
        /\ parent \in [Nodes -> Nodes \cup {NULL}]
    BY DEF IInv, TypeOK
  <2>3. TypeOK'
    BY <2>1, <2>2 DEF IInv, TypeOK
  <2>4. /\ ~edited /\ roots = << >> /\ verdict = "none"
    BY DEF IInv, Fixing
  <2>5. /\ \A n \in Nodes : \A k \in DOMAIN children[n] : parent[children[n][k]] = n
        /\ \A c \in Nodes : parent[c] # NULL =>
             \E k \in DOMAIN children[parent[c]] : children[parent[c]][k] = c
        /\ \A n \in Nodes : \A k, l \in DOMAIN children[n] :
             children[n][k] = children[n][l] => k = l
    BY <2>4 DEF IInv, Hierarchy
  <2>6. i # NULL
    BY DEF Nodes, NULL
  <2>7. \A n \in Nodes : \A k \in DOMAIN children[n] : children[n][k] # r
    BY <2>1, <2>5, <2>6 DEF Nodes, NULL
  <2>8. /\ Len(children'[i]) = Len(children[i]) + 1
        /\ DOMAIN children[i] = 1..Len(children[i])
        /\ DOMAIN children'[i] = 1..(Len(children[i]) + 1)
        /\ Len(children[i]) \in Nat
        /\ children'[i][Len(children[i]) + 1] = r
        /\ \A k \in DOMAIN children[i] : children'[i][k] = children[i][k]
    BY <2>1, <2>2
  <2>9. \A n \in Nodes : n # i => children'[n] = children[n]
    BY <2>1, <2>2
  <2>10. \A n \in Nodes : \A k \in DOMAIN children[n] :
           k \in DOMAIN children'[n] /\ children'[n][k] = children[n][k]
    BY <2>8, <2>9
  <2>11. \A n \in Nodes : \A k \in DOMAIN children'[n] :
           \/ k \in DOMAIN children[n] /\ children'[n][k] = children[n][k]
           \/ n = i /\ k = Len(children[i]) + 1 /\ children'[n][k] = r
    BY <2>8, <2>9
  <2>12. \A c \in Nodes : c # r => parent'[c] = parent[c]
    BY <2>1, <2>2
  <2>13. parent'[r] = i
    BY <2>1, <2>2
  <2>14. \A n \in Nodes : \A k \in DOMAIN children[n] : children[n][k] \in Nodes
    BY <2>2
  <2>15. \A n \in Nodes : \A k \in DOMAIN children'[n] : parent'[children'[n][k]] = n
    BY <2>5, <2>7, <2>11, <2>12, <2>13, <2>14
  <2>16. \A c \in Nodes : parent'[c] # NULL =>
           \E k \in DOMAIN children'[parent'[c]] : children'[parent'[c]][k] = c
    <3> SUFFICES ASSUME NEW c \in Nodes, parent'[c] # NULL
                 PROVE  \E k \in DOMAIN children'[parent'[c]] : children'[parent'[c]][k] = c
      OBVIOUS
    <3>1. CASE c = r
      <4>1. Len(children[i]) + 1 \in DOMAIN children'[i]
        BY <2>8
      <4> QED BY <3>1, <4>1, <2>8, <2>13
    <3>2. CASE c # r
      <4>1. parent'[c] = parent[c] /\ parent[c] \in Nodes
        BY <3>2, <2>12, <2>2
      <4>2. PICK k \in DOMAIN children[parent[c]] : children[parent[c]][k] = c
        BY <4>1, <2>5
      <4> QED BY <4>1, <4>2, <2>10
    <3> QED BY <3>1, <3>2
  <2>17. \A n \in Nodes : \A k, l \in DOMAIN children'[n] :
           children'[n][k] = children'[n][l] => k = l
    BY <2>5, <2>7, <2>11
  <2>18. Hierarchy'
    BY <2>15, <2>16, <2>17 DEF Hierarchy
  <2>19. Fixing'
    BY <2>1, <2>4 DEF Fixing, RootsHaveNoParent
  <2>20. PassedNodes' /\ Pointers' /\ PassedRoots'
    BY <2>1 DEF PassedNodes, Pointers, PassedRoots
  <2>21. ValidateIsRight'
    BY <2>1, <2>4 DEF ValidateIsRight
  <2> QED BY <2>3, <2>18, <2>19, <2>20, <2>21 DEF IInv
<1> QED BY <1>1, <1>2

(* The loop over the nodes keeps the invariant.                            *)
LEMMA FixupNodesIInv == ASSUME IInv, FixupNodes PROVE IInv'
<1> USE NodeAssumption
<1>1. ASSUME i \in Nodes, NEW r \in Index, FixupChild(r) PROVE IInv'
  BY <1>1, ChildIInv DEF FixupNodes
<1>2. CASE FixupFails
  BY <1>2, FailsIInv
<1>3. ASSUME UNCHANGED << graph, p1, p2, verdict >>, i' \in Nat,
             pc' \in {"fix_nodes", "fix_scenes"}
      PROVE  IInv'
  <2>1. TypeOK'
    BY <1>3 DEF IInv, TypeOK, graph, Loops
  <2>2. Hierarchy' /\ Fixing'
    BY <1>3, SameGraph DEF IInv, Fixing, FixupNodes, graph
  <2>3. PassedNodes' /\ Pointers' /\ PassedRoots'
    BY <1>3 DEF PassedNodes, Pointers, PassedRoots
  <2>4. ValidateIsRight'
    BY <1>3, SameGraph DEF IInv, ValidateIsRight, graph
  <2> QED BY <2>1, <2>2, <2>3, <2>4 DEF IInv
<1>4. i \in Nat
  BY DEF IInv, TypeOK
<1> QED BY <1>1, <1>2, <1>3, <1>4 DEF FixupNodes, FixupNextNode

(* The loop over the scenes keeps the invariant: a root has no parent, and *)
(* no parent is set any more.                                              *)
LEMMA FixupScenesIInv == ASSUME IInv, FixupScenes PROVE IInv'
<1> USE NodeAssumption
<1>1. CASE FixupFails
  BY <1>1, FailsIInv
<1>2. ASSUME pc' = "parsed", UNCHANGED << graph, i, p1, p2, verdict >> PROVE IInv'
  <2>1. TypeOK'
    BY <1>2 DEF IInv, TypeOK, graph, Stops
  <2>2. Hierarchy' /\ Fixing'
    BY <1>2, SameGraph DEF IInv, Fixing, graph
  <2>3. PassedNodes' /\ Pointers' /\ PassedRoots'
    BY <1>2 DEF PassedNodes, Pointers, PassedRoots
  <2>4. ValidateIsRight'
    BY <1>2, SameGraph DEF IInv, ValidateIsRight, graph
  <2> QED BY <2>1, <2>2, <2>3, <2>4 DEF IInv
<1>3. ASSUME NEW r \in Index, FixupRoot(r), ~FixupFails PROVE IInv'
  <2>1. /\ r \in Nodes /\ parent[r] = NULL
        /\ roots' = Append(roots, r)
        /\ UNCHANGED << children, parent, pc, i, p1, p2, verdict, edited >>
    BY <1>3 DEF FixupRoot, InRange
  <2>2. roots \in Seq(Nodes)
    BY DEF IInv, TypeOK
  <2>3. ~edited /\ verdict = "none" /\ pc = "fix_scenes" /\ RootsHaveNoParent
    BY DEF IInv, Fixing, FixupScenes
  <2>4. TypeOK'
    BY <2>1, <2>2 DEF IInv, TypeOK
  <2>5. Hierarchy'
    BY <2>1 DEF IInv, Hierarchy
  <2>6. RootsHaveNoParent'
    BY <2>1, <2>2, <2>3 DEF RootsHaveNoParent
  <2>7. Fixing'
    BY <2>1, <2>3, <2>6 DEF Fixing
  <2>8. PassedNodes' /\ Pointers' /\ PassedRoots'
    BY <2>1, <2>3 DEF PassedNodes, Pointers, PassedRoots
  <2>9. ValidateIsRight'
    BY <2>1, <2>3 DEF ValidateIsRight
  <2> QED BY <2>4, <2>5, <2>7, <2>8, <2>9 DEF IInv
<1> QED BY <1>1, <1>2, <1>3 DEF FixupScenes

--------------------------------------------------------------------------------

(* What a call of validate or a walk keeps, whatever it does: the graph is *)
(* as it was, and no fixup runs.                                           *)
LEMMA KeepsGraph ==
  ASSUME IInv, UNCHANGED graph, pc' \notin {"fix_nodes", "fix_scenes"}
  PROVE  Hierarchy' /\ Fixing'
BY SameGraph DEF IInv, Fixing, graph

(* Leaving validate keeps the invariant if the verdict is right.           *)
LEMMA ReturnIInv ==
  ASSUME IInv, NEW v \in Verdicts, Return(v),
         v = "success" => Acyclic /\ RootsHaveNoParent,
         v = "cycle" => ~Acyclic,
         v = "root_has_parent" => edited
  PROVE  IInv'
<1> USE DEF Return
<1>1. TypeOK'
  BY DEF IInv, TypeOK, graph, Stops
<1>2. Hierarchy' /\ Fixing'
  BY KeepsGraph
<1>3. PassedNodes' /\ Pointers' /\ PassedRoots'
  BY DEF PassedNodes, Pointers, PassedRoots
<1>4. ValidateIsRight'
  BY SameGraph DEF ValidateIsRight, RootsHaveNoParent, graph
<1> QED BY <1>1, <1>2, <1>3, <1>4 DEF IInv

(* No pointer in a trap is NULL, and following one stays in it.            *)
LEMMA TrapKeeps ==
  ASSUME NodeAssumption, parent \in [Nodes -> Nodes \cup {NULL}],
         NEW C \in SUBSET Nodes, Trap(C), NEW n \in C
  PROVE  n # NULL /\ parent[n] \in C /\ ParentOf(parent[n]) \in C
BY DEF Trap, ParentOf, Nodes, NULL

(* Calling validate keeps the invariant.                                   *)
LEMMA CallValidateIInv == ASSUME IInv, CallValidate PROVE IInv'
<1> USE NodeAssumption
<1>1. CASE Return("other")
  BY <1>1, ReturnIInv DEF Verdicts
<1>2. CASE ~Return("other")
  <2>1. /\ pc' = "cycles" /\ i' = 1 /\ verdict' = "none"
        /\ UNCHANGED << graph, p1, p2 >>
    BY <1>2 DEF CallValidate
  <2>2. TypeOK'
    BY <2>1 DEF IInv, TypeOK, graph, Loops, Verdicts
  <2>3. Hierarchy' /\ Fixing'
    BY <2>1, KeepsGraph
  <2>4. PassedNodes'
    BY <2>1 DEF PassedNodes, Nodes
  <2>5. Pointers' /\ PassedRoots' /\ ValidateIsRight'
    BY <2>1 DEF Pointers, PassedRoots, ValidateIsRight
  <2> QED BY <2>2, <2>3, <2>4, <2>5 DEF IInv
<1> QED BY <1>1, <1>2

(* Setting the pointers up at a node, and leaving the loop over the nodes, *)
(* keep the invariant: when every node has been passed there is no trap.   *)
LEMMA ValidateNodeIInv == ASSUME IInv, ValidateNode PROVE IInv'
<1> USE NodeAssumption
<1>0. parent \in [Nodes -> Nodes \cup {NULL}] /\ i \in Nat
  BY DEF IInv, TypeOK
<1>1. CASE i \in Nodes /\ Start
  <2> USE <1>1 DEF Start
  <2>1. p1' \in Nodes \cup {NULL} /\ p2' \in Nodes \cup {NULL}
    BY <1>0 DEF ParentOf
  <2>2. TypeOK'
    BY <2>1 DEF IInv, TypeOK, graph, Loops
  <2>3. Hierarchy' /\ Fixing'
    BY KeepsGraph
  <2>4. PassedNodes'
    BY DEF IInv, PassedNodes, ValidateNode, Trap, graph
  <2>5. ASSUME NEW C \in SUBSET Nodes, Trap(C), i \in C PROVE p1' \in C /\ p2' \in C
    BY <2>5, <1>0, TrapKeeps
  <2>6. p1' # NULL /\ p2' # NULL => Above(p2', p1')
    <3> SUFFICES ASSUME p1' # NULL, p2' # NULL PROVE Above(p2', p1')
      OBVIOUS
    <3>1. p2' = parent[p1']
      BY <1>0 DEF ParentOf
    <3> QED BY <3>1 DEF Above
  <2>7. Pointers'
    <3>1. (p1' # NULL /\ p2' # NULL) => Above(p2, p1)'
      BY <2>6 DEF Above, UpClosed, graph
    <3>2. \A C \in SUBSET Nodes : Trap(C)' <=> Trap(C)
      BY DEF Trap, graph
    <3> QED BY <3>1, <3>2, <2>5 DEF Pointers, Trap
  <2>8. PassedRoots' /\ ValidateIsRight'
    BY SameGraph DEF IInv, PassedRoots, ValidateIsRight, graph
  <2> QED BY <2>2, <2>3, <2>4, <2>7, <2>8 DEF IInv
<1>2. CASE ~(i \in Nodes /\ Start)
  <2>1. /\ i > N /\ pc' = "scenes" /\ i' = 1
        /\ UNCHANGED << graph, p1, p2, verdict >>
    BY <1>2 DEF ValidateNode
  <2>2. TypeOK'
    BY <2>1 DEF IInv, TypeOK, graph, Loops
  <2>3. Hierarchy' /\ Fixing'
    BY <2>1, KeepsGraph
  <2>4. PassedNodes' /\ Pointers'
    BY <2>1 DEF PassedNodes, Pointers
  <2>5. Acyclic
    <3> SUFFICES ASSUME NEW C \in SUBSET Nodes, Trap(C), NEW n \in C PROVE FALSE
      BY DEF Acyclic
    <3>1. i <= n
      BY DEF IInv, PassedNodes, ValidateNode
    <3>2. n \in 1..N
      BY DEF Nodes
    <3> QED BY <3>1, <3>2, <2>1, <1>0 DEF NodeAssumption
  <2>6. Acyclic'
    BY <2>1, <2>5, SameGraph
  <2>7. roots \in Seq(Nodes)
    BY DEF IInv, TypeOK
  <2>8. PassedRoots'
    BY <2>1, <2>6, <2>7 DEF PassedRoots, graph
  <2>9. ValidateIsRight'
    BY <2>1, SameGraph DEF IInv, ValidateIsRight, graph
  <2> QED BY <2>2, <2>3, <2>4, <2>8, <2>9 DEF IInv
<1> QED BY <1>1, <1>2

(* Floyd's loop keeps the invariant: pointers that meet show a cycle, and  *)
(* one that is NULL shows that the node is in no trap.                     *)
LEMMA FloydIInv == ASSUME IInv, Floyd PROVE IInv'
<1> USE NodeAssumption
<1>0. /\ parent \in [Nodes -> Nodes \cup {NULL}]
      /\ p1 \in Nodes \cup {NULL} /\ p2 \in Nodes \cup {NULL}
  BY DEF IInv, TypeOK
<1>1. /\ i \in Nodes
      /\ \A C \in SUBSET Nodes : Trap(C) /\ i \in C => p1 \in C /\ p2 \in C
      /\ p1 # NULL /\ p2 # NULL => Above(p2, p1)
  BY DEF IInv, Pointers, Floyd
<1>2. CASE p1 # NULL /\ p2 # NULL /\ p1 = p2 /\ Return("cycle")
  <2>1. ~Acyclic
    BY <1>0, <1>1, <1>2, AboveItself
  <2> QED BY <1>2, <2>1, ReturnIInv DEF Verdicts
<1>3. CASE p1 # NULL /\ p2 # NULL /\ p1 # p2 /\ Advance
  <2> USE <1>3 DEF Advance
  <2>1. p1' \in Nodes \cup {NULL} /\ p2' \in Nodes \cup {NULL}
    BY <1>0 DEF ParentOf
  <2>2. TypeOK'
    BY <2>1 DEF IInv, TypeOK, graph
  <2>3. pc' = "floyd"
    BY DEF Floyd
  <2>4. Hierarchy' /\ Fixing'
    BY <2>3, KeepsGraph
  <2>5. PassedNodes'
    BY DEF IInv, PassedNodes, Floyd, Trap, graph
  <2>6. ASSUME NEW C \in SUBSET Nodes, Trap(C), i \in C PROVE p1' \in C /\ p2' \in C
    BY <2>6, <1>0, <1>1, TrapKeeps
  <2>7. p1' # NULL /\ p2' # NULL => Above(p2', p1')
    <3> SUFFICES ASSUME p1' # NULL, p2' # NULL PROVE Above(p2', p1')
      OBVIOUS
    <3>1. parent[p2] # NULL /\ p2' = parent[parent[p2]]
      BY DEF ParentOf
    <3> QED BY <3>1, <1>0, <1>1, AboveSteps
  <2>8. Pointers'
    <3>1. (p1' # NULL /\ p2' # NULL) => Above(p2, p1)'
      BY <2>7 DEF Above, UpClosed, graph
    <3>2. \A C \in SUBSET Nodes : Trap(C)' <=> Trap(C)
      BY DEF Trap, graph
    <3> QED BY <3>1, <3>2, <2>6, <1>1 DEF Pointers, Trap
  <2>9. PassedRoots' /\ ValidateIsRight'
    BY <2>3, SameGraph DEF IInv, PassedRoots, ValidateIsRight, graph
  <2> QED BY <2>2, <2>4, <2>5, <2>8, <2>9 DEF IInv
<1>4. ASSUME p1 = NULL \/ p2 = NULL, pc' = "cycles", i' = i + 1,
             UNCHANGED << graph, p1, p2, verdict >>
      PROVE  IInv'
  <2> USE <1>4
  <2>1. TypeOK'
    BY DEF IInv, TypeOK, graph, Loops
  <2>2. Hierarchy' /\ Fixing'
    BY KeepsGraph
  <2>3. ASSUME NEW C \in SUBSET Nodes, Trap(C) PROVE i \notin C
    BY <2>3, <1>1 DEF Nodes, NULL
  <2>4. ASSUME NEW C \in SUBSET Nodes, Trap(C), NEW n \in C PROVE i' <= n
    <3>1. i <= n /\ i # n
      BY <2>3, <2>4 DEF IInv, PassedNodes, Floyd
    <3>2. i \in 1..N /\ n \in 1..N
      BY <1>1 DEF Nodes
    <3> QED BY <3>1, <3>2 DEF NodeAssumption
  <2>5. PassedNodes'
    BY <2>4 DEF PassedNodes, Trap, graph
  <2>6. Pointers' /\ PassedRoots' /\ ValidateIsRight'
    BY SameGraph DEF IInv, Pointers, PassedRoots, ValidateIsRight, graph
  <2> QED BY <2>1, <2>2, <2>5, <2>6 DEF IInv
<1> QED BY <1>2, <1>3, <1>4 DEF Floyd

(* The check of the scenes keeps the invariant: the roots of an unedited   *)
(* document pass it, and success is only reached past every root.          *)
LEMMA ValidateSceneIInv == ASSUME IInv, ValidateScene PROVE IInv'
<1> USE NodeAssumption
<1>0. roots \in Seq(Nodes) /\ i \in Nat /\ edited \in BOOLEAN
  BY DEF IInv, TypeOK
<1>1. /\ Acyclic /\ i > 0
      /\ \A k \in DOMAIN roots : k < i => parent[roots[k]] = NULL
  BY DEF IInv, PassedRoots, ValidateScene
<1>2. DOMAIN roots = 1..Len(roots) /\ Len(roots) \in Nat
  BY <1>0
<1>3. CASE i <= Len(roots) /\ parent[roots[i]] # NULL /\ Return("root_has_parent")
  <2>1. i \in DOMAIN roots
    BY <1>0, <1>1, <1>2, <1>3
  <2>2. edited
    BY <2>1, <1>3 DEF IInv, Fixing, RootsHaveNoParent
  <2> QED BY <1>3, <2>2, ReturnIInv DEF Verdicts
<1>4. CASE i <= Len(roots) /\ parent[roots[i]] = NULL
            /\ i' = i + 1 /\ UNCHANGED << graph, pc, p1, p2, verdict >>
  <2>1. TypeOK'
    BY <1>4 DEF IInv, TypeOK, graph
  <2>2. Hierarchy' /\ Fixing'
    BY <1>4, KeepsGraph DEF ValidateScene
  <2>3. PassedNodes' /\ Pointers'
    BY <1>4 DEF PassedNodes, Pointers, ValidateScene
  <2>4. i' > 0
    BY <1>4, <1>0
  <2>5. \A k \in DOMAIN roots : k < i' => k < i \/ k = i
    BY <1>4, <1>0, <1>2
  <2>6. \A k \in DOMAIN roots : k < i' => parent[roots[k]] = NULL
    BY <2>5, <1>1, <1>4
  <2>7. Acyclic'
    BY <1>1, <1>4, SameGraph
  <2>8. PassedRoots'
    BY <2>4, <2>6, <2>7, <1>4 DEF PassedRoots, graph
  <2>9. ValidateIsRight'
    BY <1>4, SameGraph DEF IInv, ValidateIsRight, graph
  <2> QED BY <2>1, <2>2, <2>3, <2>8, <2>9 DEF IInv
<1>5. ASSUME i > Len(roots), NEW v \in {"success", "other"}, Return(v) PROVE IInv'
  <2>1. \A k \in DOMAIN roots : k < i
    BY <1>0, <1>2, <1>5
  <2>2. RootsHaveNoParent
    BY <2>1, <1>1 DEF RootsHaveNoParent
  <2> QED BY <1>1, <1>5, <2>2, ReturnIInv DEF Verdicts
<1> QED BY <1>3, <1>4, <1>5 DEF ValidateScene

(* A walk reads parents and changes nothing.                               *)
LEMMA WalkIInv ==
  ASSUME IInv, Walk \/ \E n \in Nodes : CallWalk(n)
  PROVE  IInv'
<1> USE NodeAssumption
<1>1. /\ pc' \in {"walk", "parsed"} /\ p1' \in Nodes \cup {NULL}
      /\ UNCHANGED << graph, i, p2, verdict >>
  BY DEF Walk, CallWalk, IInv, TypeOK
<1>2. TypeOK'
  BY <1>1 DEF IInv, TypeOK, graph, Loops, Stops
<1>3. Hierarchy' /\ Fixing'
  BY <1>1, KeepsGraph
<1>4. PassedNodes' /\ Pointers' /\ PassedRoots'
  BY <1>1 DEF PassedNodes, Pointers, PassedRoots
<1>5. ValidateIsRight'
  BY <1>1, SameGraph DEF IInv, ValidateIsRight, graph
<1> QED BY <1>2, <1>3, <1>4, <1>5 DEF IInv

(* The user may give any node any parent: nothing is claimed of the        *)
(* hierarchy any more, and no verdict stands.                              *)
LEMMA UserIInv ==
  ASSUME IInv, NEW n \in Nodes, NEW p \in Nodes \cup {NULL}, UserSetsParent(n, p)
  PROVE  IInv'
<1> USE NodeAssumption DEF UserSetsParent
<1>1. TypeOK'
  BY DEF IInv, TypeOK, Verdicts
<1>2. Hierarchy' /\ Fixing'
  BY DEF Hierarchy, Fixing
<1>3. PassedNodes' /\ Pointers' /\ PassedRoots' /\ ValidateIsRight'
  BY DEF PassedNodes, Pointers, PassedRoots, ValidateIsRight
<1> QED BY <1>1, <1>2, <1>3 DEF IInv

(* Every step keeps the invariant.                                         *)
THEOREM StepIInv == IInv /\ [Next]_vars => IInv'
<1> SUFFICES ASSUME IInv, [Next]_vars PROVE IInv'
  OBVIOUS
<1>1. CASE FixupNodes
  BY <1>1, FixupNodesIInv
<1>2. CASE FixupScenes
  BY <1>2, FixupScenesIInv
<1>3. CASE ValidateNode
  BY <1>3, ValidateNodeIInv
<1>4. CASE Floyd
  BY <1>4, FloydIInv
<1>5. CASE ValidateScene
  BY <1>5, ValidateSceneIInv
<1>6. CASE CallValidate
  BY <1>6, CallValidateIInv
<1>7. CASE Walk \/ \E n \in Nodes : CallWalk(n)
  BY <1>7, WalkIInv
<1>8. ASSUME NEW n \in Nodes, NEW p \in Nodes \cup {NULL}, UserSetsParent(n, p)
      PROVE  IInv'
  BY <1>8, UserIInv
<1>9. CASE UNCHANGED vars
  <2>1. UNCHANGED << graph, pc, i, p1, p2, verdict >>
    BY <1>9 DEF vars, graph
  <2>2. TypeOK'
    BY <2>1 DEF IInv, TypeOK, graph
  <2>3. Hierarchy' /\ Fixing'
    BY <2>1, SameGraph DEF IInv, Fixing, graph
  <2>4. PassedNodes' /\ Pointers' /\ PassedRoots'
    <3>1. PassedNodes'
      BY <2>1 DEF IInv, PassedNodes, Trap, graph
    <3>2. Pointers'
      BY <2>1 DEF IInv, Pointers, Above, UpClosed, Trap, graph
    <3>3. PassedRoots'
      BY <2>1, SameGraph DEF IInv, PassedRoots, graph
    <3> QED BY <3>1, <3>2, <3>3
  <2>5. ValidateIsRight'
    BY <2>1, SameGraph DEF IInv, ValidateIsRight, graph
  <2> QED BY <2>2, <2>3, <2>4, <2>5 DEF IInv
<1> QED BY <1>1, <1>2, <1>3, <1>4, <1>5, <1>6, <1>7, <1>8, <1>9 DEF Next, Library, User

(* The inductive invariant holds.                                          *)
LEMMA Invariant == Spec => []IInv
BY InitIInv, StepIInv, PTL DEF Spec

(* Every variable has its type.                                            *)
THEOREM NodeTypes == Spec => []TypeOK
<1>1. IInv => TypeOK
  BY DEF IInv
<1> QED BY Invariant, <1>1, PTL

(* The lists of children and the parents cgltf_fixup_pointers sets agree,  *)
(* for every number of nodes and every file.                               *)
THEOREM HierarchyAgrees == Spec => []Hierarchy
<1>1. IInv => Hierarchy
  BY DEF IInv
<1> QED BY Invariant, <1>1, PTL

(* The scenes of a parsed document lead to no cycle, validated or not.     *)
THEOREM ScenesAreTrees == Spec => []ScenesReachNoCycle
<1>1. IInv => ScenesReachNoCycle
  BY HierarchyReachesNoCycle, NodeAssumption DEF IInv
<1> QED BY Invariant, <1>1, PTL

(* cgltf_validate finds a cycle of parents if and only if there is one: it *)
(* succeeds only without, and reports only what is there.                  *)
THEOREM VerdictIsRight == Spec => []ValidateIsRight
<1>1. IInv => ValidateIsRight
  BY DEF IInv
<1> QED BY Invariant, <1>1, PTL

================================================================================
