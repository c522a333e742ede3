------------------------------- MODULE NodeGraph -------------------------------
(***************************************************************************)
(* The node hierarchy of a document: how cgltf_fixup_pointers turns the    *)
(* indices of "children" and of the scenes into pointers and sets every    *)
(* node's parent, what cgltf_validate then says of the parents, and the    *)
(* walk cgltf_node_transform_world makes along them (src/libs/cgltf/       *)
(* cgltf.h, behind validate and nodeTransformWorld of src/src).            *)
(*                                                                         *)
(* Nodes are 1..N in the order of the JSON array and NULL is the null      *)
(* pointer, which is also how the parser stores an index it cannot use     *)
(* (CGLTF_PTRINDEX of -1).  The indices of a file are chosen one by one as *)
(* the fixup reads them, so `children` and `roots` hold the entries that   *)
(* are pointers already.  All the scenes are one list of roots.  The rest  *)
(* of a document is one choice: the checks before and after these may fail.*)
(***************************************************************************)
EXTENDS Integers, Sequences

CONSTANTS
  N,            (* how many nodes the document has                         *)
  MaxRoots      (* how many entries the scenes have together, at most      *)

ASSUME NodeAssumption == N \in Nat /\ MaxRoots \in Nat

NULL  == 0
Nodes == 1..N
Index == 0..(N + 1)     (* N + 1 stands for every index that is too large  *)

VARIABLES
  children,     (* node -> its children, resolved so far                   *)
  parent,       (* node -> its parent                                      *)
  roots,        (* the nodes of the scenes, resolved so far                *)
  pc,           (* the loop the running call is in                         *)
  i,            (* the node or root the loop is at                         *)
  p1, p2,       (* cgltf_validate's two pointers, or the walk's one        *)
  verdict,      (* what the last validate said, and why                    *)
  edited        (* the user has set a parent by hand                       *)

vars == << children, parent, roots, pc, i, p1, p2, verdict, edited >>

graph == << children, parent, roots, edited >>

Verdicts == {"none", "success", "cycle", "root_has_parent", "other"}
Loops    == {"fix_nodes", "fix_scenes", "cycles", "floyd", "scenes", "walk"}
Stops    == {"parsed", "gone"}

(* node->parent, where the code guards the pointer it follows.             *)
ParentOf(n) == IF n = NULL THEN NULL ELSE parent[n]

Init ==
  /\ children = [n \in Nodes |-> <<>>] /\ parent = [n \in Nodes |-> NULL]
  /\ roots = <<>> /\ edited = FALSE
  /\ pc = "fix_nodes" /\ i = 1 /\ p1 = NULL /\ p2 = NULL
  /\ verdict = "none"

(***************************************************************************)
(* cgltf_fixup_pointers.  Any error frees the document.                    *)
(***************************************************************************)

FixupFails ==
  /\ pc' = "gone"
  /\ UNCHANGED << graph, i, p1, p2, verdict >>

(* CGLTF_PTRFIXUP_REQ: an entry must be there and in range.                *)
InRange(r) == r \in Nodes

(* A mutant: a node listed twice keeps its first parent in place of an     *)
(* error.                                                                  *)
FixupChildTwice(r) ==
  \/ ~InRange(r) /\ FixupFails
  \/ /\ InRange(r)
     /\ children' = [children EXCEPT ![i] = Append(@, r)]
     /\ parent' = IF parent[r] = NULL THEN [parent EXCEPT ![r] = i] ELSE parent
     /\ UNCHANGED << roots, pc, i, p1, p2, verdict, edited >>

(* One entry of nodes[i].children: it becomes a pointer, and the child's   *)
(* parent is set unless it has one.                                        *)
FixupChild(r) ==
  \/ /\ \/ ~InRange(r)
        \/ InRange(r) /\ parent[r] # NULL
     /\ FixupFails
  \/ /\ InRange(r) /\ parent[r] = NULL
     /\ children' = [children EXCEPT ![i] = Append(@, r)]
     /\ parent' = [parent EXCEPT ![r] = i]
     /\ UNCHANGED << roots, pc, i, p1, p2, verdict, edited >>

(* The children of nodes[i] are done: its mesh, skin, camera, light and    *)
(* instancing attributes are fixed up, or one of them is out of range.     *)
FixupNextNode ==
  \/ /\ i' = i + 1
     /\ pc' = IF i = N THEN "fix_scenes" ELSE pc
     /\ UNCHANGED << graph, p1, p2, verdict >>
  \/ FixupFails

FixupNodes ==
  /\ pc = "fix_nodes"
  /\ \/ i \in Nodes /\ \E r \in Index : FixupChild(r)
     \/ i \in Nodes /\ FixupNextNode
     \/ /\ i > N     (* only when there are no nodes at all                *)
        /\ pc' = "fix_scenes"
        /\ UNCHANGED << graph, i, p1, p2, verdict >>

(* A mutant: the range of a root is not checked.                           *)
FixupRootUnchecked(r) ==
  /\ r # NULL
  /\ InRange(r) => parent[r] = NULL
  /\ roots' = Append(roots, r)
  /\ UNCHANGED << children, parent, pc, i, p1, p2, verdict, edited >>

(* A mutant: a scene may list any node.                                    *)
FixupRootAny(r) ==
  \/ ~InRange(r) /\ FixupFails
  \/ /\ InRange(r)
     /\ roots' = Append(roots, r)
     /\ UNCHANGED << children, parent, pc, i, p1, p2, verdict, edited >>

(* One entry of a scene's nodes: in range, and without a parent.           *)
FixupRoot(r) ==
  \/ /\ \/ ~InRange(r)
        \/ InRange(r) /\ parent[r] # NULL
     /\ FixupFails
  \/ /\ InRange(r) /\ parent[r] = NULL
     /\ roots' = Append(roots, r)
     /\ UNCHANGED << children, parent, pc, i, p1, p2, verdict, edited >>

(* The scenes are done: then data->scene and the animations, which may     *)
(* still fail, and the document is the caller's.                           *)
FixupScenes ==
  /\ pc = "fix_scenes"
  /\ \/ Len(roots) < MaxRoots /\ \E r \in Index : FixupRoot(r)
     \/ pc' = "parsed" /\ UNCHANGED << graph, i, p1, p2, verdict >>
     \/ FixupFails

(***************************************************************************)
(* cgltf_validate.                                                         *)
(***************************************************************************)

Return(v) ==
  /\ pc' = "parsed" /\ verdict' = v
  /\ UNCHANGED << graph, i, p1, p2 >>

(* The accessors, buffer views, meshes and the nodes' own attributes come  *)
(* first, and may end the call.                                            *)
CallValidate ==
  /\ pc = "parsed"
  /\ \/ Return("other")
     \/ /\ pc' = "cycles" /\ i' = 1 /\ verdict' = "none"
        /\ UNCHANGED << graph, p1, p2 >>

(* A mutant: both pointers start at the parent.                            *)
StartTogether ==
  /\ p1' = parent[i] /\ p2' = parent[i]
  /\ pc' = "floyd"
  /\ UNCHANGED << graph, i, verdict >>

(* p1 starts at the node's parent and p2 at its grandparent.               *)
Start ==
  /\ p1' = parent[i] /\ p2' = ParentOf(parent[i])
  /\ pc' = "floyd"
  /\ UNCHANGED << graph, i, verdict >>

ValidateNode ==
  /\ pc = "cycles"
  /\ \/ i \in Nodes /\ Start
     \/ /\ i > N
        /\ pc' = "scenes" /\ i' = 1
        /\ UNCHANGED << graph, p1, p2, verdict >>

(* A mutant: p2 is no faster than p1.                                      *)
AdvanceBothByOne ==
  /\ p1' = parent[p1] /\ p2' = parent[p2]
  /\ UNCHANGED << graph, pc, i, verdict >>

Advance ==
  /\ p1' = parent[p1] /\ p2' = ParentOf(parent[p2])
  /\ UNCHANGED << graph, pc, i, verdict >>

(* while (p1 && p2): a node on a cycle, or below one, is where they meet.  *)
Floyd ==
  /\ pc = "floyd"
  /\ \/ p1 # NULL /\ p2 # NULL /\ p1 = p2 /\ Return("cycle")
     \/ p1 # NULL /\ p2 # NULL /\ p1 # p2 /\ Advance
     \/ /\ p1 = NULL \/ p2 = NULL
        /\ pc' = "cycles" /\ i' = i + 1
        /\ UNCHANGED << graph, p1, p2, verdict >>

(* The scenes once more, then the animations and the variants.             *)
ValidateScene ==
  /\ pc = "scenes"
  /\ \/ i <= Len(roots) /\ parent[roots[i]] # NULL /\ Return("root_has_parent")
     \/ /\ i <= Len(roots) /\ parent[roots[i]] = NULL
        /\ i' = i + 1
        /\ UNCHANGED << graph, pc, p1, p2, verdict >>
     \/ i > Len(roots) /\ \E v \in {"success", "other"} : Return(v)

(***************************************************************************)
(* cgltf_node_transform_world: from a node up to the root it hangs on.     *)
(***************************************************************************)

CallWalk(n) ==
  /\ pc = "parsed"
  /\ pc' = "walk" /\ p1' = parent[n]
  /\ UNCHANGED << graph, i, p2, verdict >>

Walk ==
  /\ pc = "walk"
  /\ \/ /\ p1 # NULL
        /\ p1' = parent[p1] /\ UNCHANGED pc
     \/ /\ p1 = NULL
        /\ pc' = "parsed" /\ UNCHANGED p1
  /\ UNCHANGED << graph, i, p2, verdict >>

(***************************************************************************)
(* The user, once: cgltf_data is the caller's to change, and validate says *)
(* nothing of a document changed since.                                    *)
(***************************************************************************)
UserSetsParent(n, p) ==
  /\ pc = "parsed" /\ ~edited
  /\ parent' = [parent EXCEPT ![n] = p]
  /\ edited' = TRUE /\ verdict' = "none"
  /\ UNCHANGED << children, roots, pc, i, p1, p2 >>

Library == FixupNodes \/ FixupScenes \/ ValidateNode \/ Floyd \/ ValidateScene \/ Walk

User ==
  \/ CallValidate
  \/ \E n \in Nodes : CallWalk(n)
  \/ \E n \in Nodes, p \in Nodes \cup {NULL} : UserSetsParent(n, p)

Next == Library \/ User

Spec == Init /\ [][Next]_vars

(* A call that has begun runs on: nothing in the library waits.  The lists *)
(* of a file are finite: in the model a node is accepted as a child once.  *)
Fairness == WF_vars(Library)

FairSpec == Spec /\ Fairness

--------------------------------------------------------------------------------

(* Every variable has its type.                                            *)
TypeOK ==
  /\ children \in [Nodes -> Seq(Nodes)]
  /\ parent \in [Nodes -> Nodes \cup {NULL}]
  /\ roots \in Seq(Nodes)
  /\ pc \in Loops \cup Stops
  /\ i \in Nat
  /\ p1 \in Nodes \cup {NULL} /\ p2 \in Nodes \cup {NULL}
  /\ verdict \in Verdicts
  /\ edited \in BOOLEAN

(* The two directions of the hierarchy agree, during the fixup and after   *)
(* it: every child names the node that lists it as its parent, every       *)
(* parent lists the child, and no node is listed twice, whatever the file  *)
(* says (the checks of 6754 and 6756).  A traversal by children and one by *)
(* parents see the same tree.                                              *)
Hierarchy ==
  ~edited =>
    /\ \A n \in Nodes : \A k \in DOMAIN children[n] : parent[children[n][k]] = n
    /\ \A c \in Nodes : parent[c] # NULL =>
         \E k \in DOMAIN children[parent[c]] : children[parent[c]][k] = c
    /\ \A n \in Nodes : \A k, l \in DOMAIN children[n] :
         children[n][k] = children[n][l] => k = l

(* A set of nodes that walking up never leaves: it holds a cycle.          *)
Trap(C) == \A n \in C : parent[n] \in C

Acyclic == \A C \in SUBSET Nodes : Trap(C) => C = {}

(* A parsed document may hold a cycle of nodes, but no scene leads to one: *)
(* no root is on a cycle or below one, and no child of a node that is not  *)
(* is either.  A traversal of the scenes ends without validate, because    *)
(* the roots are checked when every parent is set (6784).                  *)
ScenesReachNoCycle ==
  ~edited =>
    \A C \in SUBSET Nodes : Trap(C) =>
      /\ \A k \in DOMAIN roots : roots[k] \notin C
      /\ \A n \in Nodes \ C : \A k \in DOMAIN children[n] : children[n][k] \notin C

(* What validate says of the hierarchy is so: after success no node is on  *)
(* or below a cycle and no root has a parent, a cycle it reports is there, *)
(* and the roots of a document as it was parsed pass (1747-1768).          *)
ValidateIsRight ==
  /\ verdict = "success" => Acyclic /\ \A k \in DOMAIN roots : parent[roots[k]] = NULL
  /\ verdict = "cycle" => ~Acyclic
  /\ verdict = "root_has_parent" => edited

(* Every call returns: the parse, validate on any parents at all, and the  *)
(* walk to the root of a document validate accepted.                       *)
CallsReturn ==
  (pc \in Loops \ {"walk"} \/ (pc = "walk" /\ verdict = "success")) ~> (pc \in Stops)

================================================================================
