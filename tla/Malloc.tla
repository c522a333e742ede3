------------------------------- MODULE Malloc -------------------------------
(***************************************************************************)
(* What cgltf expects of the two function pointers of                      *)
(* cgltf_memory_options (src/libs/cgltf/cgltf.h, alloc_func and            *)
(* free_func): malloc and free.  alloc_func returns null or a pointer to a *)
(* region of the requested size that no other live region overlaps;        *)
(* free_func ends the region of a pointer that is live, or is given null   *)
(* and does nothing.                                                       *)
(*                                                                         *)
(* MemoryAdapter shows that src/src/memory.zig keeps this promise on top   *)
(* of a std.mem.Allocator, whose free wants the length back.               *)
(***************************************************************************)
EXTENDS Integers

CONSTANTS
  MaxSize,    (* the largest cgltf_size (size_t)                           *)
  Alignment   (* what malloc aligns every pointer to                       *)

VARIABLES
  live        (* the regions the library holds: records [ptr, size]        *)

(* The addresses a region occupies.  An empty region occupies none.        *)
Region(r) == r.ptr .. (r.ptr + r.size - 1)

(* `a` is a multiple of the alignment.                                     *)
Aligned(a) == \E k \in 0 .. a : a = k * Alignment

Init == live = {}

(* alloc_func(user, size) returned ptr, which is not null.                 *)
Alloc(size, ptr) ==
  LET r == [ptr |-> ptr, size |-> size] IN
  /\ ptr > 0
  /\ Aligned(ptr)
  /\ \A other \in live :
       /\ other.ptr # ptr
       /\ Region(other) \cap Region(r) = {}
  /\ live' = live \cup {r}

(* free_func(user, ptr) of a live pointer.                                 *)
Free(r) ==
  /\ r \in live
  /\ live' = live \ {r}

Next ==
  \/ \E size, ptr \in 0 .. MaxSize : Alloc(size, ptr)
  \/ \E r \in live : Free(r)

Spec == Init /\ [][Next]_live

=============================================================================
