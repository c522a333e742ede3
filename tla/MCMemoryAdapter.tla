-------------------------- MODULE MCMemoryAdapter --------------------------
(***************************************************************************)
(* MemoryAdapter on a heap of thirteen bytes with a header of two: room    *)
(* for six empty blocks, or two of three bytes.  Size 13 is refused by the *)
(* allocator, sizes 16 and 17 by the addition (the largest usize is 17).   *)
(***************************************************************************)
EXTENDS MemoryAdapter

MCSizes == {0, 1, 3, 13, 16, 17}
=============================================================================
