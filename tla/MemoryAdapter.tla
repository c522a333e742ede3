--------------------------- MODULE MemoryAdapter ---------------------------
(***************************************************************************)
(* src/src/memory.zig: cgltf's allocations routed through a                *)
(* std.mem.Allocator.  cgltf frees a bare pointer; a Zig allocator wants   *)
(* the slice back.  The adapter puts a header in front of every block, the *)
(* total length in it, and gives cgltf the address after the header.       *)
(*                                                                         *)
(* Three parties act on the state:                                         *)
(*   - the allocator (external), which owns `blocks`: the slices it has    *)
(*     lent.  It is free to choose any aligned place that is not lent, or  *)
(*     to fail.  A free of something else than a lent slice corrupts it;   *)
(*   - the adapter, zigAlloc and zigFree;                                  *)
(*   - cgltf, which holds `handed` and may write every byte of a region it *)
(*     holds, at any time.                                                 *)
(*                                                                         *)
(* A document is parsed either through the adapter or on the C allocator,  *)
(* and freeThrough (memory.zig) and allocThrough (file.zig) pick the path  *)
(* from the options: `hooked` says which, and never changes.               *)
(***************************************************************************)
EXTENDS Integers

CONSTANTS
  HeaderSize,   (* header_size                                             *)
  Alignment,    (* alignment, in bytes                                     *)
  WordSize,     (* @sizeOf(usize): the bytes of the header that are used   *)
  MaxSize,      (* the largest usize                                       *)
  HeapEnd,      (* the last address the allocator can lend                 *)
  Sizes         (* the sizes the library asks for                          *)

(* The two comptime assertions of memory.zig, and what a usize is.         *)
ASSUME MemoryAssumption ==
  /\ HeaderSize \in Nat /\ Alignment \in Nat \ {0} /\ WordSize \in Nat \ {0}
  /\ MaxSize \in Nat /\ HeapEnd \in Nat /\ HeapEnd < MaxSize
  /\ Sizes \subseteq 0 .. MaxSize
  /\ \E k \in 0 .. HeaderSize : HeaderSize = k * Alignment
  /\ HeaderSize >= WordSize

VARIABLES
  hooked,       (* the options carry the adapter's hooks                   *)
  blocks,       (* the slices the allocator has lent: records [base, len]  *)
  word,         (* the usize stored at an address, or Garbage              *)
  handed,       (* the regions cgltf holds: records [ptr, size]            *)
  corrupt       (* the allocator was given back a slice it had not lent    *)

vars == << hooked, blocks, word, handed, corrupt >>

(* The adapter is an implementation of malloc and free.                    *)
M == INSTANCE Malloc WITH live <- handed

Addr    == 0 .. HeapEnd
Garbage == -1

Slice(b)  == b.base .. (b.base + b.len - 1)
Region(r) == r.ptr .. (r.ptr + r.size - 1)

(* The word at `a` shares a byte with the addresses in S.                  *)
Touches(a, S) == (a .. (a + WordSize - 1)) \cap S # {}

(* Memory after the bytes in S have been overwritten with anything else.   *)
Scribbled(S) == [a \in Addr |-> IF Touches(a, S) THEN Garbage ELSE word[a]]

(* Where alignedAlloc(u8, alignment, total) can put a block: aligned, not  *)
(* at address 0, inside the heap, disjoint from every lent slice, and not  *)
(* at the address of one (a block of no byte is still a block).            *)
Places(total) ==
  { b \in Addr :
      /\ b > 0 /\ M!Aligned(b)
      /\ b + total <= HeapEnd + 1
      /\ \A lent \in blocks :
           /\ lent.base # b
           /\ Slice(lent) \cap Slice([base |-> b, len |-> total]) = {} }

(* allocator.free(base[0..len]).                                           *)
GiveBack(base, len) ==
  LET slice == [base |-> base, len |-> len] IN
  /\ blocks'  = blocks \ {slice}
  /\ word'    = Scribbled(Slice(slice))
  /\ corrupt' = (corrupt \/ slice \notin blocks)

-----------------------------------------------------------------------------
Init ==
  /\ hooked \in BOOLEAN
  /\ blocks = {}
  /\ word = [a \in Addr |-> Garbage]
  /\ handed = {}
  /\ corrupt = FALSE

(* A mutant: the pointer handed out is the block's base.                   *)
zigAllocNoOffset(size) ==
  \E b \in Places(size + HeaderSize) :
    /\ hooked /\ size + HeaderSize <= MaxSize
    /\ blocks' = blocks \cup {[base |-> b, len |-> size + HeaderSize]}
    /\ word'   = [Scribbled(b .. (b + size + HeaderSize - 1)) EXCEPT ![b] = size + HeaderSize]
    /\ handed' = handed \cup {[ptr |-> b, size |-> size]}
    /\ UNCHANGED << hooked, corrupt >>

(* A mutant: the header holds the requested size, not the total.           *)
zigAllocStoresSize(size) ==
  \E b \in Places(size + HeaderSize) :
    /\ hooked /\ size + HeaderSize <= MaxSize
    /\ blocks' = blocks \cup {[base |-> b, len |-> size + HeaderSize]}
    /\ word'   = [Scribbled(b .. (b + size + HeaderSize - 1)) EXCEPT ![b] = size]
    /\ handed' = handed \cup {[ptr |-> b + HeaderSize, size |-> size]}
    /\ UNCHANGED << hooked, corrupt >>

(* A mutant: the addition wraps instead of failing.                        *)
zigAllocWraps(size) ==
  LET total == (size + HeaderSize) % (MaxSize + 1) IN
  \E b \in Places(total) :
    /\ hooked
    /\ blocks' = blocks \cup {[base |-> b, len |-> total]}
    /\ word'   = [Scribbled(b .. (b + total - 1)) EXCEPT ![b] = total]
    /\ handed' = handed \cup {[ptr |-> b + HeaderSize, size |-> size]}
    /\ UNCHANGED << hooked, corrupt >>

(* zigAlloc.  An addition that overflows and a failing allocator both      *)
(* return null and change nothing.                                         *)
zigAlloc(size) ==
  LET total == size + HeaderSize IN
  /\ hooked
  /\ total <= MaxSize
  /\ \E b \in Places(total) :
       /\ blocks' = blocks \cup {[base |-> b, len |-> total]}
       /\ word'   = [Scribbled(b .. (b + total - 1)) EXCEPT ![b] = total]
       /\ handed' = handed \cup {[ptr |-> b + HeaderSize, size |-> size]}
  /\ UNCHANGED << hooked, corrupt >>

(* malloc, for options without hooks.                                      *)
cAlloc(size) ==
  /\ ~hooked
  /\ \E b \in Places(size) :
       /\ blocks' = blocks \cup {[base |-> b, len |-> size]}
       /\ word'   = Scribbled(b .. (b + size - 1))
       /\ handed' = handed \cup {[ptr |-> b, size |-> size]}
  /\ UNCHANGED << hooked, corrupt >>

(* alloc_func or malloc, picked from the options.                          *)
allocThrough(size) == zigAlloc(size) \/ cAlloc(size)

(* A mutant: the size cgltf asked for may be given back instead of the     *)
(* total.                                                                  *)
zigFreeAnyLength(r) ==
  /\ hooked
  /\ \E len \in {word[r.ptr - HeaderSize], r.size} :
       GiveBack(r.ptr - HeaderSize, len)
  /\ handed' = handed \ {r}
  /\ UNCHANGED hooked

(* zigFree: the base is found in front of the pointer, the length in the   *)
(* header; nothing else is known of the block.  A null pointer returns.    *)
zigFree(r) ==
  /\ hooked
  /\ GiveBack(r.ptr - HeaderSize, word[r.ptr - HeaderSize])
  /\ handed' = handed \ {r}
  /\ UNCHANGED hooked

(* std.c.free: the C allocator knows the length of its own block.          *)
cFree(r) ==
  /\ ~hooked
  /\ GiveBack(r.ptr, r.size)
  /\ handed' = handed \ {r}
  /\ UNCHANGED hooked

freeThrough(r) == zigFree(r) \/ cFree(r)

(* cgltf writes one byte of a region it holds.                             *)
UserWrite(r, a) ==
  /\ word' = Scribbled({a})
  /\ UNCHANGED << hooked, blocks, handed, corrupt >>

Next ==
  \/ \E size \in Sizes : allocThrough(size)
  \/ \E r \in handed : freeThrough(r)
  \/ \E r \in handed : \E a \in Region(r) \cap Addr : UserWrite(r, a)

Spec == Init /\ [][Next]_vars

-----------------------------------------------------------------------------
(* The slice behind a region: with the adapter, a header in front of it.   *)
BlockOf(r) ==
  IF hooked THEN [base |-> r.ptr - HeaderSize, len |-> r.size + HeaderSize]
            ELSE [base |-> r.ptr, len |-> r.size]

(* Every variable has its type, and every block lies inside the heap.      *)
TypeOK ==
  /\ hooked \in BOOLEAN
  /\ corrupt \in BOOLEAN
  /\ word \in [Addr -> Int]
  /\ handed \subseteq [ptr : Nat, size : Nat]
  /\ \A r \in handed : /\ BlockOf(r).base \in Addr \ {0}
                       /\ BlockOf(r).base + BlockOf(r).len <= HeapEnd + 1

(* What the allocator has lent is what cgltf holds, block for region:      *)
(* zigFree has given back the whole of every block cgltf has freed (base   *)
(* and length), and zigAlloc keeps no block that cgltf was not given.      *)
LentIsHanded == blocks = { BlockOf(r) : r \in handed }

(* The length zigFree will read is the length that was allocated, whatever *)
(* cgltf has written into its regions since zigAlloc stored it.            *)
HeaderIntact ==
  hooked => \A r \in handed : word[r.ptr - HeaderSize] = r.size + HeaderSize

(* Two regions cgltf holds never share a byte, headers included.           *)
Apart ==
  \A r, s \in handed : r # s =>
    /\ BlockOf(r).base # BlockOf(s).base
    /\ Slice(BlockOf(r)) \cap Slice(BlockOf(s)) = {}

(* The allocator never gets back a slice it has not lent: allocator.free   *)
(* of zigFree always names a live block, by its base and its full length.  *)
NoBadFree == ~corrupt

(* Whatever the allocator and cgltf do, cgltf sees malloc and free: fresh, *)
(* aligned regions that share no byte with another, until they are freed.  *)
MallocContract == M!Spec
=============================================================================
