------------------------ MODULE MemoryAdapterProofs ------------------------
(***************************************************************************)
(* The adapter of src/src/memory.zig is correct for every header size,     *)
(* alignment, word size and heap that its two comptime assertions allow.   *)
(*                                                                         *)
(* None of TypeOK, LentIsHanded, HeaderIntact, Apart and NoBadFree is      *)
(* inductive alone: zigFree gives back the right slice because the header  *)
(* is intact, the header is intact because regions are apart, regions are  *)
(* apart because a new block avoids the lent slices and those are exactly  *)
(* the blocks behind the regions.  Their conjunction is.                   *)
(***************************************************************************)
EXTENDS MemoryAdapter, TLAPS

IInv == TypeOK /\ LentIsHanded /\ HeaderIntact /\ Apart /\ NoBadFree

(* Writing the bytes in S spoils no word that does not overlap them.       *)
LEMMA ScribbledElsewhere ==
  ASSUME NEW S, NEW a \in Addr, ~Touches(a, S)
  PROVE  Scribbled(S)[a] = word[a]
BY DEF Scribbled

(* Writing bytes leaves a heap of headers that are lengths or spoilt.       *)
LEMMA ScribbledType ==
  ASSUME NEW S, word \in [Addr -> Int]
  PROVE  Scribbled(S) \in [Addr -> Int]
BY DEF Scribbled, Garbage

(* The word of a header lies inside its block.                             *)
LEMMA HeaderInBlock ==
  ASSUME NEW r \in handed, TypeOK, hooked
  PROVE  /\ r.ptr - HeaderSize \in Addr
         /\ r.ptr - HeaderSize = BlockOf(r).base
         /\ \A i \in (r.ptr - HeaderSize) .. (r.ptr - HeaderSize + WordSize - 1) :
              i \in Slice(BlockOf(r)) /\ i \notin Region(r)
<1>1. BlockOf(r) = [base |-> r.ptr - HeaderSize, len |-> r.size + HeaderSize]
  BY DEF BlockOf
<1>2. r.ptr \in Nat /\ r.size \in Nat
  BY DEF TypeOK
<1>3. HeaderSize \in Nat /\ WordSize \in Nat /\ HeaderSize >= WordSize
  BY MemoryAssumption
<1>4. r.ptr - HeaderSize \in Addr
  BY <1>1 DEF TypeOK
<1>. QED
  BY <1>1, <1>2, <1>3, <1>4 DEF Slice, Region

(* A header is spoilt only by a write into its own block.                  *)
LEMMA HeaderKept ==
  ASSUME NEW r \in handed, TypeOK, hooked, NEW S,
         S \cap Slice(BlockOf(r)) = {}
  PROVE  Scribbled(S)[r.ptr - HeaderSize] = word[r.ptr - HeaderSize]
BY HeaderInBlock, ScribbledElsewhere DEF Touches

(* The invariant holds of an empty heap.                                   *)
THEOREM InitIInv == Init => IInv
<1> SUFFICES ASSUME Init PROVE IInv
  OBVIOUS
<1>1. TypeOK
  <2>1. word \in [Addr -> Int]
    BY DEF Init, Garbage
  <2>2. hooked \in BOOLEAN /\ corrupt \in BOOLEAN
    BY DEF Init
  <2>. QED
    BY <2>1, <2>2 DEF Init, TypeOK
<1>2. LentIsHanded /\ HeaderIntact /\ Apart /\ NoBadFree
  BY DEF Init, LentIsHanded, HeaderIntact, Apart, NoBadFree
<1>. QED
  BY <1>1, <1>2 DEF IInv

(* The step of a new region n whose block avoids every lent slice, and     *)
(* that writes no byte of another block.                                   *)
LEMMA GrowIInv ==
  ASSUME IInv, NEW n \in [ptr : Nat, size : Nat],
         hooked' = hooked, corrupt' = corrupt,
         blocks' = blocks \cup {BlockOf(n)},
         handed' = handed \cup {n},
         BlockOf(n).base \in Addr \ {0},
         BlockOf(n).base + BlockOf(n).len <= HeapEnd + 1,
         \A lent \in blocks : /\ lent.base # BlockOf(n).base
                              /\ Slice(lent) \cap Slice(BlockOf(n)) = {},
         word' \in [Addr -> Int],
         hooked => word'[n.ptr - HeaderSize] = n.size + HeaderSize,
         hooked => \A r \in handed :
           word'[r.ptr - HeaderSize] = word[r.ptr - HeaderSize]
  PROVE  IInv'
<1>0. \A r : BlockOf(r)' = BlockOf(r)
  BY DEF BlockOf
<1>1. TypeOK'
  BY <1>0 DEF IInv, TypeOK
<1>2. LentIsHanded'
  BY <1>0 DEF IInv, LentIsHanded
<1>3. HeaderIntact'
  BY DEF IInv, HeaderIntact
<1>4. Apart'
  <2>1. \A r \in handed : BlockOf(r) \in blocks
    BY DEF IInv, LentIsHanded
  <2>2. \A b : Slice(b)' = Slice(b)
    BY DEF Slice
  <2>. QED
    BY <1>0, <2>1, <2>2 DEF IInv, Apart
<1>5. NoBadFree'
  BY DEF IInv, NoBadFree
<1>. QED
  BY <1>1, <1>2, <1>3, <1>4, <1>5 DEF IInv

(* zigAlloc keeps the invariant: it fails, or grows the heap by a block.   *)
LEMMA zigAllocIInv ==
  ASSUME IInv, NEW size \in Sizes, zigAlloc(size)
  PROVE  IInv'
<1> DEFINE total == size + HeaderSize
<1>1. size \in Nat /\ total \in Nat
  BY MemoryAssumption
<1>2. PICK b \in Places(total) :
        /\ blocks' = blocks \cup {[base |-> b, len |-> total]}
        /\ word'   = [Scribbled(b .. (b + total - 1)) EXCEPT ![b] = total]
        /\ handed' = handed \cup {[ptr |-> b + HeaderSize, size |-> size]}
  BY DEF zigAlloc
<1> DEFINE n == [ptr |-> b + HeaderSize, size |-> size]
<1>3. b \in Addr \ {0} /\ b \in Nat
  BY <1>2, MemoryAssumption DEF Places, Addr
<1>4. hooked /\ hooked' = hooked /\ corrupt' = corrupt
  BY DEF zigAlloc
<1>5. n \in [ptr : Nat, size : Nat] /\ BlockOf(n) = [base |-> b, len |-> total]
  BY <1>1, <1>3, <1>4, MemoryAssumption DEF BlockOf
<1>6. \A lent \in blocks : /\ lent.base # b
                           /\ Slice(lent) \cap Slice(BlockOf(n)) = {}
  BY <1>2, <1>5 DEF Places
<1>7. b + total <= HeapEnd + 1
  BY <1>2 DEF Places
<1>8. word' \in [Addr -> Int] /\ word'[b] = total
  BY <1>1, <1>2, <1>3, ScribbledType DEF IInv, TypeOK
<1>9. ASSUME NEW r \in handed
      PROVE  word'[r.ptr - HeaderSize] = word[r.ptr - HeaderSize]
  <2>1. Slice(BlockOf(r)) \cap (b .. (b + total - 1)) = {} /\ BlockOf(r).base # b
    BY <1>5, <1>6 DEF IInv, LentIsHanded, Slice
  <2>2. Scribbled(b .. (b + total - 1))[r.ptr - HeaderSize] = word[r.ptr - HeaderSize]
    BY <1>4, <2>1, HeaderKept DEF IInv
  <2>3. r.ptr - HeaderSize # b /\ r.ptr - HeaderSize \in Addr
    BY <1>4, <2>1, HeaderInBlock DEF IInv
  <2>. QED
    BY <1>2, <2>2, <2>3, ScribbledType DEF IInv, TypeOK
<1>. QED
  BY <1>2, <1>3, <1>4, <1>5, <1>6, <1>7, <1>8, <1>9, GrowIInv, MemoryAssumption

(* So does the C allocator, whose block has no header.                     *)
LEMMA cAllocIInv ==
  ASSUME IInv, NEW size \in Sizes, cAlloc(size)
  PROVE  IInv'
<1>1. size \in Nat
  BY MemoryAssumption
<1>2. PICK b \in Places(size) :
        /\ blocks' = blocks \cup {[base |-> b, len |-> size]}
        /\ word'   = Scribbled(b .. (b + size - 1))
        /\ handed' = handed \cup {[ptr |-> b, size |-> size]}
  BY DEF cAlloc
<1> DEFINE n == [ptr |-> b, size |-> size]
<1>3. b \in Addr \ {0} /\ b \in Nat
  BY <1>2, MemoryAssumption DEF Places, Addr
<1>4. ~hooked /\ hooked' = hooked /\ corrupt' = corrupt
  BY DEF cAlloc
<1>5. n \in [ptr : Nat, size : Nat] /\ BlockOf(n) = [base |-> b, len |-> size]
  BY <1>1, <1>3, <1>4 DEF BlockOf
<1>6. \A lent \in blocks : /\ lent.base # b
                           /\ Slice(lent) \cap Slice(BlockOf(n)) = {}
  BY <1>2, <1>5 DEF Places
<1>7. b + size <= HeapEnd + 1
  BY <1>2 DEF Places
<1>8. word' \in [Addr -> Int]
  BY <1>2, ScribbledType DEF IInv, TypeOK
<1>. QED
  BY <1>2, <1>3, <1>4, <1>5, <1>6, <1>7, <1>8, GrowIInv

(* The step that gives back exactly the block behind r.                    *)
LEMMA ShrinkIInv ==
  ASSUME IInv, NEW r \in handed,
         GiveBack(BlockOf(r).base, BlockOf(r).len),
         handed' = handed \ {r}, hooked' = hooked
  PROVE  IInv'
<1>0. \A s : BlockOf(s)' = BlockOf(s)
  BY DEF BlockOf
<1>1. BlockOf(r) = [base |-> BlockOf(r).base, len |-> BlockOf(r).len]
  BY DEF BlockOf
<1>2. BlockOf(r) \in blocks /\ blocks' = blocks \ {BlockOf(r)} /\ ~corrupt'
      /\ word' = Scribbled(Slice(BlockOf(r)))
  BY <1>1 DEF GiveBack, IInv, LentIsHanded, NoBadFree
<1>3. TypeOK'
  <2>1. corrupt' = FALSE /\ corrupt' \in BOOLEAN
    BY <1>2 DEF GiveBack
  <2>2. word' \in [Addr -> Int]
    BY <1>2, ScribbledType DEF IInv, TypeOK
  <2>3. \A s \in handed' : /\ BlockOf(s)'.base \in Addr \ {0}
                           /\ BlockOf(s)'.base + BlockOf(s)'.len <= HeapEnd + 1
    BY <1>0 DEF IInv, TypeOK
  <2>. QED
    BY <2>1, <2>2, <2>3 DEF IInv, TypeOK
<1>4. LentIsHanded'
  BY <1>0, <1>2 DEF IInv, LentIsHanded, Apart
<1>5. HeaderIntact'
  <2> SUFFICES ASSUME hooked, NEW s \in handed, s # r
               PROVE  word'[s.ptr - HeaderSize] = s.size + HeaderSize
    BY DEF HeaderIntact
  <2>1. Slice(BlockOf(r)) \cap Slice(BlockOf(s)) = {}
    BY DEF IInv, Apart
  <2>. QED
    BY <1>2, <2>1, HeaderKept DEF IInv, HeaderIntact
<1>6. Apart'
  <2>1. \A b : Slice(b)' = Slice(b)
    BY DEF Slice
  <2>. QED
    BY <1>0, <2>1 DEF IInv, Apart
<1>7. NoBadFree'
  BY <1>2 DEF NoBadFree
<1>. QED
  BY <1>3, <1>4, <1>5, <1>6, <1>7 DEF IInv

(* A free through the hooks keeps the invariant: it gives one block back.  *)
LEMMA freeThroughIInv ==
  ASSUME IInv, NEW r \in handed, freeThrough(r)
  PROVE  IInv'
<1>1. CASE zigFree(r)
  <2>1. hooked /\ word[r.ptr - HeaderSize] = BlockOf(r).len
        /\ r.ptr - HeaderSize = BlockOf(r).base
    BY <1>1 DEF zigFree, IInv, HeaderIntact, BlockOf
  <2>. QED
    BY <1>1, <2>1, ShrinkIInv DEF zigFree
<1>2. CASE cFree(r)
  <2>1. r.size = BlockOf(r).len /\ r.ptr = BlockOf(r).base
    BY <1>2 DEF cFree, BlockOf
  <2>. QED
    BY <1>2, <2>1, ShrinkIInv DEF cFree
<1>. QED
  BY <1>1, <1>2 DEF freeThrough

(* A write of cgltf into a region it holds reaches no header.              *)
LEMMA UserWriteIInv ==
  ASSUME IInv, NEW r \in handed, NEW a \in Region(r) \cap Addr, UserWrite(r, a)
  PROVE  IInv'
<1>0. /\ \A s : BlockOf(s)' = BlockOf(s)
      /\ \A b : Slice(b)' = Slice(b)
      /\ UNCHANGED << hooked, blocks, handed, corrupt >>
      /\ word' = Scribbled({a})
  BY DEF BlockOf, Slice, UserWrite
<1>1. TypeOK'
  BY <1>0, ScribbledType DEF IInv, TypeOK
<1>2. LentIsHanded' /\ Apart' /\ NoBadFree'
  BY <1>0 DEF IInv, LentIsHanded, Apart, NoBadFree
<1>3. HeaderIntact'
  <2> SUFFICES ASSUME hooked, NEW s \in handed
               PROVE  Scribbled({a})[s.ptr - HeaderSize] = word[s.ptr - HeaderSize]
    BY <1>0 DEF HeaderIntact, IInv
  <2>1. CASE s = r
    <3>1. ~Touches(r.ptr - HeaderSize, {a})
      BY HeaderInBlock DEF Touches, IInv
    <3>. QED
      BY <2>1, <3>1, HeaderInBlock, ScribbledElsewhere DEF IInv
  <2>2. CASE s # r
    <3>1. a \in Slice(BlockOf(r))
      <4>1. BlockOf(r) = [base |-> r.ptr - HeaderSize, len |-> r.size + HeaderSize]
        BY DEF BlockOf
      <4>2. r.ptr \in Nat /\ r.size \in Nat /\ HeaderSize \in Nat
        BY MemoryAssumption DEF IInv, TypeOK
      <4>. QED
        BY <4>1, <4>2 DEF Region, Slice
    <3>2. {a} \cap Slice(BlockOf(s)) = {}
      BY <2>2, <3>1 DEF IInv, Apart
    <3>. QED
      BY <3>2, HeaderKept DEF IInv
  <2>. QED
    BY <2>1, <2>2
<1>. QED
  BY <1>1, <1>2, <1>3 DEF IInv

(* Every step of the adapter, the allocator and cgltf keeps the invariant. *)
THEOREM StepIInv == IInv /\ [Next]_vars => IInv'
<1> SUFFICES ASSUME IInv, [Next]_vars
             PROVE  IInv'
  OBVIOUS
<1>1. ASSUME NEW size \in Sizes, allocThrough(size)
      PROVE  IInv'
  BY <1>1, zigAllocIInv, cAllocIInv DEF allocThrough
<1>2. ASSUME NEW r \in handed, freeThrough(r)
      PROVE  IInv'
  BY <1>2, freeThroughIInv
<1>3. ASSUME NEW r \in handed, NEW a \in Region(r) \cap Addr, UserWrite(r, a)
      PROVE  IInv'
  BY <1>3, UserWriteIInv
<1>4. CASE UNCHANGED vars
  BY <1>4 DEF vars, IInv, TypeOK, LentIsHanded, HeaderIntact, Apart, NoBadFree,
     BlockOf, Slice
<1>. QED
  BY <1>1, <1>2, <1>3, <1>4 DEF Next

(* Types, and the heap layout, of the adapter over a Zig allocator.        *)
THEOREM TypeCorrect == Spec => []TypeOK
BY InitIInv, StepIInv, PTL DEF Spec, IInv

(* The header zigFree reads is the one zigAlloc wrote.                     *)
THEOREM HeaderStaysIntact == Spec => []HeaderIntact
BY InitIInv, StepIInv, PTL DEF Spec, IInv

(* zigFree never gives the allocator anything but a block it lent, whole.  *)
THEOREM FreeIsExact == Spec => []NoBadFree
BY InitIInv, StepIInv, PTL DEF Spec, IInv

(* What the allocator has lent is what stands behind the regions cgltf     *)
(* holds, header included: no slice is forgotten and none is held twice.   *)
THEOREM LentStaysHanded == Spec => []LentIsHanded
BY InitIInv, StepIInv, PTL DEF Spec, IInv

-----------------------------------------------------------------------------
(* An aligned address plus the header is aligned: the reason for the first *)
(* comptime assertion of memory.zig.                                       *)
LEMMA AlignedAfterHeader ==
  ASSUME NEW b \in Nat, M!Aligned(b)
  PROVE  M!Aligned(b + HeaderSize)
<1>1. PICK i \in 0 .. b : b = i * Alignment
  BY DEF M!Aligned
<1>2. PICK j \in 0 .. HeaderSize : HeaderSize = j * Alignment
  BY MemoryAssumption
<1>3. i + j \in 0 .. (b + HeaderSize)
  BY MemoryAssumption
<1>4. b + HeaderSize = (i + j) * Alignment
  BY <1>1, <1>2, MemoryAssumption
<1>. QED
  BY <1>3, <1>4 DEF M!Aligned

(* A region lies inside its block and does not start at null.              *)
LEMMA RegionInBlock ==
  ASSUME TypeOK, NEW r \in handed
  PROVE  Region(r) \subseteq Slice(BlockOf(r))
<1>1. r.ptr \in Nat /\ r.size \in Nat /\ HeaderSize \in Nat
  BY MemoryAssumption DEF TypeOK
<1>. QED
  BY <1>1 DEF Region, Slice, BlockOf

(* A new region whose block is aligned and avoids the lent slices is what  *)
(* malloc may return.                                                      *)
LEMMA GrowIsAlloc ==
  ASSUME IInv, IInv', NEW n \in [ptr : 0 .. MaxSize, size : 0 .. MaxSize],
         n \notin handed, n.ptr > 0, M!Aligned(n.ptr), hooked' = hooked,
         handed' = handed \cup {n}
  PROVE  M!Next
<1>0. \A r : BlockOf(r)' = BlockOf(r)
  BY DEF BlockOf
<1>1. ASSUME NEW r \in handed
      PROVE  r.ptr # n.ptr /\ Region(r) \cap Region(n) = {}
  <2>1. r \in handed' /\ n \in handed' /\ r # n
    OBVIOUS
  <2>2. /\ BlockOf(r).base # BlockOf(n).base
        /\ Slice(BlockOf(r)) \cap Slice(BlockOf(n)) = {}
    BY <1>0, <2>1 DEF IInv, Apart, Slice
  <2>3. Region(r) \subseteq Slice(BlockOf(r))
    BY RegionInBlock DEF IInv
  <2>4. Region(n) \subseteq Slice(BlockOf(n))
    <3>1. n.ptr \in Nat /\ n.size \in Nat /\ HeaderSize \in Nat
      BY MemoryAssumption
    <3>. QED
      BY <3>1 DEF Region, Slice, BlockOf
  <2>5. r.ptr # n.ptr
    BY <2>2 DEF BlockOf
  <2>. QED
    BY <2>2, <2>3, <2>4, <2>5
<1>2. n = [ptr |-> n.ptr, size |-> n.size]
  OBVIOUS
<1>3. M!Alloc(n.size, n.ptr)
  BY <1>1, <1>2 DEF M!Alloc, M!Region, Region
<1>. QED
  BY <1>3 DEF M!Next

(* A block that was placed clear of the lent slices was not handed before. *)
LEMMA FreshRegion ==
  ASSUME IInv, NEW n, \A lent \in blocks : lent.base # BlockOf(n).base
  PROVE  n \notin handed
BY DEF IInv, LentIsHanded

(* To cgltf zigAlloc is a malloc: null, or a fresh region of its size.     *)
LEMMA zigAllocIsAlloc ==
  ASSUME IInv, IInv', NEW size \in Sizes, zigAlloc(size)
  PROVE  M!Next
<1> DEFINE total == size + HeaderSize
<1>1. PICK b \in Places(total) :
        handed' = handed \cup {[ptr |-> b + HeaderSize, size |-> size]}
  BY DEF zigAlloc
<1> DEFINE n == [ptr |-> b + HeaderSize, size |-> size]
<1>2. /\ b \in Nat /\ b > 0 /\ M!Aligned(b) /\ b + total <= HeapEnd + 1
      /\ \A lent \in blocks : lent.base # b
  BY <1>1, MemoryAssumption DEF Places, Addr
<1>3. hooked /\ hooked' = hooked
  BY DEF zigAlloc
<1>4. size \in 0 .. MaxSize /\ HeaderSize \in Nat /\ MaxSize \in Nat
      /\ HeapEnd \in Nat /\ HeapEnd < MaxSize
  BY MemoryAssumption
<1>5. n \in [ptr : 0 .. MaxSize, size : 0 .. MaxSize] /\ n.ptr > 0
  BY <1>2, <1>4
<1>6. BlockOf(n).base = b
  BY <1>2, <1>3, <1>4 DEF BlockOf
<1>7. n \notin handed
  BY <1>2, <1>6, FreshRegion
<1>8. M!Aligned(n.ptr)
  BY <1>2, AlignedAfterHeader
<1>. QED
  BY <1>1, <1>3, <1>5, <1>7, <1>8, GrowIsAlloc

(* So is the C allocator.                                                  *)
LEMMA cAllocIsAlloc ==
  ASSUME IInv, IInv', NEW size \in Sizes, cAlloc(size)
  PROVE  M!Next
<1>1. PICK b \in Places(size) :
        handed' = handed \cup {[ptr |-> b, size |-> size]}
  BY DEF cAlloc
<1> DEFINE n == [ptr |-> b, size |-> size]
<1>2. /\ b \in Nat /\ b > 0 /\ M!Aligned(b) /\ b \in Addr
      /\ \A lent \in blocks : lent.base # b
  BY <1>1, MemoryAssumption DEF Places, Addr
<1>3. ~hooked /\ hooked' = hooked
  BY DEF cAlloc
<1>4. n \in [ptr : 0 .. MaxSize, size : 0 .. MaxSize] /\ n.ptr > 0
  BY <1>2, MemoryAssumption DEF Addr
<1>5. BlockOf(n).base = b
  BY <1>3 DEF BlockOf
<1>6. n \notin handed
  BY <1>2, <1>5, FreshRegion
<1>. QED
  BY <1>1, <1>2, <1>3, <1>4, <1>6, GrowIsAlloc

(* Every step is a malloc, a free, or invisible to cgltf's view.           *)
LEMMA StepIsContract == IInv /\ IInv' /\ [Next]_vars => [M!Next]_handed
<1> SUFFICES ASSUME IInv, IInv', [Next]_vars
             PROVE  [M!Next]_handed
  OBVIOUS
<1>1. ASSUME NEW size \in Sizes, allocThrough(size)
      PROVE  M!Next
  BY <1>1, zigAllocIsAlloc, cAllocIsAlloc DEF allocThrough
<1>2. ASSUME NEW r \in handed, freeThrough(r)
      PROVE  M!Next
  BY <1>2 DEF freeThrough, zigFree, cFree, M!Next, M!Free
<1>3. ASSUME NEW r \in handed, NEW a \in Region(r) \cap Addr, UserWrite(r, a)
      PROVE  UNCHANGED handed
  BY <1>3 DEF UserWrite
<1>. QED
  BY <1>1, <1>2, <1>3 DEF Next, vars

(* cgltf sees malloc and free, whatever the allocator chooses.             *)
THEOREM ImplementsMalloc == Spec => MallocContract
<1>1. Init => M!Init
  BY DEF Init, M!Init
<1>. QED
  BY <1>1, InitIInv, StepIInv, StepIsContract, PTL DEF Spec, MallocContract, M!Spec

=============================================================================
