--------------------------- MODULE AccessorProofs ---------------------------
(***************************************************************************)
(* Proofs about the accessor readers, for documents of any numbers.        *)
(*                                                                         *)
(* Sound is the inductive invariant: what cgltf_validate has found to be   *)
(* so of a document stays so, as neither the readers nor the user change   *)
(* what it is about.  From it the elements of an accessor fit into their   *)
(* view, and those of its sparse part into theirs; so their addresses do   *)
(* not wrap, and each reader is shown to take what it hands out from the   *)
(* bytes of the elements it was asked for.                                 *)
(***************************************************************************)
EXTENDS Accessor, WellFoundedInduction, TLAPS

-----------------------------------------------------------------------------
(***************************************************************************)
(* Numbers.                                                                *)
(***************************************************************************)

\* Pairs of numbers in their order; a set of numbers that is not empty has a
\* smallest one.
Less == {pair \in Nat \X Nat : pair[1] < pair[2]}

LEMMA LessIsWellFounded == IsWellFoundedOn(Less, Nat)
  BY NatLessThanWellFounded, Zenon DEF OpToRel, Less

\* One of finitely many numbers is the largest.
LEMMA Largest ==
  ASSUME NEW n \in Nat, NEW S, S \subseteq 0 .. n - 1, S # {}
  PROVE  \E x \in S : \A y \in S : y <= x
<1> DEFINE T == {n - x : x \in S}
<1>1. T \subseteq Nat /\ T # {}
  OBVIOUS
<1>2. PICK t \in T : \A u \in T : <<u, t>> \notin Less
  BY <1>1, LessIsWellFounded, WFMin
<1>3. PICK x \in S : t = n - x
  OBVIOUS
<1>4. ASSUME NEW y \in S PROVE y <= x
  <2>1. n - y \in T /\ n - y \in Nat /\ t \in Nat /\ x \in Nat /\ y \in Nat
    BY <1>1
  <2>2. ASSUME n - y < t PROVE <<n - y, t>> \in Less
    BY <2>1, <2>2 DEF Less
  <2>3. ~(n - y < t)
    BY <2>1, <2>2, <1>2
  <2>4. QED
    BY <2>1, <2>3, <1>3
<1>5. QED
  BY <1>4

\* Below Usize nothing wraps, and what has wrapped does not wrap again.
LEMMA NoWrap == ASSUME NEW x \in Nat, x < Usize PROVE x % Usize = x
  BY UsizeAssumption

LEMMA Wrapped ==
  ASSUME NEW x \in Int
  PROVE  x % Usize \in 0 .. Usize - 1 /\ (x % Usize) % Usize = x % Usize
<1>1. x % Usize \in 0 .. Usize - 1
  BY UsizeAssumption
<1>2. QED
  BY <1>1, NoWrap, UsizeAssumption

\* A factor keeps the order.
LEMMA Factor ==
  ASSUME NEW c \in Nat, NEW x \in Nat, NEW y \in Nat, x <= y
  PROVE  c * x \in Nat /\ c * y \in Nat /\ c * x <= c * y
  OBVIOUS

LEMMA FactorBefore ==
  ASSUME NEW c \in Nat, NEW x \in Nat, NEW y \in Nat, x < y
  PROVE  /\ c * x \in Nat /\ c * (y - 1) \in Nat /\ c * y \in Nat
         /\ c * x <= c * (y - 1) /\ c * (y - 1) + c = c * y
<1>1. c * x <= c * (y - 1) /\ c * x \in Nat /\ c * (y - 1) \in Nat
  BY Factor
<1>2. c * (y - 1) + c = c * y /\ c * y \in Nat
  OBVIOUS
<1>3. QED
  BY <1>1, <1>2

-----------------------------------------------------------------------------
(***************************************************************************)
(* Sizes and layouts.                                                      *)
(***************************************************************************)

LEMMA SizesAreSmall ==
  ASSUME NEW type \in Types, NEW component_type \in ComponentTypes
  PROVE  /\ cgltf_num_components(type) \in {1, 2, 3, 4, 9, 16}
         /\ cgltf_component_size(component_type) \in {0, 1, 2, 4}
         /\ component_type # "invalid" => cgltf_component_size(component_type) \in {1, 2, 4}
         /\ cgltf_calc_size(type, component_type) \in Nat
<1>1. cgltf_num_components(type) \in {1, 2, 3, 4, 9, 16}
  BY DEF cgltf_num_components, Types
<1>2. /\ cgltf_component_size(component_type) \in {0, 1, 2, 4}
      /\ component_type # "invalid" => cgltf_component_size(component_type) \in {1, 2, 4}
  BY DEF cgltf_component_size, ComponentTypes
<1>3. cgltf_calc_size(type, component_type) \in Nat
  BY <1>1, <1>2 DEF cgltf_calc_size
<1>4. QED
  BY <1>1, <1>2, <1>3

\* A component lies in its element, where the layout puts it.
LEMMA ComponentsFit ==
  ASSUME NEW type \in Types, NEW component_type \in ComponentTypes,
         NEW k \in 0 .. cgltf_num_components(type) - 1
  PROVE  LET size   == cgltf_component_size(component_type)
             offset == ComponentOffset(type, size, k)
         IN  offset \in Nat /\ offset + size <= cgltf_calc_size(type, component_type)
<1> DEFINE size == cgltf_component_size(component_type)
<1>1. size \in {0, 1, 2, 4}
  BY SizesAreSmall
<1>2. CASE type = "mat2" /\ size = 1
  <2>1. k \in {0, 1, 2, 3}
    BY <1>2 DEF cgltf_num_components
  <2>2. cgltf_calc_size(type, component_type) = 8
    BY <1>2 DEF cgltf_calc_size
  <2>3. ComponentOffset(type, size, k) = <<0, 1, 4, 5>>[k + 1]
    BY <1>2 DEF ComponentOffset
  <2>4. QED
    BY <2>1, <2>2, <2>3, <1>2
<1>3. CASE type = "mat3" /\ size \in {1, 2}
  <2>1. k \in {0, 1, 2, 3, 4, 5, 6, 7, 8}
    BY <1>3 DEF cgltf_num_components
  <2>2. cgltf_calc_size(type, component_type) = 12 * size
    BY <1>3 DEF cgltf_calc_size
  <2>3. CASE size = 1
    <3>1. ComponentOffset(type, size, k) = <<0, 1, 2, 4, 5, 6, 8, 9, 10>>[k + 1]
      BY <1>3, <2>3 DEF ComponentOffset
    <3>2. QED
      BY <2>1, <2>2, <2>3, <3>1
  <2>4. CASE size = 2
    <3>1. ComponentOffset(type, size, k) = <<0, 2, 4, 8, 10, 12, 16, 18, 20>>[k + 1]
      BY <1>3, <2>4 DEF ComponentOffset
    <3>2. QED
      BY <2>1, <2>2, <2>4, <3>1
  <2>5. QED
    BY <1>3, <2>3, <2>4
<1>4. CASE ~(type = "mat2" /\ size = 1) /\ ~(type = "mat3" /\ size \in {1, 2})
  <2>1. cgltf_calc_size(type, component_type) = size * cgltf_num_components(type)
    BY <1>4 DEF cgltf_calc_size
  <2>2. ComponentOffset(type, size, k) = k * size
    BY <1>4 DEF ComponentOffset
  <2>3. cgltf_num_components(type) \in {1, 2, 3, 4, 9, 16}
    BY SizesAreSmall
  <2>4. QED
    BY <1>1, <2>1, <2>2, <2>3
<1>5. QED
  BY <1>2, <1>3, <1>4

\* A component of an element is a component of a whole element, none larger.
LEMMA ComponentIsNoLarger ==
  ASSUME NEW type \in Types, NEW component_type \in ComponentTypes
  PROVE  cgltf_component_size(component_type) <= cgltf_calc_size(type, component_type)
<1>1. /\ cgltf_num_components(type) \in {1, 2, 3, 4, 9, 16}
      /\ cgltf_component_size(component_type) \in {0, 1, 2, 4}
  BY SizesAreSmall
<1>2. QED
  BY <1>1 DEF cgltf_calc_size

\* Where a component of an element lies is where the layout of glTF puts it.
LEMMA ComponentsAreLaidOut ==
  ASSUME NEW type \in Types, NEW component_type \in ComponentTypes,
         component_type # "invalid", NEW k \in 0 .. cgltf_num_components(type) - 1
  PROVE  LET size == cgltf_component_size(component_type)
             rows == Rows(type)
         IN  ComponentOffset(type, size, k)
               = (k \div rows) * Aligned(rows * size) + (k % rows) * size
<1> DEFINE size == cgltf_component_size(component_type)
           Place == (k \div Rows(type)) * Aligned(Rows(type) * size) + (k % Rows(type)) * size
<1>1. size \in {1, 2, 4}
  BY SizesAreSmall
<1>2. CASE type = "mat2"
  <2>1. k \in {0, 1, 2, 3} /\ Rows(type) = 2
    BY <1>2 DEF cgltf_num_components, Rows
  <2>2. CASE size = 1
    <3>1. ComponentOffset(type, size, k) = <<0, 1, 4, 5>>[k + 1]
      BY <1>2, <2>2 DEF ComponentOffset
    <3>2. QED
      BY <2>1, <2>2, <3>1 DEF Aligned
  <2>3. CASE size \in {2, 4}
    <3>1. ComponentOffset(type, size, k) = k * size
      BY <1>2, <2>3 DEF ComponentOffset
    <3>2. QED
      BY <2>1, <2>3, <3>1 DEF Aligned
  <2>4. QED
    BY <1>1, <2>2, <2>3
<1>3. CASE type = "mat3"
  <2>1. k \in {0, 1, 2, 3, 4, 5, 6, 7, 8} /\ Rows(type) = 3
    BY <1>3 DEF cgltf_num_components, Rows
  <2>2. CASE size = 1
    <3>1. ComponentOffset(type, size, k) = <<0, 1, 2, 4, 5, 6, 8, 9, 10>>[k + 1]
      BY <1>3, <2>2 DEF ComponentOffset
    <3>2. QED
      BY <2>1, <2>2, <3>1 DEF Aligned
  <2>3. CASE size = 2
    <3>1. ComponentOffset(type, size, k) = <<0, 2, 4, 8, 10, 12, 16, 18, 20>>[k + 1]
      BY <1>3, <2>3 DEF ComponentOffset
    <3>2. QED
      BY <2>1, <2>3, <3>1 DEF Aligned
  <2>4. CASE size = 4
    <3>1. ComponentOffset(type, size, k) = k * size
      BY <1>3, <2>4 DEF ComponentOffset
    <3>2. QED
      BY <2>1, <2>4, <3>1 DEF Aligned
  <2>5. QED
    BY <1>1, <2>2, <2>3, <2>4
<1>4. CASE type = "mat4"
  <2>1. k \in {0, 1, 2, 3, 4, 5, 6, 7, 8, 9, 10, 11, 12, 13, 14, 15} /\ Rows(type) = 4
    BY <1>4 DEF cgltf_num_components, Rows
  <2>2. ComponentOffset(type, size, k) = k * size
    BY <1>4 DEF ComponentOffset
  <2>3. QED
    BY <1>1, <2>1, <2>2 DEF Aligned
<1>5. CASE type \notin {"mat2", "mat3", "mat4"}
  <2>1. /\ Rows(type) = cgltf_num_components(type)
        /\ ComponentOffset(type, size, k) = k * size
    BY <1>5 DEF Rows, ComponentOffset
  <2>2. cgltf_num_components(type) \in {1, 2, 3, 4, 9, 16}
    BY SizesAreSmall
  <2>3. k \div Rows(type) = 0 /\ k % Rows(type) = k
    BY <2>1, <2>2
  <2>4. Aligned(Rows(type) * size) \in Int
    BY <1>1, <2>1, <2>2 DEF Aligned
  <2>5. QED
    BY <1>1, <2>1, <2>2, <2>3, <2>4
<1>6. QED
  BY <1>2, <1>3, <1>4, <1>5

\* Component k of element e is the float at n * e + k, for elements of n floats.
LEMMA Places ==
  ASSUME NEW n \in {1, 2, 3, 4, 9, 16}
  PROVE  /\ \A p \in Nat : /\ p \div n \in Nat /\ p % n \in 0 .. n - 1
                          /\ (p % n) + (p \div n) * n = p
         /\ \A e \in Nat, k \in 0 .. n - 1 : /\ e * n + k \in Nat
                                             /\ (e * n + k) \div n = e
                                             /\ (e * n + k) % n = k
         /\ \A e \in Nat, p \in Nat : p \div n < e <=> p < e * n
         /\ \A e \in Nat, p \in Nat : p \in e * n .. e * n + n - 1 <=> p \div n = e
<1>1. CASE n = 1
  <2>1. \A p \in Nat : p \div 1 \in Nat /\ p % 1 \in 0 .. 1 - 1 /\ (p % 1) + (p \div 1) * 1 = p
    OBVIOUS
  <2>2. \A e \in Nat, k \in 0 .. 1 - 1 : /\ e * 1 + k \in Nat
                                       /\ (e * 1 + k) \div 1 = e
                                       /\ (e * 1 + k) % 1 = k
    OBVIOUS
  <2>3. \A e \in Nat, p \in Nat : p \div 1 < e <=> p < e * 1
    OBVIOUS
  <2>4. \A e \in Nat, p \in Nat : p \in e * 1 .. e * 1 + 1 - 1 <=> p \div 1 = e
    OBVIOUS
  <2>5. QED
    BY <1>1, <2>1, <2>2, <2>3, <2>4, Zenon
<1>2. CASE n = 2
  <2>1. \A p \in Nat : p \div 2 \in Nat /\ p % 2 \in 0 .. 2 - 1 /\ (p % 2) + (p \div 2) * 2 = p
    OBVIOUS
  <2>2. \A e \in Nat, k \in 0 .. 2 - 1 : /\ e * 2 + k \in Nat
                                       /\ (e * 2 + k) \div 2 = e
                                       /\ (e * 2 + k) % 2 = k
    OBVIOUS
  <2>3. \A e \in Nat, p \in Nat : p \div 2 < e <=> p < e * 2
    OBVIOUS
  <2>4. \A e \in Nat, p \in Nat : p \in e * 2 .. e * 2 + 2 - 1 <=> p \div 2 = e
    OBVIOUS
  <2>5. QED
    BY <1>2, <2>1, <2>2, <2>3, <2>4, Zenon
<1>3. CASE n = 3
  <2>1. \A p \in Nat : p \div 3 \in Nat /\ p % 3 \in 0 .. 3 - 1 /\ (p % 3) + (p \div 3) * 3 = p
    OBVIOUS
  <2>2. \A e \in Nat, k \in 0 .. 3 - 1 : /\ e * 3 + k \in Nat
                                       /\ (e * 3 + k) \div 3 = e
                                       /\ (e * 3 + k) % 3 = k
    OBVIOUS
  <2>3. \A e \in Nat, p \in Nat : p \div 3 < e <=> p < e * 3
    OBVIOUS
  <2>4. \A e \in Nat, p \in Nat : p \in e * 3 .. e * 3 + 3 - 1 <=> p \div 3 = e
    OBVIOUS
  <2>5. QED
    BY <1>3, <2>1, <2>2, <2>3, <2>4, Zenon
<1>4. CASE n = 4
  <2>1. \A p \in Nat : p \div 4 \in Nat /\ p % 4 \in 0 .. 4 - 1 /\ (p % 4) + (p \div 4) * 4 = p
    OBVIOUS
  <2>2. \A e \in Nat, k \in 0 .. 4 - 1 : /\ e * 4 + k \in Nat
                                       /\ (e * 4 + k) \div 4 = e
                                       /\ (e * 4 + k) % 4 = k
    OBVIOUS
  <2>3. \A e \in Nat, p \in Nat : p \div 4 < e <=> p < e * 4
    OBVIOUS
  <2>4. \A e \in Nat, p \in Nat : p \in e * 4 .. e * 4 + 4 - 1 <=> p \div 4 = e
    OBVIOUS
  <2>5. QED
    BY <1>4, <2>1, <2>2, <2>3, <2>4, Zenon
<1>5. CASE n = 9
  <2>1. \A p \in Nat : p \div 9 \in Nat /\ p % 9 \in 0 .. 9 - 1 /\ (p % 9) + (p \div 9) * 9 = p
    OBVIOUS
  <2>2. \A e \in Nat, k \in 0 .. 9 - 1 : /\ e * 9 + k \in Nat
                                       /\ (e * 9 + k) \div 9 = e
                                       /\ (e * 9 + k) % 9 = k
    OBVIOUS
  <2>3. \A e \in Nat, p \in Nat : p \div 9 < e <=> p < e * 9
    OBVIOUS
  <2>4. \A e \in Nat, p \in Nat : p \in e * 9 .. e * 9 + 9 - 1 <=> p \div 9 = e
    OBVIOUS
  <2>5. QED
    BY <1>5, <2>1, <2>2, <2>3, <2>4, Zenon
<1>6. CASE n = 16
  <2>1. \A p \in Nat : p \div 16 \in Nat /\ p % 16 \in 0 .. 16 - 1 /\ (p % 16) + (p \div 16) * 16 = p
    OBVIOUS
  <2>2. \A e \in Nat, k \in 0 .. 16 - 1 : /\ e * 16 + k \in Nat
                                       /\ (e * 16 + k) \div 16 = e
                                       /\ (e * 16 + k) % 16 = k
    OBVIOUS
  <2>3. \A e \in Nat, p \in Nat : p \div 16 < e <=> p < e * 16
    OBVIOUS
  <2>4. \A e \in Nat, p \in Nat : p \in e * 16 .. e * 16 + 16 - 1 <=> p \div 16 = e
    OBVIOUS
  <2>5. QED
    BY <1>6, <2>1, <2>2, <2>3, <2>4, Zenon
<1>7. QED
  BY <1>1, <1>2, <1>3, <1>4, <1>5, <1>6

LEMMA PlaceOfComponent ==
  ASSUME NEW n \in {1, 2, 3, 4, 9, 16}, NEW e \in Nat, NEW k \in 0 .. n - 1
  PROVE  /\ e * n + k \in Nat /\ (e * n + k) \div n = e /\ (e * n + k) % n = k
<1>1. CASE n = 1
  BY <1>1
<1>2. CASE n = 2
  BY <1>2
<1>3. CASE n = 3
  BY <1>3
<1>4. CASE n = 4
  BY <1>4
<1>5. CASE n = 9
  BY <1>5
<1>6. CASE n = 16
  BY <1>6
<1>7. QED
  BY <1>1, <1>2, <1>3, <1>4, <1>5, <1>6

-----------------------------------------------------------------------------
(***************************************************************************)
(* Documents.                                                              *)
(***************************************************************************)

\* The numbers of a document, and of what is computed from its types.
Numbers ==
    /\ \A a \in Accessors :
          /\ doc[a].type \in Types /\ doc[a].component_type \in ComponentTypes
          /\ doc[a].count \in Nat /\ doc[a].offset \in Nat /\ doc[a].has_view \in BOOLEAN
          /\ num_components(a) \in {1, 2, 3, 4, 9, 16}
          /\ component_size(a) \in {0, 1, 2, 4} /\ element_size(a) \in Nat
    /\ doc.is_sparse \in BOOLEAN
    /\ sparse.count \in Nat /\ sparse.indices_component_type \in ComponentTypes
    /\ sparse.indices_byte_offset \in Nat /\ sparse.values_byte_offset \in Nat
    /\ indices_size \in {0, 1, 2, 4}
    /\ \A v \in Views :
          /\ doc.view[v].offset \in Nat /\ doc.view[v].size \in Nat
          /\ doc.view[v].stride \in Nat /\ doc.view[v].room \in Nat

LEMMA DocumentsHaveNumbers == ASSUME doc \in Documents PROVE Numbers
<1>1. IsDocument(doc)
  BY DocumentsAssumption
<1>2. \A x \in Sizes : x \in Nat
  BY UsizeAssumption DEF Sizes
<1>3. ASSUME NEW a \in Accessors
      PROVE  /\ doc[a].type \in Types /\ doc[a].component_type \in ComponentTypes
             /\ doc[a].count \in Nat /\ doc[a].offset \in Nat /\ doc[a].has_view \in BOOLEAN
  BY <1>1, <1>2 DEF IsDocument
<1>4. ASSUME NEW a \in Accessors
      PROVE  /\ num_components(a) \in {1, 2, 3, 4, 9, 16}
             /\ component_size(a) \in {0, 1, 2, 4} /\ element_size(a) \in Nat
  BY <1>3, SizesAreSmall DEF num_components, component_size, element_size
<1>5. /\ doc.is_sparse \in BOOLEAN
      /\ sparse.count \in Nat /\ sparse.indices_component_type \in ComponentTypes
      /\ sparse.indices_byte_offset \in Nat /\ sparse.values_byte_offset \in Nat
  BY <1>1, <1>2 DEF IsDocument, sparse
<1>6. indices_size \in {0, 1, 2, 4}
  BY <1>5, SizesAreSmall DEF indices_size, Types
<1>7. ASSUME NEW v \in Views
      PROVE  /\ doc.view[v].offset \in Nat /\ doc.view[v].size \in Nat
             /\ doc.view[v].stride \in Nat /\ doc.view[v].room \in Nat
  <2>1. doc.view[v] \in [offset : Sizes, size : Sizes, stride : Sizes, room : Sizes]
    BY <1>1 DEF IsDocument
  <2>2. QED
    BY <1>2, <2>1
<1>8. QED
  BY <1>3, <1>4, <1>5, <1>6, <1>7 DEF Numbers

\* An index is at least 0, wherever it is read.
LEMMA StoredIsNumber ==
  ASSUME doc \in Documents, NEW v \in Views, NEW block \in {"buffer", "decoded"},
         NEW address
  PROVE  Stored(v, block, address) \in Nat
<1> DEFINE nonzero == doc.content[v][block]
<1>1. \A x \in DOMAIN nonzero : nonzero[x] \in Nat
  BY DocumentsAssumption DEF IsDocument
<1>2. QED
  BY <1>1 DEF Stored

\* As many whole elements as both the accessor and out have.
LEMMA WholeElements ==
  ASSUME NEW n \in {1, 2, 3, 4, 9, 16}, NEW count \in Nat, NEW len \in Nat
  PROVE  /\ SmallerOf(count * n, len) \div n = SmallerOf(count, len \div n)
         /\ SmallerOf(count, len \div n) \in Nat
         /\ SmallerOf(count, len \div n) <= count
         /\ len >= count * n => SmallerOf(count, len \div n) = count
<1>1. CASE n = 1
  BY <1>1 DEF SmallerOf
<1>2. CASE n = 2
  BY <1>2 DEF SmallerOf
<1>3. CASE n = 3
  BY <1>3 DEF SmallerOf
<1>4. CASE n = 4
  BY <1>4 DEF SmallerOf
<1>5. CASE n = 9
  BY <1>5 DEF SmallerOf
<1>6. CASE n = 16
  BY <1>6 DEF SmallerOf
<1>7. QED
  BY <1>1, <1>2, <1>3, <1>4, <1>5, <1>6

-----------------------------------------------------------------------------
(***************************************************************************)
(* What cgltf_validate has found to be so of a document, apart from what   *)
(* its indices are: neither the readers nor the user change any of it.     *)
(***************************************************************************)
Validated ==
    /\ \A a \in Accessors : HasTypes(a) /\ ViewHoldsElements(a)
    /\ doc.is_sparse => SparseIsHeld
    /\ ViewsAreValid
    /\ IndicesAreShaped

\* The state of a document, without the calls of its readers.
Sound ==
    /\ doc \in Documents /\ stride \in [Accessors -> Nat]
    /\ validated \in BOOLEAN
    /\ validated => Validated
    /\ phase = "parse" => ~validated /\ bounded = {} /\ call = NoCall
    /\ "sparse_indices" \in bounded => validated /\ (doc.is_sparse => SparseIsBelow)
    /\ "indices" \in bounded =>
          /\ validated
          /\ doc["indices"].has_view =>
                IndicesBelow("indices", doc["indices"].offset, component_size("indices"),
                             doc["indices"].count, doc["attribute"].count)

\* Where a view begins in what its bytes are read from.
Start(v, block) == IF block = "decoded" THEN 0 ELSE doc.view[v].offset

\* Some bytes of a view.
IsIn(v, block, address, n) ==
    /\ v \in Views /\ block \in {"buffer", "decoded"} /\ address \in Nat
    /\ Start(v, block) <= address /\ address + n <= Start(v, block) + doc.view[v].size

\* One of them; ReadsInside says it of those a call has read.
Inside(r) ==
    LET view  == doc.view[r[1]]
        start == IF r[2] = "decoded" THEN 0 ELSE view.offset
    IN  /\ start <= r[3] /\ r[3] < start + view.size
        /\ r[2] = "buffer" => r[3] < view.room

LEMMA BytesInside ==
  ASSUME Numbers, Validated, NothingWraps,
         NEW v, NEW block, NEW address, NEW n \in Nat, IsIn(v, block, address, n)
  PROVE  \A r \in Bytes(v, block, address, n) : Inside(r)
<1>1. PICK offset \in Nat, size \in Nat, room \in Nat :
         offset = doc.view[v].offset /\ size = doc.view[v].size /\ room = doc.view[v].room
  BY DEF Numbers, IsIn
<1>2. offset + size < Usize /\ v \in Views
  BY <1>1 DEF NothingWraps, IsIn
<1>3. room >= offset + size
  <2>1. room >= Plus(offset, size)
    BY <1>1, <1>2 DEF Validated, ViewsAreValid
  <2>2. QED
    BY <1>2, <2>1, NoWrap DEF Plus
<1>4. PICK start \in Nat : start = Start(v, block) /\ start \in {0, offset}
  BY <1>1 DEF Start
<1>5. address \in Nat /\ start <= address /\ address + n <= start + size
  BY <1>1, <1>4 DEF IsIn
<1>6. ASSUME NEW k \in 0 .. n - 1
      PROVE  Inside(<<v, block, (address + k) % Usize>>)
  <2>1. address + k \in Nat /\ address + k < start + size /\ start <= address + k
    BY <1>5
  <2>2. (address + k) % Usize = address + k
    BY <1>2, <1>4, <2>1, NoWrap, UsizeAssumption
  <2>3. block # "decoded" => start = offset
    BY <1>1, <1>4 DEF Start
  <2>4. (IF block = "decoded" THEN 0 ELSE offset) = start
    BY <1>1, <1>4 DEF Start
  <2>5. block = "buffer" => address + k < room
    BY <1>1, <1>3, <2>1, <2>3
  <2>6. QED
    BY <1>1, <2>1, <2>2, <2>4, <2>5 DEF Inside
<1>7. QED
  BY <1>6 DEF Bytes

\* A source a reader has taken a component of size bytes from.
IsSource(s, size) ==
    s = Zero \/ (s = <<s[1], s[2]>> /\ IsIn(s[1], Block(s[1]), s[2], size))

LEMMA SourcesAreInside ==
  ASSUME Numbers, Validated, NothingWraps, NEW sources, NEW size \in Nat,
         \A s \in sources : IsSource(s, size)
  PROVE  \A r \in ReadsOf(sources, size) : Inside(r)
<1>1. ASSUME NEW s \in sources \ {Zero}
      PROVE  \A r \in Bytes(s[1], Block(s[1]), s[2], size) : Inside(r)
  BY <1>1, BytesInside DEF IsSource
<1>2. QED
  BY <1>1 DEF ReadsOf

\* cgltf_buffer_view_data is where the view begins for the user.
LEMMA ViewData ==
  ASSUME Numbers, NEW v \in Views
  PROVE  /\ cgltf_buffer_view_data(v) = Start(v, Block(v))
         /\ Block(v) \in {"buffer", "decoded"}
         /\ cgltf_buffer_view_data(v) \in Nat
         /\ NothingWraps => cgltf_buffer_view_data(v) + doc.view[v].size < Usize
<1>1. /\ doc.view[v].offset \in Nat /\ doc.view[v].size \in Nat
      /\ NothingWraps => doc.view[v].offset + doc.view[v].size < Usize
  BY DEF Numbers, NothingWraps
<1>2. QED
  BY <1>1, UsizeAssumption DEF cgltf_buffer_view_data, Start, Block

\* A place of a view, from either of the blocks its bytes may lie in.
LEMMA PlaceInView ==
  ASSUME Numbers, NothingWraps, NEW v \in Views, NEW block \in {"buffer", "decoded"},
         NEW place \in Nat, NEW n \in Nat, place + n <= doc.view[v].size
  PROVE  /\ Start(v, block) \in Nat /\ Start(v, block) + place \in Nat
         /\ IsIn(v, block, Start(v, block) + place, n)
         /\ (Start(v, block) + place) % Usize = Start(v, block) + place
<1>1. PICK size \in Nat, offset \in Nat :
         size = doc.view[v].size /\ offset = doc.view[v].offset /\ offset + size < Usize
  BY DEF Numbers, NothingWraps
<1>2. PICK start \in Nat : start = Start(v, block) /\ start + size < Usize
  BY <1>1, UsizeAssumption DEF Start
<1>3. start + place \in Nat /\ start + place + n <= start + size
  BY <1>1
<1>4. (start + place) % Usize = start + place
  BY <1>2, <1>3, NoWrap, UsizeAssumption
<1>5. IsIn(v, block, start + place, n)
  BY <1>1, <1>2, <1>3 DEF IsIn
<1>6. QED
  BY <1>2, <1>3, <1>4, <1>5

\* The elements of an accessor fit into its view.
LEMMA ElementsFit ==
  ASSUME Numbers, stride \in [Accessors -> Nat], Validated, NothingWraps,
         NEW a \in Accessors, doc[a].has_view, NEW e \in Nat, e < doc[a].count
  PROVE  /\ doc[a].offset + stride[a] * e \in Nat
         /\ doc[a].offset + stride[a] * e + element_size(a) <= doc.view[ViewOf(a)].size
<1>1. ASSUME NEW offset \in Nat, NEW step \in Nat, NEW count \in Nat, NEW element \in Nat,
             NEW size \in Nat, e < count, offset + step * count + element < Usize,
             size >= Plus(Plus(offset, Times(step, count - 1)), element)
      PROVE  offset + step * e \in Nat /\ offset + step * e + element <= size
  <2>1. PICK there \in Nat, last \in Nat, whole \in Nat :
           /\ there = step * e /\ last = step * (count - 1) /\ whole = step * count
           /\ there <= last /\ last + step = whole
    BY <1>1, FactorBefore
  <2>2. offset + whole + element < Usize
    BY <1>1, <2>1
  <2>3. offset + last + element < Usize
    BY <2>1, <2>2, UsizeAssumption
  <2>4. Times(step, count - 1) = last
    BY <2>1, <2>3, NoWrap, UsizeAssumption DEF Times
  <2>5. Plus(offset, last) = offset + last
    BY <2>3, NoWrap, UsizeAssumption DEF Plus
  <2>6. Plus(offset + last, element) = offset + last + element
    BY <2>3, NoWrap, UsizeAssumption DEF Plus
  <2>7. size >= offset + last + element
    BY <1>1, <2>4, <2>5, <2>6
  <2>8. offset + there \in Nat /\ offset + there + element <= size
    BY <2>1, <2>7
  <2>9. QED
    BY <2>1, <2>8, Zenon
<1>2. ViewOf(a) \in Views
  BY DEF ViewOf, Views
<1>3. /\ doc[a].offset \in Nat /\ stride[a] \in Nat /\ doc[a].count \in Nat
      /\ element_size(a) \in Nat /\ doc.view[ViewOf(a)].size \in Nat
  BY <1>2 DEF Numbers
<1>4. doc[a].offset + stride[a] * doc[a].count + element_size(a) < Usize
  BY DEF NothingWraps
<1>5. doc.view[ViewOf(a)].size >=
        Plus(Plus(doc[a].offset, Times(stride[a], doc[a].count - 1)), element_size(a))
  BY DEF Validated, ViewHoldsElements
<1>6. QED
  BY <1>1, <1>3, <1>4, <1>5

\* So do the indices and the values of a sparse part, the values as far as they
\* are packed.
LEMMA SparseFitsIn ==
  ASSUME Numbers, stride \in [Accessors -> Nat], Validated, NothingWraps,
         doc.is_sparse, NEW r \in Nat, r < sparse.count
  PROVE  /\ sparse.indices_byte_offset + indices_size * r \in Nat
         /\ sparse.indices_byte_offset + indices_size * r + indices_size
              <= doc.view["sparse_indices"].size
         /\ sparse.values_byte_offset + element_size("attribute") * r \in Nat
         /\ sparse.values_byte_offset + element_size("attribute") * r
                + element_size("attribute") <= doc.view["sparse_values"].size
         /\ ValuesArePacked => stride["attribute"] * r = element_size("attribute") * r
<1>1. ASSUME NEW offset \in Nat, NEW size \in Nat, NEW count \in Nat, NEW room \in Nat,
             r < count, offset + size * count < Usize,
             room >= Plus(offset, Times(size, count))
      PROVE  offset + size * r \in Nat /\ offset + size * r + size <= room
  <2>1. PICK there \in Nat, last \in Nat, whole \in Nat :
           /\ there = size * r /\ last = size * (count - 1) /\ whole = size * count
           /\ there <= last /\ last + size = whole
    BY <1>1, FactorBefore
  <2>2. offset + whole < Usize /\ room >= Plus(offset, Times(size, count))
    BY <1>1, <2>1
  <2>3. Times(size, count) = whole
    BY <2>1, <2>2, NoWrap, UsizeAssumption DEF Times
  <2>4. Plus(offset, whole) = offset + whole
    BY <2>2, NoWrap, UsizeAssumption DEF Plus
  <2>5. room >= offset + whole
    BY <2>2, <2>3, <2>4
  <2>6. offset + there \in Nat /\ offset + there + size <= room
    BY <2>1, <2>5
  <2>7. QED
    BY <2>1, <2>6, Zenon
<1>2. /\ "sparse_indices" \in Views /\ "sparse_values" \in Views /\ "attribute" \in Accessors
  BY DEF Views, Accessors
<1>3. /\ sparse.indices_byte_offset \in Nat /\ sparse.values_byte_offset \in Nat
      /\ indices_size \in Nat /\ element_size("attribute") \in Nat /\ sparse.count \in Nat
      /\ doc.view["sparse_indices"].size \in Nat /\ doc.view["sparse_values"].size \in Nat
  BY <1>2 DEF Numbers
<1>4. SparseIsHeld
  BY DEF Validated
<1>5. /\ sparse.indices_byte_offset + indices_size * r \in Nat
      /\ sparse.indices_byte_offset + indices_size * r + indices_size
           <= doc.view["sparse_indices"].size
  <2>1. sparse.indices_byte_offset + indices_size * sparse.count < Usize
    BY DEF NothingWraps
  <2>2. doc.view["sparse_indices"].size >=
          Plus(sparse.indices_byte_offset, Times(indices_size, sparse.count))
    BY <1>4 DEF SparseIsHeld
  <2>3. QED
    BY <1>1, <1>3, <2>1, <2>2
<1>6. /\ sparse.values_byte_offset + element_size("attribute") * r \in Nat
      /\ sparse.values_byte_offset + element_size("attribute") * r
             + element_size("attribute") <= doc.view["sparse_values"].size
  <2>1. sparse.values_byte_offset + element_size("attribute") * sparse.count < Usize
    BY DEF NothingWraps
  <2>2. doc.view["sparse_values"].size >=
          Plus(sparse.values_byte_offset, Times(element_size("attribute"), sparse.count))
    BY <1>4 DEF SparseIsHeld
  <2>3. QED
    BY <1>1, <1>3, <2>1, <2>2
<1>7. ASSUME ValuesArePacked
      PROVE  stride["attribute"] * r = element_size("attribute") * r
  <2>1. CASE sparse.count > 1
    BY <1>7, <2>1 DEF ValuesArePacked
  <2>2. CASE ~(sparse.count > 1)
    <3>1. r = 0
      BY <1>3, <2>2
    <3>2. stride["attribute"] \in Nat
      BY <1>2
    <3>3. QED
      BY <1>3, <3>1, <3>2
  <2>3. QED
    BY <2>1, <2>2
<1>8. QED
  BY <1>5, <1>6, <1>7

-----------------------------------------------------------------------------
(***************************************************************************)
(* What the readers take their values from.                                *)
(***************************************************************************)

\* An element begins where its view does, its offset and index elements further.
LEMMA ElementStarts ==
  ASSUME Numbers, stride \in [Accessors -> Nat], Validated, NothingWraps,
         NEW a \in Accessors, doc[a].has_view, NEW e \in Nat, e < doc[a].count
  PROVE  LET place == doc[a].offset + stride[a] * e
             data  == cgltf_buffer_view_data(ViewOf(a))
         IN  /\ ElementAt(a, e) = data + place /\ ElementAt(a, e) \in Nat
             /\ data \in Nat /\ place \in Nat /\ data = Start(ViewOf(a), Block(ViewOf(a)))
<1> DEFINE place == doc[a].offset + stride[a] * e
           data  == cgltf_buffer_view_data(ViewOf(a))
<1>1. ViewOf(a) \in Views
  BY DEF ViewOf, Views
<1>2. /\ data = Start(ViewOf(a), Block(ViewOf(a))) /\ data \in Nat
      /\ Block(ViewOf(a)) \in {"buffer", "decoded"}
  BY <1>1, ViewData
<1>3. /\ place \in Nat /\ place + element_size(a) <= doc.view[ViewOf(a)].size
      /\ element_size(a) \in Nat
  BY ElementsFit DEF Numbers
<1>4. /\ data + place \in Nat /\ (data + place) % Usize = data + place
  BY <1>1, <1>2, <1>3, PlaceInView
<1>5. ElementAt(a, e) = (data + doc[a].offset + stride[a] * e) % Usize
  BY DEF ElementAt
<1>6. data + doc[a].offset + stride[a] * e = data + place
  <2>1. doc[a].offset \in Nat /\ stride[a] \in Nat
    BY DEF Numbers
  <2>2. QED
    BY <1>2, <2>1
<1>7. QED
  BY <1>2, <1>3, <1>4, <1>5, <1>6

\* A component of an element, or of a sparse element, is read where glTF lays it out.
LEMMA ComponentsAreHeld ==
  ASSUME Numbers, NothingWraps, NEW a \in Accessors, HasTypes(a),
         NEW v \in Views, NEW place \in Nat,
         place + element_size(a) <= doc.view[v].size,
         NEW k \in 0 .. num_components(a) - 1
  PROVE  LET data == cgltf_buffer_view_data(v)
         IN  /\ Component(v, data + place, a, k) = <<v, data + place + Layout(a, k)>>
             /\ IsSource(Component(v, data + place, a, k), component_size(a))
<1> DEFINE data   == cgltf_buffer_view_data(v)
           offset == ComponentOffset(doc[a].type, component_size(a), k)
<1>1. /\ data = Start(v, Block(v)) /\ data \in Nat /\ Block(v) \in {"buffer", "decoded"}
  BY ViewData
<1>2. /\ doc[a].type \in Types /\ doc[a].component_type \in ComponentTypes
      /\ doc[a].component_type # "invalid" /\ component_size(a) \in Nat
      /\ element_size(a) \in Nat /\ doc.view[v].size \in Nat
  BY DEF Numbers, HasTypes
<1>3. k \in 0 .. cgltf_num_components(doc[a].type) - 1
  BY DEF num_components
<1>4. offset \in Nat /\ offset + component_size(a) <= element_size(a)
  BY <1>2, <1>3, ComponentsFit DEF component_size, element_size
<1>5. offset = Layout(a, k)
  BY <1>2, <1>3, ComponentsAreLaidOut DEF component_size, Layout
<1>6. place + offset \in Nat /\ place + offset + component_size(a) <= doc.view[v].size
  BY <1>2, <1>4
<1>7. /\ IsIn(v, Block(v), data + (place + offset), component_size(a))
      /\ (data + (place + offset)) % Usize = data + (place + offset)
  BY <1>1, <1>2, <1>6, PlaceInView
<1>8. data + (place + offset) = data + place + offset
  BY <1>1, <1>4
<1>9. Component(v, data + place, a, k) = <<v, data + place + offset>>
  BY <1>7, <1>8 DEF Component
<1>10. IsSource(<<v, data + place + offset>>, component_size(a))
  BY <1>7, <1>8 DEF IsSource
<1>11. QED
  BY <1>5, <1>9, <1>10

\* So a reader of an element takes its components from the element.
LEMMA ElementComponents ==
  ASSUME Numbers, stride \in [Accessors -> Nat], Validated, NothingWraps,
         NEW a \in Accessors, doc[a].has_view, NEW e \in Nat, e < doc[a].count,
         NEW k \in 0 .. num_components(a) - 1
  PROVE  LET read == Component(ViewOf(a), ElementAt(a, e), a, k)
         IN  /\ read = <<ViewOf(a), cgltf_buffer_view_data(ViewOf(a)) + doc[a].offset
                                       + stride[a] * e + Layout(a, k)>>
             /\ IsSource(read, component_size(a))
<1> DEFINE place == doc[a].offset + stride[a] * e
           data  == cgltf_buffer_view_data(ViewOf(a))
<1>1. ViewOf(a) \in Views /\ HasTypes(a)
  BY DEF ViewOf, Views, Validated
<1>2. place \in Nat /\ place + element_size(a) <= doc.view[ViewOf(a)].size
  BY ElementsFit
<1>3. ElementAt(a, e) = data + place /\ data \in Nat
  BY ElementStarts
<1>4. /\ Component(ViewOf(a), data + place, a, k) = <<ViewOf(a), data + place + Layout(a, k)>>
      /\ IsSource(Component(ViewOf(a), data + place, a, k), component_size(a))
  BY <1>1, <1>2, ComponentsAreHeld
<1>5. data + place = data + doc[a].offset + stride[a] * e
  <2>1. doc[a].offset \in Nat /\ stride[a] \in Nat
    BY DEF Numbers
  <2>2. QED
    BY <1>3, <2>1
<1>6. QED
  BY <1>3, <1>4, <1>5

\* The component of an element that lies at its beginning.
LEMMA FirstComponents ==
  ASSUME Numbers, stride \in [Accessors -> Nat], Validated, NothingWraps,
         NEW a \in Accessors, doc[a].has_view, NEW e \in Nat, e < doc[a].count
  PROVE  IsSource(<<ViewOf(a), ElementAt(a, e)>>, component_size(a))
<1> DEFINE place == doc[a].offset + stride[a] * e
           data  == cgltf_buffer_view_data(ViewOf(a))
<1>1. ViewOf(a) \in Views
  BY DEF ViewOf, Views
<1>2. place \in Nat /\ place + element_size(a) <= doc.view[ViewOf(a)].size
  BY ElementsFit
<1>3. /\ component_size(a) <= element_size(a) /\ component_size(a) \in Nat
      /\ element_size(a) \in Nat /\ doc.view[ViewOf(a)].size \in Nat
  BY <1>1, ComponentIsNoLarger DEF Numbers, component_size, element_size
<1>4. place + component_size(a) <= doc.view[ViewOf(a)].size
  BY <1>2, <1>3
<1>5. ElementAt(a, e) = data + place /\ data = Start(ViewOf(a), Block(ViewOf(a)))
  BY ElementStarts
<1>6. IsIn(ViewOf(a), Block(ViewOf(a)), data + place, component_size(a))
  BY <1>1, <1>2, <1>3, <1>4, <1>5, ViewData, PlaceInView
<1>7. QED
  BY <1>5, <1>6 DEF IsSource

\* A sparse element takes its components from a value.
LEMMA SparseComponents ==
  ASSUME Numbers, stride \in [Accessors -> Nat], Validated, NothingWraps, ValuesArePacked,
         doc.is_sparse, NEW r \in Nat, r < sparse.count,
         NEW k \in 0 .. num_components("attribute") - 1
  PROVE  LET data == cgltf_buffer_view_data("sparse_values")
             read == Component("sparse_values",
                               data + sparse.values_byte_offset + stride["attribute"] * r,
                               "attribute", k)
         IN  /\ read = <<"sparse_values",
                         data + sparse.values_byte_offset + element_size("attribute") * r
                              + Layout("attribute", k)>>
             /\ IsSource(read, component_size("attribute"))
<1> DEFINE place == sparse.values_byte_offset + element_size("attribute") * r
           data  == cgltf_buffer_view_data("sparse_values")
<1>1. "sparse_values" \in Views /\ "attribute" \in Accessors /\ HasTypes("attribute")
  BY DEF Views, Accessors, Validated
<1>2. /\ place \in Nat
      /\ place + element_size("attribute") <= doc.view["sparse_values"].size
      /\ stride["attribute"] * r = element_size("attribute") * r
  BY SparseFitsIn
<1>3. data \in Nat
  BY <1>1, ViewData
<1>4. /\ Component("sparse_values", data + place, "attribute", k)
            = <<"sparse_values", data + place + Layout("attribute", k)>>
      /\ IsSource(Component("sparse_values", data + place, "attribute", k),
                  component_size("attribute"))
  BY <1>1, <1>2, ComponentsAreHeld
<1>5. data + place
        = data + sparse.values_byte_offset + element_size("attribute") * r
  <2>1. sparse.values_byte_offset \in Nat /\ element_size("attribute") \in Nat
    BY <1>1 DEF Numbers
  <2>2. QED
    BY <1>3, <2>1
<1>6. QED
  BY <1>2, <1>4, <1>5

\* The index of a sparse element, of the one block or the other.
LEMMA SparseIndexIsHeld ==
  ASSUME Numbers, stride \in [Accessors -> Nat], Validated, NothingWraps,
         doc.is_sparse, NEW r \in Nat, r < sparse.count
  PROVE  /\ IsIn("sparse_indices", Block("sparse_indices"), IndexAddress(r), indices_size)
         /\ IsIn("sparse_indices", "buffer",
                 BoundAddress("sparse_indices", sparse.indices_byte_offset, indices_size, r),
                 indices_size)
<1> DEFINE place == sparse.indices_byte_offset + indices_size * r
           data  == cgltf_buffer_view_data("sparse_indices")
           start == Start("sparse_indices", "buffer")
<1>1. "sparse_indices" \in Views
  BY DEF Views
<1>2. /\ place \in Nat /\ place + indices_size <= doc.view["sparse_indices"].size
  BY SparseFitsIn
<1>3. /\ sparse.indices_byte_offset \in Nat /\ indices_size \in Nat
      /\ doc.view["sparse_indices"].offset \in Nat
  BY <1>1 DEF Numbers
<1>4. /\ data = Start("sparse_indices", Block("sparse_indices")) /\ data \in Nat
      /\ Block("sparse_indices") \in {"buffer", "decoded"}
  BY <1>1, ViewData
<1>5. IsIn("sparse_indices", Block("sparse_indices"), data + place, indices_size)
  BY <1>1, <1>2, <1>3, <1>4, PlaceInView
<1>6. IndexAddress(r) = data + place
  BY <1>3, <1>4 DEF IndexAddress
<1>7. /\ IsIn("sparse_indices", "buffer", start + place, indices_size)
      /\ (start + place) % Usize = start + place
  BY <1>1, <1>2, <1>3, PlaceInView
<1>8. start + place
        = doc.view["sparse_indices"].offset + sparse.indices_byte_offset + indices_size * r
  BY <1>3 DEF Start
<1>9. BoundAddress("sparse_indices", sparse.indices_byte_offset, indices_size, r)
        = start + place
  BY <1>7, <1>8 DEF BoundAddress
<1>10. QED
  BY <1>5, <1>6, <1>7, <1>9

\* An index of the primitive, in its buffer.
LEMMA IndexIsHeld ==
  ASSUME Numbers, stride \in [Accessors -> Nat], Validated, NothingWraps,
         doc["indices"].has_view, NEW k \in Nat, k < doc["indices"].count
  PROVE  IsIn("indices", "buffer",
              BoundAddress("indices", doc["indices"].offset, component_size("indices"), k),
              component_size("indices"))
<1> DEFINE place == doc["indices"].offset + stride["indices"] * k
           start == Start("indices", "buffer")
<1>1. /\ "indices" \in Views /\ "indices" \in Accessors /\ ViewOf("indices") = "indices"
  BY DEF Views, Accessors, ViewOf
<1>2. /\ place \in Nat /\ place + element_size("indices") <= doc.view["indices"].size
  BY <1>1, ElementsFit
<1>3. /\ component_size("indices") <= element_size("indices")
      /\ component_size("indices") \in Nat /\ element_size("indices") \in Nat
      /\ doc.view["indices"].size \in Nat /\ doc.view["indices"].offset \in Nat
      /\ doc["indices"].offset \in Nat
  BY <1>1, ComponentIsNoLarger DEF Numbers, component_size, element_size
<1>4. place + component_size("indices") <= doc.view["indices"].size
  BY <1>2, <1>3
<1>5. /\ IsIn("indices", "buffer", start + place, component_size("indices"))
      /\ (start + place) % Usize = start + place
  BY <1>1, <1>2, <1>3, <1>4, PlaceInView
<1>6. stride["indices"] = component_size("indices")
  BY DEF Validated, IndicesAreShaped
<1>7. start + place = doc.view["indices"].offset + doc["indices"].offset
                         + component_size("indices") * k
  BY <1>3, <1>6 DEF Start
<1>8. BoundAddress("indices", doc["indices"].offset, component_size("indices"), k)
        = start + place
  BY <1>5, <1>7 DEF BoundAddress
<1>9. QED
  BY <1>5, <1>8

LEMMA ElementIsWrapped ==
  ASSUME Numbers, stride \in [Accessors -> Nat], Validated, NothingWraps,
         NEW a \in Accessors, doc[a].has_view, NEW e \in Nat, e < doc[a].count
  PROVE  ElementAt(a, e) % Usize = ElementAt(a, e)
<1>1. /\ doc[a].offset \in Nat /\ stride[a] \in Nat
      /\ cgltf_buffer_view_data(ViewOf(a)) \in Nat
  BY ElementStarts DEF Numbers
<1>2. cgltf_buffer_view_data(ViewOf(a)) + doc[a].offset + stride[a] * e \in Int
  BY <1>1
<1>3. QED
  BY <1>2, Wrapped DEF ElementAt

\* Elements that follow each other without a gap are read one after another.
LEMMA PackedElements ==
  ASSUME Numbers, stride \in [Accessors -> Nat], Validated, NothingWraps,
         NEW a \in Accessors, doc[a].has_view, stride[a] = component_size(a),
         NEW e \in Nat, e < doc[a].count
  PROVE  (ElementAt(a, 0) + component_size(a) * e) % Usize = ElementAt(a, e)
<1> DEFINE data == cgltf_buffer_view_data(ViewOf(a))
<1>1. /\ doc[a].offset \in Nat /\ stride[a] \in Nat /\ doc[a].count \in Nat
      /\ component_size(a) \in {0, 1, 2, 4}
  BY DEF Numbers
<1>2. ElementAt(a, 0) = data + (doc[a].offset + stride[a] * 0) /\ data \in Nat
  BY <1>1, ElementStarts
<1>3. ElementAt(a, e) = data + (doc[a].offset + stride[a] * e) /\ ElementAt(a, e) \in Nat
  BY ElementStarts
<1>4. ElementAt(a, 0) = data + doc[a].offset
  BY <1>1, <1>2
<1>5. ElementAt(a, e) = data + doc[a].offset + component_size(a) * e
  BY <1>1, <1>2, <1>3
<1>6. ElementAt(a, 0) + component_size(a) * e = ElementAt(a, e)
  BY <1>4, <1>5
<1>7. ElementAt(a, e) % Usize = ElementAt(a, e)
  BY ElementIsWrapped
<1>8. QED
  BY <1>6, <1>7

-----------------------------------------------------------------------------
(***************************************************************************)
(* Sound is an invariant.                                                  *)
(***************************************************************************)

\* What is said of a document alone stays so while it does.
LEMMA SameDocument ==
  ASSUME doc' = doc, stride' = stride
  PROVE  /\ Validated' <=> Validated
         /\ NothingWraps' <=> NothingWraps
         /\ ValuesArePacked' <=> ValuesArePacked
         /\ SparseIsBelow' <=> SparseIsBelow
         /\ IndicesBelow("indices", doc["indices"].offset, component_size("indices"),
                         doc["indices"].count, doc["attribute"].count)'
              <=> IndicesBelow("indices", doc["indices"].offset, component_size("indices"),
                               doc["indices"].count, doc["attribute"].count)
         /\ \A r : Inside(r)' <=> Inside(r)
<1>1. /\ \A a : element_size(a)' = element_size(a) /\ component_size(a)' = component_size(a)
      /\ indices_size' = indices_size /\ sparse' = sparse
  BY DEF element_size, component_size, indices_size, sparse
<1>2. \A v, offset, size, k :
         Stored(v, "buffer", BoundAddress(v, offset, size, k))'
           = Stored(v, "buffer", BoundAddress(v, offset, size, k))
  BY DEF Stored, BoundAddress
<1>3. Validated' <=> Validated
  <2>1. \A a : (HasTypes(a)' <=> HasTypes(a)) /\ (ViewHoldsElements(a)' <=> ViewHoldsElements(a))
    BY <1>1 DEF HasTypes, ViewHoldsElements
  <2>2. SparseIsHeld' <=> SparseIsHeld
    BY <1>1 DEF SparseIsHeld
  <2>3. ViewsAreValid' <=> ViewsAreValid
    BY DEF ViewsAreValid
  <2>4. IndicesAreShaped' <=> IndicesAreShaped
    BY <1>1 DEF IndicesAreShaped
  <2>5. QED
    BY <2>1, <2>2, <2>3, <2>4 DEF Validated
<1>4. NothingWraps' <=> NothingWraps
  BY <1>1 DEF NothingWraps, num_components
<1>5. ValuesArePacked' <=> ValuesArePacked
  BY <1>1 DEF ValuesArePacked
<1>6. SparseIsBelow' <=> SparseIsBelow
  BY <1>1, <1>2 DEF SparseIsBelow, IndicesBelow
<1>7. IndicesBelow("indices", doc["indices"].offset, component_size("indices"),
                   doc["indices"].count, doc["attribute"].count)'
        <=> IndicesBelow("indices", doc["indices"].offset, component_size("indices"),
                         doc["indices"].count, doc["attribute"].count)
  BY <1>1, <1>2 DEF IndicesBelow
<1>8. \A r : Inside(r)' <=> Inside(r)
  BY DEF Inside
<1>9. QED
  BY <1>3, <1>4, <1>5, <1>6, <1>7, <1>8

LEMMA SoundInit == Init => Sound
<1> SUFFICES ASSUME Init PROVE Sound
  OBVIOUS
<1>1. stride \in [Accessors -> Nat]
  BY DEF Init
<1>2. doc \in Documents /\ validated = FALSE /\ bounded = {} /\ call = NoCall
  BY DEF Init
<1>3. "sparse_indices" \notin bounded /\ "indices" \notin bounded
  BY <1>2
<1>4. QED
  BY <1>1, <1>2, <1>3, Zenon DEF Sound

LEMMA FixupSound == Sound /\ Fixup => Sound'
<1> SUFFICES ASSUME Sound, Fixup PROVE Sound'
  OBVIOUS
<1>1. Numbers
  BY DocumentsHaveNumbers DEF Sound
<1>2. ~validated /\ bounded = {} /\ doc \in Documents /\ validated \in BOOLEAN
  BY DEF Sound, Fixup
<1>3. UNCHANGED <<doc, validated, bounded>> /\ phase' = "held"
  BY DEF Fixup
<1>4. stride' \in [Accessors -> Nat]
  <2>1. ASSUME NEW a \in Accessors
        PROVE  LET given == IF doc[a].has_view THEN doc.view[ViewOf(a)].stride ELSE 0
               IN  (IF given = 0 THEN element_size(a) ELSE given) \in Nat
    BY <1>1 DEF Numbers, ViewOf, Views
  <2>2. QED
    BY <2>1 DEF Fixup
<1>5. QED
  BY <1>2, <1>3, <1>4 DEF Sound

\* A call that is not of cgltf_validate changes nothing that Sound is about.
LEMMA CallSound ==
  ASSUME Sound, UNCHANGED <<doc, stride, phase, validated, bounded>>,
         phase = "parse" => call' = NoCall
  PROVE  Sound'
  BY SameDocument DEF Sound

LEMMA ValidateSound == Sound /\ cgltf_validate => Sound'
<1> SUFFICES ASSUME Sound, cgltf_validate PROVE Sound'
  OBVIOUS
<1> DEFINE valid == AccessorsAreValid /\ ViewsAreValid /\ PrimitiveIsValid
<1>1. UNCHANGED <<doc, stride, phase>> /\ phase = "held"
  BY DEF cgltf_validate, Idle
<1>2. valid => Validated
  BY DEF AccessorsAreValid, PrimitiveIsValid, Validated
<1>3. validated' = (validated \/ valid) /\ validated \in BOOLEAN
  BY DEF cgltf_validate, Sound
<1>4. bounded' = IF valid THEN bounded \union (loaded \ {"base", "sparse_values"}) ELSE bounded
  BY DEF cgltf_validate
<1>5. "sparse_indices" \in bounded' => validated' /\ (doc.is_sparse => SparseIsBelow)
  BY <1>3, <1>4 DEF Sound, AccessorsAreValid
<1>6. "indices" \in bounded' =>
        /\ validated'
        /\ doc["indices"].has_view =>
              IndicesBelow("indices", doc["indices"].offset, component_size("indices"),
                           doc["indices"].count, doc["attribute"].count)
  BY <1>3, <1>4 DEF Sound, PrimitiveIsValid
<1>7. /\ doc' \in Documents /\ stride' \in [Accessors -> Nat] /\ validated' \in BOOLEAN
      /\ phase' # "parse"
  BY <1>1, <1>3 DEF Sound
<1>8. validated' => Validated
  BY <1>2, <1>3 DEF Sound
<1>9. QED
  BY <1>1, <1>5, <1>6, <1>7, <1>8, SameDocument DEF Sound

LEMMA ReadersChangeTheCall ==
  readFloat \/ readUint \/ readIndex \/ unpackFloats \/ unpackIndices =>
    Idle /\ UNCHANGED <<doc, stride, loaded, decoded, phase, validated, bounded>>
  BY DEF readFloat, readUint, ReadElement, readIndex, unpackFloats, unpackIndices, Reader

LEMMA SoundNext == Sound /\ [Next]_vars => Sound'
<1> SUFFICES ASSUME Sound, [Next]_vars PROVE Sound'
  OBVIOUS
<1>1. CASE Fixup
  BY <1>1, FixupSound
<1>2. CASE Return
  BY <1>2, CallSound DEF Return
<1>3. CASE Load
  BY <1>3, CallSound DEF Load, Idle
<1>4. CASE Decode
  BY <1>4, CallSound DEF Decode, Idle
<1>5. CASE cgltf_validate
  BY <1>5, ValidateSound
<1>6. CASE readFloat \/ readUint \/ readIndex \/ unpackFloats \/ unpackIndices
  BY <1>6, CallSound, ReadersChangeTheCall DEF Idle
<1>7. CASE UNCHANGED vars
  BY <1>7, CallSound DEF vars, Sound
<1>8. QED
  BY <1>1, <1>2, <1>3, <1>4, <1>5, <1>6, <1>7 DEF Next

\* A document that cgltf_validate has accepted stays as it was accepted, whatever
\* its user loads, decodes and reads afterwards.
THEOREM DocumentsStaySound == Spec => []Sound
<1>1. QED
  BY SoundInit, SoundNext, PTL DEF Spec

-----------------------------------------------------------------------------
(***************************************************************************)
(* No call reads outside of a view.                                        *)
(***************************************************************************)

\* What ReadsInside is said under.
Trusted == validated /\ NothingWraps /\ ValuesArePacked

LEMMA TrustedDocuments ==
  ASSUME Sound, Trusted
  PROVE  /\ Numbers /\ stride \in [Accessors -> Nat] /\ Validated
         /\ NothingWraps /\ ValuesArePacked
  BY DocumentsHaveNumbers DEF Sound, Trusted

\* What out has been written from has been read, and only that.
LEMMA WrittenIsInside ==
  ASSUME Sound, Trusted, NEW a \in Accessors, NEW wrote,
         \A p \in DOMAIN wrote : IsSource(wrote[p], component_size(a))
  PROVE  \A r \in ReadsOf(SourcesOf(wrote), component_size(a)) : Inside(r)
<1>1. \A s \in SourcesOf(wrote) : IsSource(s, component_size(a))
  BY DEF SourcesOf
<1>2. component_size(a) \in Nat /\ Numbers /\ Validated /\ NothingWraps
  BY TrustedDocuments DEF Numbers
<1>3. QED
  BY <1>1, <1>2, SourcesAreInside

LEMMA NothingIsInside ==
  ASSUME Sound, Trusted, NEW a \in Accessors
  PROVE  \A r \in ReadsOf(SourcesOf(<< >>), component_size(a)) : Inside(r)
  BY DEF ReadsOf, SourcesOf

\* A component that is not converted is read from nowhere.
LEMMA ConvertedSource ==
  ASSUME NEW op, NEW a, NEW size, NEW component, IsSource(component, size)
  PROVE  IsSource(From(op, a, component), size)
  BY DEF From, IsSource

LEMMA ReadElementInside ==
  ASSUME Sound, Trusted, NEW op, NEW refused, ReadElement(op, refused)
  PROVE  \A r \in call'.reads : Inside(r)
<1>1. /\ Numbers /\ stride \in [Accessors -> Nat] /\ Validated /\ NothingWraps
  BY TrustedDocuments
<1>2. PICK a \in Accessors, index \in 0 .. 2, len \in Outs :
         LET n == num_components(a)
         IN  IF index >= doc[a].count \/ IsSparse(a)
               THEN Refuses(op, a, index, len)
             ELSE IF ~doc[a].has_view
               THEN Called(op, a, index, len, [p \in 0 .. len - 1 |-> Zero], 1)
             ELSE IF ~HasData(ViewOf(a)) \/ len < n \/ doc[a].type \in refused
               THEN Refuses(op, a, index, len)
             ELSE Called(op, a, index, len,
                         [p \in 0 .. n - 1 |->
                             From(op, a, Component(ViewOf(a), ElementAt(a, index), a, p))],
                         1)
  BY DEF ReadElement
<1> DEFINE zeros == [p \in 0 .. len - 1 |-> Zero]
           read  == [p \in 0 .. num_components(a) - 1 |->
                        From(op, a, Component(ViewOf(a), ElementAt(a, index), a, p))]
<1>3. CASE Refuses(op, a, index, len)
  <2>1. call'.reads = ReadsOf(SourcesOf(<< >>), component_size(a))
    BY <1>3 DEF Refuses, Called, CalledReading
  <2>2. QED
    BY <2>1, NothingIsInside
<1>4. CASE Called(op, a, index, len, zeros, 1)
  <2>1. call'.reads = ReadsOf(SourcesOf(zeros), component_size(a))
    BY <1>4 DEF Called, CalledReading
  <2>2. \A p \in DOMAIN zeros : IsSource(zeros[p], component_size(a))
    BY DEF IsSource
  <2>3. QED
    BY <2>1, <2>2, WrittenIsInside
<1>5. CASE /\ index < doc[a].count /\ doc[a].has_view
           /\ Called(op, a, index, len, read, 1)
  <2>1. call'.reads = ReadsOf(SourcesOf(read), component_size(a))
    BY <1>5 DEF Called, CalledReading
  <2>2. \A p \in DOMAIN read : IsSource(read[p], component_size(a))
    BY <1>1, <1>5, ElementComponents, ConvertedSource
  <2>3. QED
    BY <2>1, <2>2, WrittenIsInside
<1>6. doc[a].count \in Nat /\ index \in Nat
  BY <1>1 DEF Numbers
<1>7. QED
  BY <1>2, <1>3, <1>4, <1>5, <1>6

LEMMA ReadIndexInside ==
  ASSUME Sound, Trusted, readIndex
  PROVE  \A r \in call'.reads : Inside(r)
<1>1. /\ Numbers /\ stride \in [Accessors -> Nat] /\ Validated /\ NothingWraps
  BY TrustedDocuments
<1>2. PICK a \in Accessors, index \in 0 .. 2 :
         IF \/ index >= doc[a].count \/ IsSparse(a) \/ ~doc[a].has_view
            \/ ~HasData(ViewOf(a))
           THEN Called("readIndex", a, index, 1, [p \in {0} |-> Zero], 0)
           ELSE Called("readIndex", a, index, 1,
                       [p \in {0} |-> IndexSource(a, ElementAt(a, index))], 1)
  BY DEF readIndex
<1> DEFINE zero == [p \in {0} |-> Zero]
           read == [p \in {0} |-> IndexSource(a, ElementAt(a, index))]
<1>3. CASE Called("readIndex", a, index, 1, zero, 0)
  <2>1. call'.reads = ReadsOf(SourcesOf(zero), component_size(a))
    BY <1>3 DEF Called, CalledReading
  <2>2. \A p \in DOMAIN zero : IsSource(zero[p], component_size(a))
    BY DEF IsSource
  <2>3. QED
    BY <2>1, <2>2, WrittenIsInside
<1>4. CASE /\ index < doc[a].count /\ doc[a].has_view
           /\ Called("readIndex", a, index, 1, read, 1)
  <2>1. call'.reads = ReadsOf(SourcesOf(read), component_size(a))
    BY <1>4 DEF Called, CalledReading
  <2>2. IsSource(<<ViewOf(a), ElementAt(a, index)>>, component_size(a))
    BY <1>1, <1>4, FirstComponents
  <2>3. ElementAt(a, index) % Usize = ElementAt(a, index)
    BY <1>1, <1>4, ElementIsWrapped
  <2>4. IsSource(IndexSource(a, ElementAt(a, index)), component_size(a))
    BY <2>2, <2>3 DEF IndexSource, IsSource
  <2>5. \A p \in DOMAIN read : IsSource(read[p], component_size(a))
    BY <2>4
  <2>6. QED
    BY <2>1, <2>5, WrittenIsInside
<1>5. doc[a].count \in Nat /\ index \in Nat
  BY <1>1 DEF Numbers
<1>6. QED
  BY <1>2, <1>3, <1>4, <1>5

\* What the base of an accessor is unpacked from.
LEMMA BaseIsHeld ==
  ASSUME Sound, Trusted, NEW a \in Accessors, NEW count \in Nat, count <= doc[a].count
  PROVE  \A p \in DOMAIN BaseFloats(a, count) :
            IsSource(BaseFloats(a, count)[p], component_size(a))
<1>1. /\ Numbers /\ stride \in [Accessors -> Nat] /\ Validated /\ NothingWraps
  BY TrustedDocuments
<1>2. num_components(a) \in {1, 2, 3, 4, 9, 16} /\ doc[a].count \in Nat
  BY <1>1 DEF Numbers
<1>3. ASSUME NEW p \in 0 .. count * num_components(a) - 1, doc[a].has_view
      PROVE  IsSource(From("unpackFloats", a,
                           Component(ViewOf(a), ElementAt(a, p \div num_components(a)), a,
                                     p % num_components(a))), component_size(a))
  <2>1. p \in Nat /\ p < count * num_components(a)
    BY <1>2
  <2>2. /\ p \div num_components(a) \in Nat /\ p \div num_components(a) < count
        /\ p % num_components(a) \in 0 .. num_components(a) - 1
    BY <1>2, <2>1, Places
  <2>3. p \div num_components(a) < doc[a].count
    BY <1>2, <2>2
  <2>4. QED
    BY <1>1, <1>3, <2>2, <2>3, ElementComponents, ConvertedSource
<1>4. QED
  BY <1>3 DEF BaseFloats, IsSource

\* And the elements of its sparse part.
LEMMA SparseIsRead ==
  ASSUME Sound, Trusted, doc.is_sparse, NEW r \in 0 .. sparse.count - 1
  PROVE  \A p \in DOMAIN SparseFloats(r) :
            IsSource(SparseFloats(r)[p], component_size("attribute"))
<1> DEFINE n == num_components("attribute")
           data == cgltf_buffer_view_data("sparse_values")
           address == data + sparse.values_byte_offset + stride["attribute"] * r
<1>1. /\ Numbers /\ stride \in [Accessors -> Nat] /\ Validated /\ NothingWraps
      /\ ValuesArePacked
  BY TrustedDocuments
<1>2. /\ n \in {1, 2, 3, 4, 9, 16} /\ r \in Nat /\ r < sparse.count
  BY <1>1 DEF Numbers, Accessors
<1>3. WriterIndex(r) \in Nat
  BY StoredIsNumber DEF WriterIndex, IndexAt, Block, Sound, Views
<1>4. ASSUME NEW p \in WriterIndex(r) * n .. WriterIndex(r) * n + n - 1
      PROVE  IsSource(From("unpackFloats", "attribute",
                           Component("sparse_values", address, "attribute", p % n)),
                      component_size("attribute"))
  <2>1. p \in Nat
    BY <1>2, <1>3
  <2>2. p % n \in 0 .. n - 1
    BY <1>2, <2>1, Places
  <2>3. QED
    BY <1>1, <1>2, <2>2, SparseComponents, ConvertedSource
<1>5. QED
  BY <1>4 DEF SparseFloats

\* How many elements unpackFloats unpacks.
LEMMA CountOfUnpacked ==
  ASSUME Numbers, NothingWraps, NEW a \in Accessors, NEW len \in Outs
  PROVE  LET n     == num_components(a)
             count == SmallerOf(Times(doc[a].count, n), len) \div n
         IN  /\ count = SmallerOf(doc[a].count, len \div n)
             /\ count \in Nat /\ count <= doc[a].count
             /\ len >= doc[a].count * n => count = doc[a].count
<1> DEFINE n == num_components(a)
<1>1. doc[a].count \in Nat /\ n \in {1, 2, 3, 4, 9, 16} /\ len \in Nat
  BY OutsAssumption DEF Numbers, Sizes
<1>2. doc[a].count * n \in Nat /\ doc[a].count * n < Usize
  BY <1>1 DEF NothingWraps
<1>3. Times(doc[a].count, n) = doc[a].count * n
  BY <1>2, NoWrap DEF Times
<1>4. /\ SmallerOf(doc[a].count * n, len) \div n = SmallerOf(doc[a].count, len \div n)
      /\ SmallerOf(doc[a].count, len \div n) \in Nat
      /\ SmallerOf(doc[a].count, len \div n) <= doc[a].count
      /\ len >= doc[a].count * n => SmallerOf(doc[a].count, len \div n) = doc[a].count
  BY <1>1, WholeElements, Zenon
<1>5. QED
  BY <1>3, <1>4, Zenon

LEMMA UnpackReadsInside ==
  ASSUME Sound, Trusted, doc.is_sparse, NEW count \in Nat, count <= doc["attribute"].count
  PROVE  \A r \in UnpackReads(BaseFloats("attribute", count)) : Inside(r)
<1> DEFINE base    == BaseFloats("attribute", count)
           rounds  == 0 .. sparse.count - 1
           sources == SourcesOf(base) \union UNION {SourcesOf(SparseFloats(r)) : r \in rounds}
           indices == UNION {Bytes("sparse_indices", Block("sparse_indices"), IndexAddress(r),
                                   indices_size) : r \in rounds}
<1>1. /\ Numbers /\ stride \in [Accessors -> Nat] /\ Validated /\ NothingWraps
  BY TrustedDocuments
<1>2. "attribute" \in Accessors
  BY DEF Accessors
<1>3. \A s \in SourcesOf(base) : IsSource(s, component_size("attribute"))
  BY <1>2, BaseIsHeld DEF SourcesOf
<1>4. ASSUME NEW r \in rounds
      PROVE  \A s \in SourcesOf(SparseFloats(r)) : IsSource(s, component_size("attribute"))
  BY SparseIsRead DEF SourcesOf
<1>5. \A s \in sources : IsSource(s, component_size("attribute"))
  BY <1>3, <1>4
<1>6. component_size("attribute") \in Nat /\ indices_size \in Nat /\ sparse.count \in Nat
  BY <1>1, <1>2 DEF Numbers
<1>7. \A r \in ReadsOf(sources, component_size("attribute")) : Inside(r)
  BY <1>1, <1>5, <1>6, SourcesAreInside
<1>8. \A r \in indices : Inside(r)
  <2>1. ASSUME NEW r \in rounds
        PROVE  \A b \in Bytes("sparse_indices", Block("sparse_indices"), IndexAddress(r),
                              indices_size) : Inside(b)
    <3>1. r \in Nat /\ r < sparse.count
      BY <1>6
    <3>2. IsIn("sparse_indices", Block("sparse_indices"), IndexAddress(r), indices_size)
      BY <1>1, <3>1, SparseIndexIsHeld
    <3>3. QED
      BY <1>1, <1>6, <3>2, BytesInside
  <2>2. QED
    BY <2>1
<1>9. UnpackReads(base) = ReadsOf(sources, component_size("attribute")) \union indices
  BY DEF UnpackReads
<1>10. QED
  BY <1>7, <1>8, <1>9

LEMMA UnpackFloatsInside ==
  ASSUME Sound, Trusted, unpackFloats
  PROVE  \A r \in call'.reads : Inside(r)
<1>1. /\ Numbers /\ stride \in [Accessors -> Nat] /\ Validated /\ NothingWraps
  BY TrustedDocuments
<1>2. PICK a \in Accessors, len \in Outs :
         LET n     == num_components(a)
             count == SmallerOf(Times(doc[a].count, n), len) \div n
             base  == BaseFloats(a, count)
         IN  IF doc[a].has_view /\ ~HasData(ViewOf(a))
               THEN Refuses("unpackFloats", a, 0, len)
             ELSE IF ~IsSparse(a)
               THEN Called("unpackFloats", a, 0, len, base, count * n)
             ELSE IF HasData("sparse_indices") /\ HasData("sparse_values")
               THEN CalledReading("unpackFloats", a, 0, len, UnpackReads(base),
                                  Overwritten(base), count * n)
             ELSE Called("unpackFloats", a, 0, len, base, 0)
  BY DEF unpackFloats
<1> DEFINE n     == num_components(a)
           count == SmallerOf(Times(doc[a].count, n), len) \div n
           base  == BaseFloats(a, count)
<1>3. count \in Nat /\ count <= doc[a].count
  BY <1>1, CountOfUnpacked
<1>4. CASE Refuses("unpackFloats", a, 0, len)
  <2>1. call'.reads = ReadsOf(SourcesOf(<< >>), component_size(a))
    BY <1>4 DEF Refuses, Called, CalledReading
  <2>2. QED
    BY <2>1, NothingIsInside
<1>5. ASSUME NEW returned, Called("unpackFloats", a, 0, len, base, returned)
      PROVE  \A r \in call'.reads : Inside(r)
  <2>1. call'.reads = ReadsOf(SourcesOf(base), component_size(a))
    BY <1>5 DEF Called, CalledReading
  <2>2. \A p \in DOMAIN base : IsSource(base[p], component_size(a))
    BY <1>3, BaseIsHeld
  <2>3. QED
    BY <2>1, <2>2, WrittenIsInside
<1>6. CASE /\ IsSparse(a)
           /\ CalledReading("unpackFloats", a, 0, len, UnpackReads(base),
                            Overwritten(base), count * n)
  <2>1. call'.reads = UnpackReads(base)
    BY <1>6 DEF CalledReading
  <2>2. a = "attribute" /\ doc.is_sparse
    BY <1>6 DEF IsSparse
  <2>3. QED
    BY <1>3, <2>1, <2>2, UnpackReadsInside
<1>7. QED
  BY <1>2, <1>4, <1>5, <1>6

LEMMA UnpackIndicesInside ==
  ASSUME Sound, Trusted, unpackIndices
  PROVE  \A r \in call'.reads : Inside(r)
<1>1. /\ Numbers /\ stride \in [Accessors -> Nat] /\ Validated /\ NothingWraps
  BY TrustedDocuments
<1>2. PICK a \in Accessors, len \in Outs, out_component_size \in {1, 2, 4, 8} :
         LET count == SmallerOf(doc[a].count, len)
             start == ElementAt(a, 0)
             size  == component_size(a)
         IN  IF \/ IsSparse(a) \/ ~doc[a].has_view \/ size > out_component_size
                \/ ~HasData(ViewOf(a))
               THEN Refuses("unpackIndices", a, 0, len)
             ELSE IF size = out_component_size /\ stride[a] = out_component_size
               THEN Called("unpackIndices", a, 0, len,
                           [p \in 0 .. count - 1 |->
                               <<ViewOf(a), (start + size * p) % Usize>>], count)
             ELSE Called("unpackIndices", a, 0, len,
                         [p \in 0 .. (IF out_component_size \in {2, 4} THEN count ELSE 0) - 1
                             |-> IndexSource(a, ElementAt(a, p))], count)
  BY DEF unpackIndices
<1> DEFINE count  == SmallerOf(doc[a].count, len)
           size   == component_size(a)
           packed == [p \in 0 .. count - 1 |->
                         <<ViewOf(a), (ElementAt(a, 0) + size * p) % Usize>>]
           wide   == [p \in 0 .. (IF out_component_size \in {2, 4} THEN count ELSE 0) - 1
                         |-> IndexSource(a, ElementAt(a, p))]
<1>3. count \in Nat /\ count <= doc[a].count /\ doc[a].count \in Nat
  <2>1. doc[a].count \in Nat /\ len \in Nat
    BY <1>1, OutsAssumption DEF Numbers, Sizes
  <2>2. QED
    BY <2>1 DEF SmallerOf
<1>4. CASE Refuses("unpackIndices", a, 0, len)
  <2>1. call'.reads = ReadsOf(SourcesOf(<< >>), component_size(a))
    BY <1>4 DEF Refuses, Called, CalledReading
  <2>2. QED
    BY <2>1, NothingIsInside
<1>5. ASSUME NEW p \in 0 .. count - 1
      PROVE  p \in Nat /\ p < doc[a].count
  BY <1>3
<1>6. CASE /\ doc[a].has_view /\ stride[a] = size
           /\ Called("unpackIndices", a, 0, len, packed, count)
  <2>1. call'.reads = ReadsOf(SourcesOf(packed), component_size(a))
    BY <1>6 DEF Called, CalledReading
  <2>2. ASSUME NEW p \in 0 .. count - 1 PROVE IsSource(packed[p], component_size(a))
    <3>1. (ElementAt(a, 0) + size * p) % Usize = ElementAt(a, p)
      BY <1>1, <1>5, <1>6, PackedElements
    <3>2. QED
      BY <1>1, <1>5, <1>6, <3>1, FirstComponents
  <2>3. QED
    BY <2>1, <2>2, WrittenIsInside
<1>7. CASE doc[a].has_view /\ Called("unpackIndices", a, 0, len, wide, count)
  <2>1. call'.reads = ReadsOf(SourcesOf(wide), component_size(a))
    BY <1>7 DEF Called, CalledReading
  <2>2. ASSUME NEW p \in 0 .. count - 1
        PROVE  IsSource(IndexSource(a, ElementAt(a, p)), component_size(a))
    <3>1. ElementAt(a, p) % Usize = ElementAt(a, p)
      BY <1>1, <1>5, <1>7, ElementIsWrapped
    <3>2. IsSource(<<ViewOf(a), ElementAt(a, p)>>, component_size(a))
      BY <1>1, <1>5, <1>7, FirstComponents
    <3>3. QED
      BY <3>1, <3>2 DEF IndexSource, IsSource
  <2>3. \A p \in DOMAIN wide : IsSource(wide[p], component_size(a))
    BY <1>3, <2>2
  <2>4. QED
    BY <2>1, <2>3, WrittenIsInside
<1>8. QED
  BY <1>2, <1>4, <1>6, <1>7

\* cgltf_validate reads the indices it compares, of documents that it then refuses
\* as well: not of one whose views it has not compared with their buffers.
LEMMA ValidateInside ==
  ASSUME Sound, Numbers, Validated, NothingWraps
  PROVE  \A r \in ValidateReads : Inside(r)
<1>1. stride \in [Accessors -> Nat]
  BY DEF Sound
<1>2. /\ sparse.count \in Nat /\ indices_size \in Nat
      /\ doc["indices"].count \in Nat /\ component_size("indices") \in Nat
  BY DEF Numbers, Accessors
<1>3. ASSUME doc.is_sparse
      PROVE  \A r \in BoundReads("sparse_indices", sparse.indices_byte_offset, indices_size,
                                 sparse.count) : Inside(r)
  <2>1. ASSUME NEW k \in 0 .. sparse.count - 1
        PROVE  \A r \in Bytes("sparse_indices", "buffer",
                              BoundAddress("sparse_indices", sparse.indices_byte_offset,
                                           indices_size, k), indices_size) : Inside(r)
    <3>1. k \in Nat /\ k < sparse.count
      BY <1>2
    <3>2. QED
      BY <1>1, <1>2, <1>3, <3>1, SparseIndexIsHeld, BytesInside
  <2>2. QED
    BY <2>1 DEF BoundReads
<1>4. ASSUME doc["indices"].has_view
      PROVE  \A r \in BoundReads("indices", doc["indices"].offset, component_size("indices"),
                                 doc["indices"].count) : Inside(r)
  <2>1. ASSUME NEW k \in 0 .. doc["indices"].count - 1
        PROVE  \A r \in Bytes("indices", "buffer",
                              BoundAddress("indices", doc["indices"].offset,
                                           component_size("indices"), k),
                              component_size("indices")) : Inside(r)
    <3>1. k \in Nat /\ k < doc["indices"].count
      BY <1>2
    <3>2. QED
      BY <1>1, <1>2, <1>4, <3>1, IndexIsHeld, BytesInside
  <2>2. QED
    BY <2>1 DEF BoundReads
<1>5. ReachesSparse => doc.is_sparse
  BY DEF ReachesSparse, IsSparse
<1>6. ReachesIndices => doc["indices"].has_view
  BY DEF ReachesIndices
<1>7. QED
  BY <1>3, <1>4, <1>5, <1>6 DEF ValidateReads

LEMMA InsideInit == Init => ReadsInside
  BY DEF Init, ReadsInside

LEMMA InsideNext == Sound /\ ReadsInside /\ [Next]_vars => ReadsInside'
<1> SUFFICES ASSUME Sound, ReadsInside, [Next]_vars, Trusted'
             PROVE  \A r \in call'.reads : Inside(r)'
  BY DEF ReadsInside, Trusted, Inside
<1>1. Sound'
  BY SoundNext
<1>2. CASE Fixup \/ Return \/ Load \/ Decode
  <2>1. call' = NoCall
    BY <1>2 DEF Fixup, Return, Load, Decode, Idle, Sound
  <2>2. QED
    BY <2>1 DEF NoCall
<1>3. CASE UNCHANGED vars
  <2>1. Trusted /\ call' = call
    BY <1>3, SameDocument DEF vars, Trusted
  <2>2. doc' = doc /\ stride' = stride
    BY <1>3 DEF vars
  <2>3. \A r \in call.reads : Inside(r)
    BY <2>1 DEF ReadsInside, Trusted, Inside
  <2>4. QED
    BY <2>1, <2>2, <2>3, SameDocument
<1>4. CASE cgltf_validate
  <2>1. doc' = doc /\ stride' = stride /\ call'.reads = ValidateReads
    BY <1>4 DEF cgltf_validate, NoCall
  <2>2. Validated /\ NothingWraps
    BY <1>1, <2>1, SameDocument DEF Sound, Trusted
  <2>3. \A r \in ValidateReads : Inside(r)
    BY <2>2, DocumentsHaveNumbers, ValidateInside DEF Sound
  <2>4. QED
    BY <2>1, <2>3, SameDocument
<1>5. CASE readFloat \/ readUint \/ readIndex \/ unpackFloats \/ unpackIndices
  <2>1. doc' = doc /\ stride' = stride /\ validated' = validated
    BY <1>5, ReadersChangeTheCall
  <2>2. Trusted
    BY <2>1, SameDocument DEF Trusted
  <2>3. \A r \in call'.reads : Inside(r)
    BY <1>5, <2>2, ReadElementInside, ReadIndexInside, UnpackFloatsInside,
       UnpackIndicesInside DEF readFloat, readUint
  <2>4. QED
    BY <2>1, <2>3, SameDocument
<1>6. QED
  BY <1>2, <1>3, <1>4, <1>5 DEF Next

\* Once cgltf_validate has succeeded, no call reads a byte outside of a view or of
\* the buffer it is a part of: for documents of any numbers whose sums do not wrap.
THEOREM ReadersStayInside == Spec => []ReadsInside
<1>1. Sound /\ ReadsInside /\ [Next]_vars => (Sound /\ ReadsInside)'
  BY SoundNext, InsideNext
<1>2. QED
  BY <1>1, SoundInit, InsideInit, PTL DEF Spec

-----------------------------------------------------------------------------
(***************************************************************************)
(* The indices of a primitive name vertices.                               *)
(***************************************************************************)

\* What the user reads at an address stays so while what its view lies in does.
LEMMA SameViews ==
  ASSUME doc' = doc, stride' = stride, decoded' = decoded
  PROVE  \A v, address : IndexAt(v, address)' = IndexAt(v, address)
  BY DEF IndexAt, Stored, Block

\* An index that cgltf_validate has compared is the one the readers read: both
\* take it from the buffer, and its stride is its size.
LEMMA ComparedIndices ==
  ASSUME Sound, validated, NothingWraps, "indices" \in bounded \ decoded,
         doc["indices"].has_view, NEW e \in Nat, e < doc["indices"].count
  PROVE  /\ IndexAt("indices", ElementAt("indices", e)) < doc["attribute"].count
         /\ ElementAt("indices", e) % Usize = ElementAt("indices", e)
<1>1. /\ Numbers /\ stride \in [Accessors -> Nat] /\ Validated
      /\ "indices" \in Accessors /\ ViewOf("indices") = "indices"
  BY DocumentsHaveNumbers DEF Sound, Accessors, ViewOf
<1>2. doc["indices"].count \in Nat
  BY <1>1 DEF Numbers
<1>3. IndicesBelow("indices", doc["indices"].offset, component_size("indices"),
                   doc["indices"].count, doc["attribute"].count)
  BY DEF Sound
<1>4. Stored("indices", "buffer",
             BoundAddress("indices", doc["indices"].offset, component_size("indices"), e))
        < doc["attribute"].count
  BY <1>2, <1>3 DEF IndicesBelow
<1>5. stride["indices"] = component_size("indices")
  BY <1>1 DEF Validated, IndicesAreShaped
<1>6. cgltf_buffer_view_data("indices") = doc.view["indices"].offset
  BY DEF cgltf_buffer_view_data
<1>7. ElementAt("indices", e)
        = BoundAddress("indices", doc["indices"].offset, component_size("indices"), e)
  BY <1>1, <1>5, <1>6 DEF ElementAt, BoundAddress
<1>8. Block("indices") = "buffer"
  BY DEF Block
<1>9. QED
  BY <1>1, <1>4, <1>7, <1>8, ElementIsWrapped DEF IndexAt

\* The sources of out are indices below the number of vertices.
NameVertices(wrote) ==
    \A s \in SourcesOf(wrote) \ {Zero} : IndexAt("indices", s[2]) < doc["attribute"].count

LEMMA ReadIndexNames ==
  ASSUME Sound, validated, NothingWraps, "indices" \in bounded \ decoded,
         readIndex, call'.of = "indices"
  PROVE  NameVertices(call'.wrote)
<1>1. PICK a \in Accessors, index \in 0 .. 2 :
         IF \/ index >= doc[a].count \/ IsSparse(a) \/ ~doc[a].has_view
            \/ ~HasData(ViewOf(a))
           THEN Called("readIndex", a, index, 1, [p \in {0} |-> Zero], 0)
           ELSE Called("readIndex", a, index, 1,
                       [p \in {0} |-> IndexSource(a, ElementAt(a, index))], 1)
  BY DEF readIndex
<1>2. a = "indices"
  BY <1>1 DEF Called, CalledReading
<1>3. doc[a].count \in Nat /\ index \in Nat
  BY DocumentsHaveNumbers DEF Sound, Numbers
<1>4. CASE call'.wrote = [p \in {0} |-> Zero]
  BY <1>4 DEF NameVertices, SourcesOf
<1>5. CASE /\ index < doc[a].count /\ doc[a].has_view
           /\ call'.wrote = [p \in {0} |-> IndexSource(a, ElementAt(a, index))]
  <2>1. /\ IndexAt("indices", ElementAt("indices", index)) < doc["attribute"].count
        /\ ElementAt("indices", index) % Usize = ElementAt("indices", index)
    BY <1>2, <1>3, <1>5, ComparedIndices
  <2>2. ASSUME NEW s \in SourcesOf(call'.wrote) \ {Zero}
        PROVE  s[2] = ElementAt("indices", index)
    <3>1. s = IndexSource("indices", ElementAt("indices", index)) /\ s # Zero
      BY <1>2, <1>5 DEF SourcesOf
    <3>2. QED
      BY <2>1, <3>1 DEF IndexSource
  <2>3. QED
    BY <2>1, <2>2 DEF NameVertices
<1>6. QED
  BY <1>1, <1>3, <1>4, <1>5 DEF Called, CalledReading

LEMMA UnpackIndicesName ==
  ASSUME Sound, validated, NothingWraps, "indices" \in bounded \ decoded,
         unpackIndices, call'.of = "indices"
  PROVE  NameVertices(call'.wrote)
<1>1. PICK a \in Accessors, len \in Outs, out_component_size \in {1, 2, 4, 8} :
         LET count == SmallerOf(doc[a].count, len)
             start == ElementAt(a, 0)
             size  == component_size(a)
         IN  IF \/ IsSparse(a) \/ ~doc[a].has_view \/ size > out_component_size
                \/ ~HasData(ViewOf(a))
               THEN Refuses("unpackIndices", a, 0, len)
             ELSE IF size = out_component_size /\ stride[a] = out_component_size
               THEN Called("unpackIndices", a, 0, len,
                           [p \in 0 .. count - 1 |->
                               <<ViewOf(a), (start + size * p) % Usize>>], count)
             ELSE Called("unpackIndices", a, 0, len,
                         [p \in 0 .. (IF out_component_size \in {2, 4} THEN count ELSE 0) - 1
                             |-> IndexSource(a, ElementAt(a, p))], count)
  BY DEF unpackIndices
<1> DEFINE count  == SmallerOf(doc[a].count, len)
           size   == component_size(a)
           packed == [p \in 0 .. count - 1 |->
                         <<ViewOf(a), (ElementAt(a, 0) + size * p) % Usize>>]
           wide   == [p \in 0 .. (IF out_component_size \in {2, 4} THEN count ELSE 0) - 1
                         |-> IndexSource(a, ElementAt(a, p))]
<1>2. a = "indices"
  BY <1>1 DEF Refuses, Called, CalledReading
<1>3. /\ Numbers /\ stride \in [Accessors -> Nat] /\ Validated
  BY DocumentsHaveNumbers DEF Sound
<1>4. count \in Nat /\ count <= doc[a].count /\ doc[a].count \in Nat
  <2>1. doc[a].count \in Nat /\ len \in Nat
    BY <1>3, OutsAssumption DEF Numbers, Sizes
  <2>2. QED
    BY <2>1 DEF SmallerOf
<1>5. ASSUME NEW p \in 0 .. count - 1, doc[a].has_view
      PROVE  /\ p \in Nat /\ p < doc[a].count
             /\ IndexAt("indices", ElementAt(a, p)) < doc["attribute"].count
             /\ ElementAt(a, p) % Usize = ElementAt(a, p)
  <2>1. p \in Nat /\ p < doc[a].count
    BY <1>4
  <2>2. QED
    BY <1>2, <1>5, <2>1, ComparedIndices
<1>6. CASE call'.wrote = << >>
  BY <1>6 DEF NameVertices, SourcesOf
<1>7. CASE doc[a].has_view /\ stride[a] = size /\ call'.wrote = packed
  <2>1. ASSUME NEW p \in 0 .. count - 1 PROVE packed[p][2] = ElementAt(a, p)
    BY <1>3, <1>5, <1>7, PackedElements
  <2>2. ASSUME NEW s \in SourcesOf(packed)
        PROVE  IndexAt("indices", s[2]) < doc["attribute"].count
    <3>1. PICK p \in 0 .. count - 1 : s = packed[p]
      BY DEF SourcesOf
    <3>2. QED
      BY <1>5, <1>7, <2>1, <3>1
  <2>3. QED
    BY <1>7, <2>2 DEF NameVertices
<1>8. CASE doc[a].has_view /\ call'.wrote = wide
  <2>1. ASSUME NEW s \in SourcesOf(wide) \ {Zero}
        PROVE  IndexAt("indices", s[2]) < doc["attribute"].count
    <3>1. PICK p \in DOMAIN wide : s = wide[p]
      BY DEF SourcesOf
    <3>2. p \in 0 .. count - 1 /\ s = IndexSource(a, ElementAt(a, p)) /\ s # Zero
      BY <1>4, <3>1
    <3>3. s[2] = ElementAt(a, p)
      BY <1>5, <1>8, <3>2 DEF IndexSource
    <3>4. QED
      BY <1>5, <1>8, <3>2, <3>3
  <2>2. QED
    BY <1>8, <2>1 DEF NameVertices
<1>9. \/ Refuses("unpackIndices", a, 0, len)
      \/ /\ doc[a].has_view /\ stride[a] = size
         /\ Called("unpackIndices", a, 0, len, packed, count)
      \/ doc[a].has_view /\ Called("unpackIndices", a, 0, len, wide, count)
  BY <1>1
<1>10. CASE Refuses("unpackIndices", a, 0, len)
  <2>1. call'.wrote = << >>
    BY <1>10 DEF Refuses, Called, CalledReading
  <2>2. QED
    BY <1>6, <2>1
<1>11. ASSUME Called("unpackIndices", a, 0, len, packed, count) PROVE call'.wrote = packed
  BY <1>11 DEF Called, CalledReading
<1>12. ASSUME Called("unpackIndices", a, 0, len, wide, count) PROVE call'.wrote = wide
  BY <1>12 DEF Called, CalledReading
<1>13. QED
  BY <1>7, <1>8, <1>9, <1>10, <1>11, <1>12

\* Which reader has made a call.
LEMMA ReadersAreNamed ==
  /\ readFloat => call'.op = "readFloat"
  /\ readUint => call'.op = "readUint"
  /\ readIndex => call'.op = "readIndex"
  /\ unpackFloats => call'.op = "unpackFloats"
  /\ unpackIndices => call'.op = "unpackIndices"
  /\ cgltf_validate => call'.op = "validate"
  /\ (Fixup \/ Return \/ Load \/ Decode) /\ Sound => call' = NoCall /\ call'.op = "none"
<1>1. ASSUME NEW op, NEW refused, ReadElement(op, refused) PROVE call'.op = op
  BY <1>1 DEF ReadElement, Refuses, Called, CalledReading
<1>2. readIndex => call'.op = "readIndex"
  BY DEF readIndex, Called, CalledReading
<1>3. unpackFloats => call'.op = "unpackFloats"
  BY DEF unpackFloats, Refuses, Called, CalledReading
<1>4. unpackIndices => call'.op = "unpackIndices"
  BY DEF unpackIndices, Refuses, Called, CalledReading
<1>5. cgltf_validate => call'.op = "validate"
  BY DEF cgltf_validate, NoCall
<1>6. (Fixup \/ Return \/ Load \/ Decode) /\ Sound => call' = NoCall /\ call'.op = "none"
  BY DEF Fixup, Return, Load, Decode, Idle, Sound, NoCall
<1>7. QED
  BY <1>1, <1>2, <1>3, <1>4, <1>5, <1>6 DEF readFloat, readUint

LEMMA NamesNext == Sound /\ IndicesNameVertices /\ [Next]_vars => IndicesNameVertices'
<1> SUFFICES ASSUME Sound, IndicesNameVertices, [Next]_vars,
                    validated', "indices" \in (bounded \ decoded)', NothingWraps',
                    call'.of = "indices", call'.op \in {"readIndex", "unpackIndices"}
             PROVE  NameVertices(call.wrote)'
  BY DEF IndicesNameVertices, NameVertices
<1>1. CASE UNCHANGED vars
  <2>1. /\ doc' = doc /\ stride' = stride /\ decoded' = decoded /\ call' = call
        /\ validated' = validated /\ bounded' = bounded
    BY <1>1 DEF vars
  <2>2. NameVertices(call.wrote)
    BY <2>1, SameDocument DEF IndicesNameVertices, NameVertices
  <2>3. QED
    BY <2>1, <2>2, SameViews DEF NameVertices, SourcesOf
<1>2. CASE readIndex \/ unpackIndices
  <2>1. /\ doc' = doc /\ stride' = stride /\ decoded' = decoded
        /\ validated' = validated /\ bounded' = bounded
    BY <1>2, ReadersChangeTheCall
  <2>2. NothingWraps /\ validated /\ "indices" \in bounded \ decoded
    BY <2>1, SameDocument
  <2>3. NameVertices(call'.wrote)
    BY <1>2, <2>2, ReadIndexNames, UnpackIndicesName
  <2>4. QED
    BY <2>1, <2>3, SameViews DEF NameVertices, SourcesOf
<1>3. QED
  BY <1>1, <1>2, ReadersAreNamed DEF Next

\* The indices of a validated primitive name vertices it has, as far as cgltf_validate
\* has had the data to compare them and the user reads the same: for any number of
\* indices, of any values, behind any offset.
THEOREM ValidatedIndicesNameVertices == Spec => []IndicesNameVertices
<1>1. Sound /\ IndicesNameVertices /\ [Next]_vars => (Sound /\ IndicesNameVertices)'
  BY SoundNext, NamesNext
<1>2. Init => IndicesNameVertices
  BY DEF Init, IndicesNameVertices
<1>3. QED
  BY <1>1, <1>2, SoundInit, PTL DEF Spec

-----------------------------------------------------------------------------
(***************************************************************************)
(* The readers hand out what glTF lays out.                                *)
(***************************************************************************)

\* A reader that has a conversion for a valid accessor hands out its components.
LEMMA HasConverted ==
  ASSUME Numbers, Validated, NEW a \in Accessors,
         NEW op \in {"readFloat", "readUint", "unpackFloats"}, HasConversion(op, a)
  PROVE  \A component : From(op, a, component) = component
<1>1. doc[a].component_type # "invalid"
  BY SizesAreSmall DEF Validated, HasTypes, component_size
<1>2. Converts(op, a)
  BY <1>1 DEF HasConversion, Converts, ReadsAsUint, ReadsAsFloat
<1>3. QED
  BY <1>2 DEF From

\* A component of the base, where no sparse element replaces it.
LEMMA BaseIsLaidOut ==
  ASSUME Sound, Trusted, NEW a \in Accessors, NEW p \in Nat,
         p \div num_components(a) < doc[a].count,
         ~IsSparse(a) \/ Replaced(p \div num_components(a)) = {}
  PROVE  LayoutSource(a, p)
           = IF doc[a].has_view
               THEN Component(ViewOf(a), ElementAt(a, p \div num_components(a)), a,
                              p % num_components(a))
               ELSE Zero
<1>1. /\ Numbers /\ stride \in [Accessors -> Nat] /\ Validated /\ NothingWraps
  BY TrustedDocuments
<1>2. num_components(a) \in {1, 2, 3, 4, 9, 16}
  BY <1>1 DEF Numbers
<1>3. /\ p \div num_components(a) \in Nat
      /\ p % num_components(a) \in 0 .. num_components(a) - 1
  BY <1>2, Places
<1>4. CASE doc[a].has_view
  <2>1. Component(ViewOf(a), ElementAt(a, p \div num_components(a)), a, p % num_components(a))
          = <<ViewOf(a), cgltf_buffer_view_data(ViewOf(a)) + doc[a].offset
                            + stride[a] * (p \div num_components(a))
                            + Layout(a, p % num_components(a))>>
    BY <1>1, <1>3, <1>4, ElementComponents
  <2>2. QED
    BY <1>4, <2>1 DEF LayoutSource
<1>5. CASE ~doc[a].has_view
  BY <1>5 DEF LayoutSource
<1>6. QED
  BY <1>4, <1>5

LEMMA IndicesAreNumbers ==
  ASSUME Sound
  PROVE  \A r : WriterIndex(r) \in Nat
  BY StoredIsNumber DEF WriterIndex, IndexAt, Block, Sound, Views

\* The sparse indices that cgltf_validate has compared name elements.
LEMMA ReplacedAreElements ==
  ASSUME Sound, "sparse_indices" \in bounded \ decoded, doc.is_sparse,
         NEW r \in 0 .. sparse.count - 1
  PROVE  WriterIndex(r) < doc["attribute"].count
<1>1. Stored("sparse_indices", "buffer",
             BoundAddress("sparse_indices", sparse.indices_byte_offset, indices_size, r))
        < doc["attribute"].count
  BY DEF Sound, SparseIsBelow, IndicesBelow
<1>2. cgltf_buffer_view_data("sparse_indices") = doc.view["sparse_indices"].offset
  BY DEF cgltf_buffer_view_data
<1>3. BoundAddress("sparse_indices", sparse.indices_byte_offset, indices_size, r)
        = IndexAddress(r) % Usize
  BY <1>2 DEF BoundAddress, IndexAddress
<1>4. IndexAddress(r) \in Int
  <2>1. /\ doc.view["sparse_indices"].offset \in Nat /\ sparse.indices_byte_offset \in Nat
        /\ indices_size \in Nat /\ r \in Nat
    BY DocumentsHaveNumbers DEF Sound, Numbers, Views
  <2>2. QED
    BY <1>2, <2>1 DEF IndexAddress
<1>5. (IndexAddress(r) % Usize) % Usize = IndexAddress(r) % Usize
  BY <1>4, Wrapped
<1>6. Stored("sparse_indices", "buffer", IndexAddress(r) % Usize)
        = Stored("sparse_indices", "buffer", IndexAddress(r))
  BY <1>5 DEF Stored
<1>7. WriterIndex(r) = Stored("sparse_indices", "buffer", IndexAddress(r))
  BY DEF WriterIndex, IndexAt, Block
<1>8. QED
  BY <1>1, <1>3, <1>6, <1>7

\* Of the sparse elements for one element the last one stays.
LEMMA SparseIsLaidOut ==
  ASSUME Sound, Trusted, HasConversion("unpackFloats", "attribute"),
         "sparse_indices" \in bounded \ decoded, doc.is_sparse
  PROVE  LET a     == "attribute"
             count == doc[a].count * num_components(a)
         IN  Overwritten(BaseFloats(a, doc[a].count))
               = [p \in 0 .. count - 1 |-> LayoutSource(a, p)]
<1> DEFINE a       == "attribute"
           n       == num_components(a)
           base    == BaseFloats(a, doc[a].count)
           rounds  == 0 .. sparse.count - 1
           By(p)   == {r \in rounds : p \in DOMAIN SparseFloats(r)}
           Last(S) == CHOOSE r \in S : \A q \in S : q <= r
           places  == 0 .. doc[a].count * n - 1
<1>1. /\ Numbers /\ stride \in [Accessors -> Nat] /\ Validated /\ NothingWraps
      /\ ValuesArePacked
  BY TrustedDocuments
<1>2. /\ a \in Accessors /\ n \in {1, 2, 3, 4, 9, 16} /\ doc[a].count \in Nat
      /\ sparse.count \in Nat
      /\ \A component : From("unpackFloats", a, component) = component
  BY <1>1, HasConverted DEF Numbers, Accessors
<1>3. ASSUME NEW r \in rounds, NEW p
      PROVE  p \in DOMAIN SparseFloats(r) <=> p \in Nat /\ p \div n = WriterIndex(r)
  <2>1. DOMAIN SparseFloats(r) = WriterIndex(r) * n .. WriterIndex(r) * n + n - 1
    BY DEF SparseFloats
  <2>2. WriterIndex(r) \in Nat
    BY IndicesAreNumbers
  <2>3. ASSUME p \in WriterIndex(r) * n .. WriterIndex(r) * n + n - 1 PROVE p \in Nat
    BY <1>2, <2>2, <2>3
  <2>4. ASSUME p \in Nat
        PROVE  p \in WriterIndex(r) * n .. WriterIndex(r) * n + n - 1
                 <=> p \div n = WriterIndex(r)
    BY <1>2, <2>2, <2>4, Places
  <2>5. QED
    BY <2>1, <2>3, <2>4
<1>4. ASSUME NEW p \in Nat
      PROVE  /\ p \in places <=> p \div n < doc[a].count
             /\ p \div n \in Nat /\ p % n \in 0 .. n - 1
  <2>1. p \div n < doc[a].count <=> p < doc[a].count * n
    BY <1>2, Places
  <2>2. p \div n \in Nat /\ p % n \in 0 .. n - 1
    BY <1>2, Places
  <2>3. doc[a].count * n \in Nat
    BY <1>2
  <2>4. QED
    BY <2>1, <2>2, <2>3
<1>5. ASSUME NEW r \in rounds, NEW p \in DOMAIN SparseFloats(r) PROVE p \in places
  <2>1. p \in Nat /\ p \div n = WriterIndex(r)
    BY <1>3
  <2>2. WriterIndex(r) < doc[a].count
    BY ReplacedAreElements
  <2>3. QED
    BY <1>4, <2>1, <2>2
<1>6. DOMAIN base = places
  BY DEF BaseFloats
<1>7. DOMAIN base \union UNION {DOMAIN SparseFloats(r) : r \in rounds} = places
  BY <1>5, <1>6
<1>8. Overwritten(base)
        = [p \in DOMAIN base \union UNION {DOMAIN SparseFloats(r) : r \in rounds} |->
              IF By(p) = {} THEN base[p] ELSE SparseFloats(Last(By(p)))[p]]
  BY DEF Overwritten
<1>9. ASSUME NEW p \in places
      PROVE  (IF By(p) = {} THEN base[p] ELSE SparseFloats(Last(By(p)))[p])
               = LayoutSource(a, p)
  <2>1. p \in Nat /\ p \div n < doc[a].count /\ p % n \in 0 .. n - 1
    <3>1. p \in Nat
      BY <1>2
    <3>2. QED
      BY <1>4, <3>1
  <2>2. By(p) = Replaced(p \div n)
    BY <1>3, <2>1 DEF Replaced
  <2>3. CASE By(p) = {}
    <3>1. base[p] = IF doc[a].has_view
                      THEN Component(ViewOf(a), ElementAt(a, p \div n), a, p % n)
                      ELSE Zero
      BY <1>2 DEF BaseFloats
    <3>2. QED
      BY <1>2, <2>1, <2>2, <2>3, <3>1, BaseIsLaidOut
  <2>4. CASE By(p) # {}
    <3>1. PICK r \in By(p) : \A q \in By(p) : q <= r
      BY <1>2, <2>4, Largest
    <3>2. Last(By(p)) \in By(p)
      BY <3>1
    <3>3. PICK last \in rounds : last = Last(By(p)) /\ p \in DOMAIN SparseFloats(last)
      BY <3>2
    <3>4. SparseFloats(last)[p]
            = Component("sparse_values",
                        cgltf_buffer_view_data("sparse_values") + sparse.values_byte_offset
                            + stride[a] * last, a, p % n)
      BY <1>2, <3>3 DEF SparseFloats
    <3>5. last \in Nat /\ last < sparse.count
      BY <1>2
    <3>6. SparseFloats(last)[p]
            = <<"sparse_values",
                cgltf_buffer_view_data("sparse_values") + sparse.values_byte_offset
                     + element_size(a) * last + Layout(a, p % n)>>
      BY <1>1, <2>1, <3>4, <3>5, SparseComponents
    <3>7. IsSparse(a) /\ Replaced(p \div n) # {}
      BY <2>2, <2>4 DEF IsSparse
    <3>8. LayoutSource(a, p)
            = <<"sparse_values",
                cgltf_buffer_view_data("sparse_values") + sparse.values_byte_offset
                     + element_size(a) * Last(Replaced(p \div n)) + Layout(a, p % n)>>
      BY <3>7 DEF LayoutSource
    <3>9. Last(Replaced(p \div n)) = last
      BY <2>2, <3>3
    <3>10. QED
      BY <2>4, <3>3, <3>6, <3>8, <3>9
  <2>5. QED
    BY <2>3, <2>4
<1>10. QED
  BY <1>7, <1>8, <1>9

\* What is right to hand out stays so while a document and its data do.
LEMMA SameLayout ==
  ASSUME doc' = doc, stride' = stride, decoded' = decoded
  PROVE  /\ \A a, p : LayoutSource(a, p)' = LayoutSource(a, p)
         /\ \A a : num_components(a)' = num_components(a)
         /\ \A a : IsSparse(a)' <=> IsSparse(a)
         /\ \A op, a : HasConversion(op, a)' <=> HasConversion(op, a)
<1>1. /\ \A a : /\ num_components(a)' = num_components(a)
                /\ element_size(a)' = element_size(a)
                /\ component_size(a)' = component_size(a)
                /\ IsSparse(a)' <=> IsSparse(a)
      /\ sparse' = sparse /\ indices_size' = indices_size
  BY DEF num_components, element_size, component_size, IsSparse, sparse, indices_size
<1>2. \A v : cgltf_buffer_view_data(v)' = cgltf_buffer_view_data(v)
  BY DEF cgltf_buffer_view_data
<1>3. \A r : WriterIndex(r)' = WriterIndex(r)
  <2>1. \A r : IndexAddress(r)' = IndexAddress(r)
    BY <1>1, <1>2 DEF IndexAddress
  <2>2. QED
    BY <2>1 DEF WriterIndex, IndexAt, Stored, Block
<1>4. \A e : Replaced(e)' = Replaced(e)
  BY <1>1, <1>3 DEF Replaced
<1>5. \A a, k : Layout(a, k)' = Layout(a, k)
  BY <1>1 DEF Layout
<1>6. ASSUME NEW a, NEW p PROVE LayoutSource(a, p)' = LayoutSource(a, p)
  <2>1. PICK e, k : e = p \div num_components(a) /\ k = p % num_components(a)
    OBVIOUS
  <2>2. e = (p \div num_components(a))' /\ k = (p % num_components(a))'
    BY <1>1, <2>1
  <2>3. Replaced(e)' = Replaced(e) /\ Layout(a, k)' = Layout(a, k)
    BY <1>4, <1>5
  <2> DEFINE Last(S) == CHOOSE r \in S : \A q \in S : q <= r
             Source  == IF IsSparse(a) /\ Replaced(e) # {}
                          THEN <<"sparse_values",
                                 cgltf_buffer_view_data("sparse_values")
                                     + sparse.values_byte_offset
                                     + element_size(a) * Last(Replaced(e)) + Layout(a, k)>>
                        ELSE IF doc[a].has_view
                          THEN <<ViewOf(a), cgltf_buffer_view_data(ViewOf(a)) + doc[a].offset
                                                + stride[a] * e + Layout(a, k)>>
                        ELSE Zero
  <2>4. LayoutSource(a, p) = Source
    BY <2>1 DEF LayoutSource
  <2>5. LayoutSource(a, p)' = Source'
    BY <2>2 DEF LayoutSource
  <2>6. Source' = Source
    BY <1>1, <1>2, <2>3
  <2>7. QED
    BY <2>4, <2>5, <2>6
<1>7. \A op, a : HasConversion(op, a)' <=> HasConversion(op, a)
  BY DEF HasConversion
<1>8. QED
  BY <1>1, <1>6, <1>7

LEMMA ReadElementIsRight ==
  ASSUME Sound, Trusted, NEW op \in {"readFloat", "readUint"}, NEW refused,
         ReadElement(op, refused), HasConversion(op, call'.of)
  PROVE  /\ call'.of \in Accessors
         /\ call'.returned = 1 /\ doc[call'.of].has_view =>
               LET n == num_components(call'.of)
               IN  call'.wrote
                     = [p \in 0 .. n - 1 |-> LayoutSource(call'.of, call'.index * n + p)]
<1>1. Numbers /\ Validated
  BY TrustedDocuments
<1>2. PICK a \in Accessors, index \in 0 .. 2, len \in Outs :
         LET n == num_components(a)
         IN  IF index >= doc[a].count \/ IsSparse(a)
               THEN Refuses(op, a, index, len)
             ELSE IF ~doc[a].has_view
               THEN Called(op, a, index, len, [p \in 0 .. len - 1 |-> Zero], 1)
             ELSE IF ~HasData(ViewOf(a)) \/ len < n \/ doc[a].type \in refused
               THEN Refuses(op, a, index, len)
             ELSE Called(op, a, index, len,
                         [p \in 0 .. n - 1 |->
                             From(op, a, Component(ViewOf(a), ElementAt(a, index), a, p))],
                         1)
  BY DEF ReadElement
<1> DEFINE n    == num_components(a)
           read == [p \in 0 .. n - 1 |->
                       From(op, a, Component(ViewOf(a), ElementAt(a, index), a, p))]
<1>3. /\ n \in {1, 2, 3, 4, 9, 16} /\ doc[a].count \in Nat /\ index \in Nat
  BY <1>1 DEF Numbers
<1>4. call'.of = a /\ call'.index = index
  BY <1>2 DEF Refuses, Called, CalledReading
<1>5. CASE ~(call'.returned = 1 /\ doc[a].has_view)
  BY <1>4, <1>5
<1>6. CASE call'.returned = 1 /\ doc[a].has_view
  <2>1. /\ index < doc[a].count /\ ~IsSparse(a)
        /\ Called(op, a, index, len, read, 1)
    BY <1>2, <1>3, <1>6 DEF Refuses, Called, CalledReading
  <2>2. call'.wrote = [p \in 0 .. n - 1 |-> Component(ViewOf(a), ElementAt(a, index), a, p)]
    <3>1. call'.wrote = read
      BY <2>1 DEF Called, CalledReading
    <3>2. \A component : From(op, a, component) = component
      BY <1>1, <1>4, HasConverted
    <3>3. QED
      BY <3>1, <3>2
  <2>3. ASSUME NEW p \in 0 .. n - 1
        PROVE  LayoutSource(a, index * n + p) = Component(ViewOf(a), ElementAt(a, index), a, p)
    <3>1. /\ index * n + p \in Nat /\ (index * n + p) \div n = index
          /\ (index * n + p) % n = p
      BY <1>3, PlaceOfComponent, Zenon
    <3>2. LayoutSource(a, index * n + p)
            = IF doc[a].has_view
                THEN Component(ViewOf(a), ElementAt(a, (index * n + p) \div n), a,
                               (index * n + p) % n)
                ELSE Zero
      BY <2>1, <3>1, BaseIsLaidOut
    <3>3. QED
      BY <1>6, <3>1, <3>2
  <2>4. QED
    BY <1>4, <2>2, <2>3
<1>7. QED
  BY <1>5, <1>6

\* What ReadersAreRight says of a call that has read an element, and of one that
\* has unpacked.
ElementRight(a, index, wrote) ==
    LET n == num_components(a)
    IN  wrote = [p \in 0 .. n - 1 |-> LayoutSource(a, index * n + p)]

UnpackedRight(a, len, wrote, returned) ==
    LET n == num_components(a)
    IN  /\ returned > 0 => wrote = [p \in 0 .. returned - 1 |-> LayoutSource(a, p)]
        /\ (\A v \in Views : HasData(v)) =>
              returned = n * SmallerOf(doc[a].count, len \div n)

CallRight ==
    /\ call.op \in {"readFloat", "readUint"} /\ call.returned = 1 /\ doc[call.of].has_view =>
          ElementRight(call.of, call.index, call.wrote)
    /\ call.op = "unpackFloats" /\ SparseFits(call.of) =>
          UnpackedRight(call.of, call.len, call.wrote, call.returned)

LEMMA RightCalls ==
  ReadersAreRight <=> (Trusted /\ HasConversion(call.op, call.of) => CallRight)
  BY DEF ReadersAreRight, LaidOut, Trusted, CallRight, ElementRight, UnpackedRight

LEMMA SameRight ==
  ASSUME doc' = doc, stride' = stride, decoded' = decoded, loaded' = loaded
  PROVE  /\ \A a, index, wrote : ElementRight(a, index, wrote)' <=> ElementRight(a, index, wrote)
         /\ \A a, len, wrote, returned :
               UnpackedRight(a, len, wrote, returned)' <=> UnpackedRight(a, len, wrote, returned)
<1>1. \A a, index, wrote : ElementRight(a, index, wrote)' <=> ElementRight(a, index, wrote)
  BY SameLayout DEF ElementRight
<1>2. \A v : HasData(v)' <=> HasData(v)
  BY DEF HasData
<1>3. \A a, len, wrote, returned :
         UnpackedRight(a, len, wrote, returned)' <=> UnpackedRight(a, len, wrote, returned)
  BY <1>2, SameLayout DEF UnpackedRight
<1>4. QED
  BY <1>1, <1>3

LEMMA UnpackFloatsIsRight ==
  ASSUME Sound, Trusted, unpackFloats, HasConversion("unpackFloats", call'.of),
         IsSparse(call'.of) =>
            /\ "sparse_indices" \in bounded \ decoded
            /\ call'.len >= doc[call'.of].count * num_components(call'.of)
  PROVE  call'.of \in Accessors
         /\ UnpackedRight(call'.of, call'.len, call'.wrote, call'.returned)
<1>1. Numbers /\ NothingWraps /\ Validated
  BY TrustedDocuments
<1>2. PICK a \in Accessors, len \in Outs :
         LET n     == num_components(a)
             count == SmallerOf(Times(doc[a].count, n), len) \div n
             base  == BaseFloats(a, count)
         IN  IF doc[a].has_view /\ ~HasData(ViewOf(a))
               THEN Refuses("unpackFloats", a, 0, len)
             ELSE IF ~IsSparse(a)
               THEN Called("unpackFloats", a, 0, len, base, count * n)
             ELSE IF HasData("sparse_indices") /\ HasData("sparse_values")
               THEN CalledReading("unpackFloats", a, 0, len, UnpackReads(base),
                                  Overwritten(base), count * n)
             ELSE Called("unpackFloats", a, 0, len, base, 0)
  BY DEF unpackFloats
<1> DEFINE n     == num_components(a)
           count == SmallerOf(Times(doc[a].count, n), len) \div n
           base  == BaseFloats(a, count)
<1>3. /\ n \in {1, 2, 3, 4, 9, 16} /\ doc[a].count \in Nat
      /\ count \in Nat /\ count <= doc[a].count
      /\ count = SmallerOf(doc[a].count, len \div n)
      /\ len >= doc[a].count * n => count = doc[a].count
  BY <1>1, CountOfUnpacked DEF Numbers
<1>4. call'.of = a /\ call'.len = len
  BY <1>2 DEF Refuses, Called, CalledReading
<1>5. "sparse_indices" \in Views /\ "sparse_values" \in Views /\ ViewOf(a) \in Views
  BY DEF Views, ViewOf
<1>6. count * n = n * SmallerOf(doc[a].count, len \div n)
  BY <1>3
<1>7. CASE doc[a].has_view /\ ~HasData(ViewOf(a))
  <2>1. call'.returned = 0
    BY <1>2, <1>7 DEF Refuses, Called, CalledReading
  <2>2. QED
    BY <1>4, <1>5, <1>7, <2>1 DEF UnpackedRight
<1>8. CASE ~(doc[a].has_view /\ ~HasData(ViewOf(a))) /\ ~IsSparse(a)
  <2>1. call'.wrote = base /\ call'.returned = count * n
    BY <1>2, <1>8 DEF Called, CalledReading
  <2>2. base = [p \in 0 .. count * n - 1 |-> LayoutSource(a, p)]
    <3>1. ASSUME NEW p \in 0 .. count * n - 1
          PROVE  p \in Nat /\ p \div n < doc[a].count
      <4>1. p \in Nat /\ p < count * n
        BY <1>3
      <4>2. p \div n < count /\ p \div n \in Nat
        BY <1>3, <4>1, Places
      <4>3. QED
        BY <1>3, <4>1, <4>2
    <3>2. ASSUME NEW p \in 0 .. count * n - 1
          PROVE  LayoutSource(a, p)
                   = IF doc[a].has_view
                       THEN Component(ViewOf(a), ElementAt(a, p \div n), a, p % n)
                       ELSE Zero
      BY <1>8, <3>1, BaseIsLaidOut
    <3>3. \A component : From("unpackFloats", a, component) = component
      BY <1>1, <1>4, HasConverted
    <3>4. QED
      BY <3>2, <3>3 DEF BaseFloats
  <2>3. QED
    BY <1>4, <1>6, <2>1, <2>2 DEF UnpackedRight
<1>9. CASE /\ IsSparse(a) /\ HasData("sparse_indices") /\ HasData("sparse_values")
           /\ ~(doc[a].has_view /\ ~HasData(ViewOf(a)))
  <2>1. call'.wrote = Overwritten(base) /\ call'.returned = count * n
    BY <1>2, <1>9 DEF CalledReading
  <2>2. a = "attribute" /\ doc.is_sparse /\ count = doc[a].count
    BY <1>3, <1>4, <1>9 DEF IsSparse
  <2>3. "sparse_indices" \in bounded \ decoded
    BY <1>4, <1>9
  <2>4. Overwritten(base) = [p \in 0 .. count * n - 1 |-> LayoutSource(a, p)]
    <3>1. HasConversion("unpackFloats", "attribute")
      BY <1>4, <2>2
    <3>2. Overwritten(BaseFloats("attribute", doc["attribute"].count))
            = [p \in 0 .. doc["attribute"].count * num_components("attribute") - 1 |->
                  LayoutSource("attribute", p)]
      BY <2>2, <2>3, <3>1, SparseIsLaidOut
    <3>3. QED
      BY <2>2, <3>2
  <2>5. QED
    BY <1>4, <1>6, <2>1, <2>4 DEF UnpackedRight
<1>10. CASE /\ IsSparse(a) /\ ~(HasData("sparse_indices") /\ HasData("sparse_values"))
            /\ ~(doc[a].has_view /\ ~HasData(ViewOf(a)))
  <2>1. call'.returned = 0
    BY <1>2, <1>10 DEF Called, CalledReading
  <2>2. QED
    BY <1>4, <1>5, <1>10, <2>1 DEF UnpackedRight
<1>11. QED
  BY <1>7, <1>8, <1>9, <1>10

LEMMA RightNext == Sound /\ ReadersAreRight /\ [Next]_vars => ReadersAreRight'
<1> SUFFICES ASSUME Sound, Trusted /\ HasConversion(call.op, call.of) => CallRight,
                    [Next]_vars, Trusted', HasConversion(call.op, call.of)'
             PROVE  CallRight'
  <2>1. (ReadersAreRight <=> (Trusted /\ HasConversion(call.op, call.of) => CallRight))'
    BY RightCalls, PTL
  <2>2. QED
    BY <2>1, RightCalls
<1>1. CASE UNCHANGED vars
  <2>1. /\ doc' = doc /\ stride' = stride /\ decoded' = decoded /\ call' = call
        /\ validated' = validated /\ bounded' = bounded /\ loaded' = loaded
    BY <1>1 DEF vars
  <2>2. Trusted /\ CallRight
    <3>1. HasConversion(call.op, call.of)
      BY <2>1, SameLayout DEF HasConversion
    <3>2. Trusted
      BY <2>1, SameDocument DEF Trusted
    <3>3. QED
      BY <3>1, <3>2
  <2>3. \A a : SparseFits(a)' <=> SparseFits(a)
    BY <2>1, SameLayout DEF SparseFits
  <2>4. QED
    BY <2>1, <2>2, <2>3, SameRight DEF CallRight
<1>2. CASE Fixup \/ Return \/ Load \/ Decode \/ cgltf_validate \/ readIndex \/ unpackIndices
  <2>1. call'.op \in {"none", "validate", "readIndex", "unpackIndices"}
    BY <1>2, ReadersAreNamed
  <2>2. QED
    BY <2>1 DEF CallRight
<1>3. CASE readFloat \/ readUint \/ unpackFloats
  <2>1. /\ doc' = doc /\ stride' = stride /\ decoded' = decoded /\ loaded' = loaded
        /\ validated' = validated /\ bounded' = bounded
    BY <1>3, ReadersChangeTheCall
  <2>2. Trusted /\ HasConversion(call'.op, call'.of)
    <3>1. Trusted
      BY <2>1, SameDocument DEF Trusted
    <3>2. HasConversion(call'.op, call'.of)
      BY <2>1 DEF HasConversion
    <3>3. QED
      BY <3>1, <3>2
  <2>3. CASE readFloat \/ readUint
    <3>1. call'.op \in {"readFloat", "readUint"}
      BY <2>3, ReadersAreNamed
    <3>2. call'.returned = 1 /\ doc[call'.of].has_view =>
             ElementRight(call'.of, call'.index, call'.wrote)
      <4>1. CASE readFloat
        <5>1. call'.op = "readFloat"
          BY <4>1 DEF readFloat, ReadElement, Refuses, Called, CalledReading
        <5>2. QED
          BY <2>2, <4>1, <5>1, ReadElementIsRight DEF readFloat, ElementRight
      <4>2. CASE readUint
        <5>1. call'.op = "readUint"
          BY <4>2 DEF readUint, ReadElement, Refuses, Called, CalledReading
        <5>2. QED
          BY <2>2, <4>2, <5>1, ReadElementIsRight DEF readUint, ElementRight
      <4>3. QED
        BY <2>3, <4>1, <4>2
    <3>3. ElementRight(call.of, call.index, call.wrote)'
             <=> ElementRight(call'.of, call'.index, call'.wrote)
      BY <2>1, SameRight
    <3>4. QED
      BY <2>1, <3>1, <3>2, <3>3 DEF CallRight
  <2>4. CASE unpackFloats
    <3>1. call'.op = "unpackFloats"
      BY <2>4, ReadersAreNamed
    <3>2. SparseFits(call.of)' =>
             (IsSparse(call'.of) =>
                 /\ "sparse_indices" \in bounded \ decoded
                 /\ call'.len >= doc[call'.of].count * num_components(call'.of))
      BY <2>1, SameLayout DEF SparseFits
    <3>3. SparseFits(call.of)' =>
             UnpackedRight(call'.of, call'.len, call'.wrote, call'.returned)
      BY <2>2, <2>4, <3>1, <3>2, UnpackFloatsIsRight
    <3>4. UnpackedRight(call.of, call.len, call.wrote, call.returned)'
             <=> UnpackedRight(call'.of, call'.len, call'.wrote, call'.returned)
      BY <2>1, SameRight
    <3>5. QED
      BY <3>1, <3>3, <3>4 DEF CallRight
  <2>5. QED
    BY <1>3, <2>3, <2>4
<1>4. QED
  BY <1>1, <1>2, <1>3 DEF Next

\* A reader that has a conversion for an accessor hands out the components of the
\* elements it is asked for, in order and from where glTF lays them out, strided, in
\* aligned columns or replaced by the last of their sparse elements, none more and
\* none left out, as long as the values of the sparse part are packed.
THEOREM ReadersFollowTheLayout == Spec => []ReadersAreRight
<1>1. Sound /\ ReadersAreRight /\ [Next]_vars => (Sound /\ ReadersAreRight)'
  BY SoundNext, RightNext
<1>2. Init => ReadersAreRight
  BY DEF Init, NoCall, ReadersAreRight, LaidOut
<1>3. QED
  BY <1>1, <1>2, SoundInit, PTL DEF Spec

=============================================================================
