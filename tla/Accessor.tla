------------------------------ MODULE Accessor ------------------------------
(***************************************************************************)
(* The accessor readers of src/libs/cgltf/cgltf.h, as src/access.zig calls *)
(* them, and the checks of cgltf_validate they rely on: a reader computes  *)
(* an address from an offset, a stride and an index, and looks at no       *)
(* bound.                                                                  *)
(*                                                                         *)
(* The document has one mesh of one primitive, with an attribute that may  *)
(* be sparse and with indices.  Four buffer views, each over a buffer of   *)
(* its own, are read: that of the attribute, the two of its sparse part,   *)
(* and that of the indices.  A view's bytes lie in its buffer, or, when an *)
(* extension has decoded it, in a block the user has set as view.data.     *)
(*                                                                         *)
(* What a reader writes at a place of out is the address the value was     *)
(* taken from, or that it was taken from nowhere: what the reader has no   *)
(* conversion for is written as 0.  Only the indices that cgltf itself     *)
(* acts upon have values.  size_t is a number below Usize.                 *)
(***************************************************************************)
EXTENDS Integers, FiniteSets

CONSTANTS
    Usize,          \* one more than the largest size_t
    Documents,      \* what a parse may have left
    Outs            \* the lengths of out a user gives

ASSUME UsizeAssumption == Usize \in Nat \ {0}

Views == {"base", "sparse_indices", "sparse_values", "indices"}
Accessors == {"attribute", "indices"}

Sizes == 0 .. Usize - 1         \* a cgltf_size
Types == {"invalid", "scalar", "vec2", "vec3", "vec4", "mat2", "mat3", "mat4"}
ComponentTypes == {"invalid", "r_8", "r_8u", "r_16", "r_16u", "r_32u", "r_32f"}

\* A cgltf_data, as far as the readers look at it; an index is at least 0.
IsDocument(d) ==
    /\ \A a \in Accessors :
          d[a] \in [type : Types, component_type : ComponentTypes, count : Sizes,
                   normalized : BOOLEAN, offset : Sizes, has_view : BOOLEAN]
    /\ d.is_sparse \in BOOLEAN
    /\ d.sparse \in [count : Sizes, indices_component_type : ComponentTypes,
                    indices_byte_offset : Sizes, values_byte_offset : Sizes]
    /\ d.view \in [Views -> [offset : Sizes, size : Sizes, stride : Sizes, room : Sizes]]
    /\ \A v \in Views, block \in {"buffer", "decoded"} :
          LET nonzero == d.content[v][block]
          IN  \A address \in DOMAIN nonzero : nonzero[address] \in Nat
    /\ d.compressed \subseteq Views

ASSUME DocumentsAssumption == \A d \in Documents : IsDocument(d)
ASSUME OutsAssumption == Outs \subseteq Sizes

VARIABLES
    doc,            \* the document; it stays as the parse left it, but for
    stride,         \* accessor->stride of each accessor,
    loaded,         \* the views whose buffer has data,
    decoded,        \* and those with view.data
    phase,          \* "parse", then "held" by the user
    validated,      \* history: cgltf_validate has succeeded
    bounded,        \* history: the views whose indices a successful one has read
    call            \* the last call: what it read, what it wrote, what it returned

vars == <<doc, stride, loaded, decoded, phase, validated, bounded, call>>

-----------------------------------------------------------------------------
(***************************************************************************)
(* Sizes.                                                                  *)
(***************************************************************************)
cgltf_num_components(type) ==
    CASE type = "vec2" -> 2
      [] type = "vec3" -> 3
      [] type \in {"vec4", "mat2"} -> 4
      [] type = "mat3" -> 9
      [] type = "mat4" -> 16
      [] OTHER -> 1

cgltf_component_size(component_type) ==
    CASE component_type \in {"r_8", "r_8u"} -> 1
      [] component_type \in {"r_16", "r_16u"} -> 2
      [] component_type \in {"r_32u", "r_32f"} -> 4
      [] OTHER -> 0

cgltf_calc_size(type, component_type) ==
    LET component_size == cgltf_component_size(component_type)
    IN  CASE type = "mat2" /\ component_size = 1 -> 8 * component_size
          [] type = "mat3" /\ component_size \in {1, 2} -> 12 * component_size
          [] OTHER -> component_size * cgltf_num_components(type)

Plus(a, b)  == (a + b) % Usize
Times(a, b) == (a * b) % Usize

ViewOf(a) == IF a = "attribute" THEN "base" ELSE "indices"

element_size(a)   == cgltf_calc_size(doc[a].type, doc[a].component_type)
component_size(a) == cgltf_component_size(doc[a].component_type)
num_components(a) == cgltf_num_components(doc[a].type)

IsSparse(a) == a = "attribute" /\ doc.is_sparse

sparse == doc.sparse

indices_size == cgltf_component_size(sparse.indices_component_type)

(***************************************************************************)
(* cgltf_buffer_view_data: view.data, or the buffer's data at the offset.  *)
(***************************************************************************)
HasData(v) == v \in decoded \/ v \in loaded

cgltf_buffer_view_data(v) == IF v \in decoded THEN 0 ELSE doc.view[v].offset

\* What the user reads a view from.
Block(v) == IF v \in decoded THEN "decoded" ELSE "buffer"

Bytes(v, block, address, n) == {<<v, block, (address + k) % Usize>> : k \in 0 .. n - 1}

\* The index at an address of either block; most of them are 0.
Stored(v, block, address) ==
    LET nonzero == doc.content[v][block]
    IN  IF address % Usize \in DOMAIN nonzero THEN nonzero[address % Usize] ELSE 0

\* The index at an address, of what the view has its bytes in.
IndexAt(v, address) == Stored(v, Block(v), address)

-----------------------------------------------------------------------------
NoCall == [op |-> "none", of |-> "attribute", index |-> 0, len |-> 0,
           reads |-> {}, wrote |-> << >>, returned |-> 0]

Init ==
    /\ doc \in Documents
    /\ stride = [a \in Accessors |-> 0]
    /\ loaded = {} /\ decoded = {}
    /\ phase = "parse" /\ validated = FALSE /\ bounded = {} /\ call = NoCall

\* cgltf_fixup_pointers: an accessor takes its view's stride, and with none its
\* elements are tightly packed.
Fixup ==
    /\ phase = "parse"
    /\ stride' = [a \in Accessors |->
          LET given == IF doc[a].has_view THEN doc.view[ViewOf(a)].stride ELSE 0
          IN  IF given = 0 THEN element_size(a) ELSE given]
    /\ phase' = "held"
    /\ UNCHANGED <<doc, loaded, decoded, validated, bounded, call>>

Idle == phase = "held" /\ call = NoCall

\* The user is done with what a call has returned.
Return ==
    /\ call # NoCall /\ call' = NoCall
    /\ UNCHANGED <<doc, stride, loaded, decoded, phase, validated, bounded>>

\* cgltf_load_buffers, which may fail at any buffer and keeps those before it.
Load ==
    /\ Idle
    /\ \E v \in SUBSET Views :
          /\ "indices" \in v => v = Views
          /\ "sparse_values" \in v => {"base", "sparse_indices"} \subseteq v
          /\ "sparse_indices" \in v => "base" \in v
          /\ loaded' = loaded \union v
    /\ UNCHANGED <<doc, stride, decoded, phase, validated, bounded, call>>

\* The user decodes a compressed view and sets view.data.
Decode ==
    /\ Idle
    /\ \E v \in doc.compressed \ decoded : decoded' = decoded \union {v}
    /\ UNCHANGED <<doc, stride, loaded, phase, validated, bounded, call>>

-----------------------------------------------------------------------------
(***************************************************************************)
(* cgltf_validate, as far as it looks at accessors, views and indices.     *)
(***************************************************************************)
\* A mutant: one element too few is asked for.
ViewHoldsAllButOne(a) ==
    doc[a].has_view =>
        doc.view[ViewOf(a)].size >=
            Plus(Plus(doc[a].offset, Times(stride[a], doc[a].count - 2)), element_size(a))

ViewHoldsElements(a) ==
    doc[a].has_view =>
        doc.view[ViewOf(a)].size >=
            Plus(Plus(doc[a].offset, Times(stride[a], doc[a].count - 1)), element_size(a))

SparseIsHeld ==
    /\ doc.view["sparse_indices"].size >=
          Plus(sparse.indices_byte_offset, Times(indices_size, sparse.count))
    /\ doc.view["sparse_values"].size >=
          Plus(sparse.values_byte_offset, Times(element_size("attribute"), sparse.count))
    /\ sparse.indices_component_type \in {"r_8u", "r_16u", "r_32u"}

\* cgltf_calc_index_bound reads through the buffer, also when the view is decoded.
BoundAddress(v, offset, size, k) == (doc.view[v].offset + offset + size * k) % Usize

\* A mutant: the first index that is out of range is let through.
IndicesBarelyBelow(v, offset, size, count, bound) ==
    \A k \in 0 .. count - 1 :
        Stored(v, "buffer", BoundAddress(v, offset, size, k)) <= bound

IndicesBelow(v, offset, size, count, bound) ==
    /\ bound > 0
    /\ \A k \in 0 .. count - 1 :
          Stored(v, "buffer", BoundAddress(v, offset, size, k)) < bound

SparseIsBelow ==
    IndicesBelow("sparse_indices", sparse.indices_byte_offset, indices_size,
                 sparse.count, doc["attribute"].count)

HasTypes(a) == doc[a].component_type # "invalid" /\ doc[a].type # "invalid"

ReachesSparse ==
    HasTypes("attribute") /\ ViewHoldsElements("attribute") /\ IsSparse("attribute")
    /\ SparseIsHeld

AccessorsAreValid ==
    /\ \A a \in Accessors : HasTypes(a) /\ ViewHoldsElements(a)
    /\ doc.is_sparse => SparseIsHeld /\ ("sparse_indices" \in loaded => SparseIsBelow)

ViewsAreValid ==
    \A v \in Views : doc.view[v].room >= Plus(doc.view[v].offset, doc.view[v].size)

IndicesAreShaped ==
    /\ doc["indices"].component_type \in {"r_8u", "r_16u", "r_32u"}
    /\ doc["indices"].type = "scalar"
    /\ stride["indices"] = component_size("indices")

ReachesIndices ==
    /\ AccessorsAreValid /\ ViewsAreValid /\ doc["attribute"].count # 0
    /\ IndicesAreShaped /\ doc["indices"].has_view

PrimitiveIsValid ==
    /\ doc["attribute"].count # 0
    /\ IndicesAreShaped
    /\ doc["indices"].has_view /\ "indices" \in loaded =>
          IndicesBelow("indices", doc["indices"].offset, component_size("indices"),
                       doc["indices"].count, doc["attribute"].count)

\* The indices it reads on the way: those of the sparse part before it has come
\* to the view they lie in.
BoundReads(v, offset, size, count) ==
    UNION {Bytes(v, "buffer", BoundAddress(v, offset, size, k), size) : k \in 0 .. count - 1}

ValidateReads ==
    (IF ReachesSparse /\ "sparse_indices" \in loaded
       THEN BoundReads("sparse_indices", sparse.indices_byte_offset, indices_size,
                       sparse.count)
       ELSE {})
    \union
    (IF ReachesIndices /\ "indices" \in loaded
       THEN BoundReads("indices", doc["indices"].offset, component_size("indices"),
                       doc["indices"].count)
       ELSE {})

cgltf_validate ==
    LET valid == AccessorsAreValid /\ ViewsAreValid /\ PrimitiveIsValid
    IN  /\ Idle
        /\ call' = [NoCall EXCEPT !.op = "validate", !.reads = ValidateReads,
                                  !.returned = IF valid THEN 1 ELSE 0]
        /\ validated' = (validated \/ valid)
        /\ bounded' = IF valid THEN bounded \union (loaded \ {"base", "sparse_values"})
                               ELSE bounded
        /\ UNCHANGED <<doc, stride, loaded, decoded, phase>>

-----------------------------------------------------------------------------
(***************************************************************************)
(* The readers.  Zero is the source of a component that no data stands     *)
(* behind.                                                                 *)
(***************************************************************************)
Zero == <<"zero", 0>>

\* A mutant: the columns of a matrix of shorts are taken to be packed.
UnalignedShorts(type, size, k) ==
    CASE type = "mat2" /\ size = 1 -> <<0, 1, 4, 5>>[k + 1]
      [] type = "mat3" /\ size = 1 -> <<0, 1, 2, 4, 5, 6, 8, 9, 10>>[k + 1]
      [] OTHER -> k * size

\* cgltf_element_read_float: where component k lies in its element.
ComponentOffset(type, size, k) ==
    CASE type = "mat2" /\ size = 1 -> <<0, 1, 4, 5>>[k + 1]
      [] type = "mat3" /\ size = 1 -> <<0, 1, 2, 4, 5, 6, 8, 9, 10>>[k + 1]
      [] type = "mat3" /\ size = 2 -> <<0, 2, 4, 8, 10, 12, 16, 18, 20>>[k + 1]
      [] OTHER -> k * size

Component(v, address, a, k) ==
    <<v, (address + ComponentOffset(doc[a].type, component_size(a), k)) % Usize>>

\* The component types that cgltf_component_read_float reads, and those that
\* cgltf_component_read_uint reads; for any other they return 0 and read nothing.
ReadsAsFloat(a) ==
    /\ doc[a].component_type # "invalid"
    /\ doc[a].normalized => doc[a].component_type # "r_32u"

ReadsAsUint(a) == doc[a].component_type \notin {"invalid", "r_32f"}

Converts(op, a) == IF op = "readUint" THEN ReadsAsUint(a) ELSE ReadsAsFloat(a)

From(op, a, component) == IF Converts(op, a) THEN component ELSE Zero

\* element += accessor->offset + accessor->stride * index
ElementAt(a, index) ==
    (cgltf_buffer_view_data(ViewOf(a)) + doc[a].offset + stride[a] * index) % Usize

ReadsOf(sources, size) ==
    UNION {Bytes(s[1], Block(s[1]), s[2], size) : s \in sources \ {Zero}}

SourcesOf(wrote) == {wrote[p] : p \in DOMAIN wrote}

\* What a call on accessor a leaves: out, written from these addresses.
CalledReading(op, a, index, len, reads, wrote, returned) ==
    call' = [op |-> op, of |-> a, index |-> index, len |-> len, reads |-> reads,
             wrote |-> wrote, returned |-> returned]

Called(op, a, index, len, wrote, returned) ==
    CalledReading(op, a, index, len, ReadsOf(SourcesOf(wrote), component_size(a)),
                  wrote, returned)

Reader == Idle /\ UNCHANGED <<doc, stride, loaded, decoded, phase, validated, bounded>>

Refuses(op, a, index, len) == Called(op, a, index, len, << >>, 0)

\* cgltf_accessor_read_float and cgltf_accessor_read_uint behind the guard of
\* src/access.zig: they share all but the matrices that read_uint refuses and the
\* component types they read.
ReadElement(op, refused) ==
    /\ Reader
    /\ \E a \in Accessors, index \in 0 .. 2, len \in Outs :
          LET n == num_components(a)
          IN  IF index >= doc[a].count \/ IsSparse(a)
                THEN Refuses(op, a, index, len)
              ELSE IF ~doc[a].has_view
                THEN Called(op, a, index, len, [p \in 0 .. len - 1 |-> Zero], 1)
              ELSE IF ~HasData(ViewOf(a)) \/ len < n \/ doc[a].type \in refused
                THEN Refuses(op, a, index, len)
              ELSE Called(op, a, index, len,
                          [p \in 0 .. n - 1 |->
                              From(op, a, Component(ViewOf(a), ElementAt(a, index), a, p))],
                          1)

readFloat == ReadElement("readFloat", {})
readUint  == ReadElement("readUint", {"mat2", "mat3", "mat4"})

\* cgltf_component_read_index knows the unsigned types; a value of another is 0.
IndexSource(a, address) ==
    IF doc[a].component_type \in {"r_8u", "r_16u", "r_32u"}
      THEN <<ViewOf(a), address % Usize>> ELSE Zero

\* cgltf_accessor_read_index: 0 stands for every refusal.
readIndex ==
    /\ Reader
    /\ \E a \in Accessors, index \in 0 .. 2 :
          IF \/ index >= doc[a].count \/ IsSparse(a) \/ ~doc[a].has_view
             \/ ~HasData(ViewOf(a))
            THEN Called("readIndex", a, index, 1, [p \in {0} |-> Zero], 0)
            ELSE Called("readIndex", a, index, 1,
                        [p \in {0} |-> IndexSource(a, ElementAt(a, index))], 1)

SmallerOf(a, b) == IF a < b THEN a ELSE b

(***************************************************************************)
(* cgltf_accessor_unpack_floats.  Its memcpy is the loop for packed floats.*)
(* The sparse pass steps through the values by the accessor's stride, and  *)
(* writes where the indices say; the last one for an element stays.        *)
(***************************************************************************)
BaseFloats(a, count) ==
    [p \in 0 .. count * num_components(a) - 1 |->
        IF doc[a].has_view
          THEN From("unpackFloats", a,
                    Component(ViewOf(a), ElementAt(a, p \div num_components(a)), a,
                              p % num_components(a)))
          ELSE Zero]

IndexAddress(r) ==
    cgltf_buffer_view_data("sparse_indices") + sparse.indices_byte_offset
        + indices_size * r

WriterIndex(r) == IndexAt("sparse_indices", IndexAddress(r))

SparseFloats(r) ==
    LET n == num_components("attribute")
        address == cgltf_buffer_view_data("sparse_values") + sparse.values_byte_offset
                       + stride["attribute"] * r
    IN  [p \in WriterIndex(r) * n .. WriterIndex(r) * n + n - 1 |->
            From("unpackFloats", "attribute",
                 Component("sparse_values", address, "attribute", p % n))]

\* f after all sparse elements; the last of those for one place counts.
Overwritten(f) ==
    LET by(p) == {r \in 0 .. sparse.count - 1 : p \in DOMAIN SparseFloats(r)}
    IN  [p \in DOMAIN f \union UNION {DOMAIN SparseFloats(r) : r \in 0 .. sparse.count - 1} |->
            IF by(p) = {} THEN f[p]
            ELSE SparseFloats(CHOOSE r \in by(p) : \A q \in by(p) : q <= r)[p]]

\* The reads of both passes, of the elements that are overwritten too.
UnpackReads(f) ==
    ReadsOf(SourcesOf(f) \union UNION {SourcesOf(SparseFloats(r)) : r \in 0 .. sparse.count - 1},
            component_size("attribute"))
    \union
    UNION {Bytes("sparse_indices", Block("sparse_indices"), IndexAddress(r), indices_size) :
              r \in 0 .. sparse.count - 1}

unpackFloats ==
    /\ Reader
    /\ \E a \in Accessors, len \in Outs :
          LET n     == num_components(a)
              count == SmallerOf(Times(doc[a].count, n), len) \div n
              base  == BaseFloats(a, count)
          IN  IF doc[a].has_view /\ ~HasData(ViewOf(a))
                THEN Refuses("unpackFloats", a, 0, len)
              ELSE IF ~IsSparse(a)
                THEN Called("unpackFloats", a, 0, len, base, count * n)
              ELSE IF HasData("sparse_indices") /\ HasData("sparse_values")
                THEN CalledReading("unpackFloats", a, 0, len, UnpackReads(base),
                                   Overwritten(base), count * n)
              ELSE Called("unpackFloats", a, 0, len, base, 0)

\* cgltf_accessor_unpack_indices: the values are copied as they are, or widened,
\* which it does for outputs of two and of four bytes.
unpackIndices ==
    /\ Reader
    /\ \E a \in Accessors, len \in Outs, out_component_size \in {1, 2, 4, 8} :
          LET count == SmallerOf(doc[a].count, len)
              start == ElementAt(a, 0)
              size  == component_size(a)
          IN  IF \/ IsSparse(a) \/ ~doc[a].has_view \/ size > out_component_size
                 \/ ~HasData(ViewOf(a))
                THEN Refuses("unpackIndices", a, 0, len)
              ELSE IF size = out_component_size /\ stride[a] = out_component_size
                THEN Called("unpackIndices", a, 0, len,
                            [p \in 0 .. count - 1 |->
                                <<ViewOf(a), (start + size * p) % Usize>>], count)
              ELSE Called("unpackIndices", a, 0, len,
                          [p \in 0 .. (IF out_component_size \in {2, 4} THEN count ELSE 0) - 1
                              |-> IndexSource(a, ElementAt(a, p))], count)

Next ==
    \/ Fixup \/ Return \/ Load \/ Decode \/ cgltf_validate
    \/ readFloat \/ readUint \/ readIndex \/ unpackFloats \/ unpackIndices

Spec == Init /\ [][Next]_vars
-----------------------------------------------------------------------------
(***************************************************************************)
(* The properties.                                                         *)
(***************************************************************************)

\* The sums that cgltf_validate makes of a file's numbers stay below Usize, and so
\* does the number of an accessor's floats.
NothingWraps ==
    /\ \A a \in Accessors :
          /\ doc[a].offset + stride[a] * doc[a].count + element_size(a) < Usize
          /\ doc[a].count * num_components(a) < Usize
    /\ \A v \in Views : doc.view[v].offset + doc.view[v].size < Usize
    /\ doc.is_sparse =>
          /\ sparse.indices_byte_offset + indices_size * sparse.count < Usize
          /\ sparse.values_byte_offset + element_size("attribute") * sparse.count < Usize

\* cgltf_validate takes the values of a sparse part to be packed; the reader
\* steps through them with the stride of the base view.
ValuesArePacked ==
    doc.is_sparse /\ sparse.count > 1 => stride["attribute"] = element_size("attribute")

\* "accessor bounds against buffer views" (src/src/document.zig:88-89): once
\* cgltf_validate has succeeded, no call reads a byte outside of the view, or
\* outside of the buffer the view is a part of, before or after an extension
\* has decoded it.
ReadsInside ==
    validated /\ NothingWraps /\ ValuesArePacked =>
        \A r \in call.reads :
            LET view  == doc.view[r[1]]
                start == IF r[2] = "decoded" THEN 0 ELSE view.offset
            IN  /\ start <= r[3] /\ r[3] < start + view.size
                /\ r[2] = "buffer" => r[3] < view.room

\* The element a place of out is about, and the address that the glTF layout
\* gives the component: columns of a matrix begin at multiples of four bytes,
\* elements follow each other by the stride, those of the sparse part replace them.
Rows(type) ==
    CASE type = "mat2" -> 2 [] type = "mat3" -> 3 [] type = "mat4" -> 4
      [] OTHER -> cgltf_num_components(type)

Aligned(n) == ((n + 3) \div 4) * 4

Layout(a, k) ==
    LET size == component_size(a)
        rows == Rows(doc[a].type)
    IN  (k \div rows) * Aligned(rows * size) + (k % rows) * size

Replaced(e) == {r \in 0 .. sparse.count - 1 : WriterIndex(r) = e}

LayoutSource(a, p) ==
    LET e == p \div num_components(a)
        k == p % num_components(a)
    IN  IF IsSparse(a) /\ Replaced(e) # {}
          THEN <<"sparse_values",
                 cgltf_buffer_view_data("sparse_values") + sparse.values_byte_offset
                     + element_size(a) * (CHOOSE r \in Replaced(e) : \A q \in Replaced(e) : q <= r)
                     + Layout(a, k)>>
        ELSE IF doc[a].has_view
          THEN <<ViewOf(a), cgltf_buffer_view_data(ViewOf(a)) + doc[a].offset
                                + stride[a] * e + Layout(a, k)>>
        ELSE Zero

\* After cgltf_validate has read the indices of a sparse part, and none has been
\* decoded since, out is long enough for what the sparse pass writes.
SparseFits(a) ==
    IsSparse(a) =>
        /\ "sparse_indices" \in bounded \ decoded
        /\ call.len >= doc[a].count * num_components(a)

\* The values a reader is for.  For the others it writes 0 and returns 1: floats as
\* unsigned integers, of which src/src/access.zig:50-51 says that "float-sourced
\* accessors are refused"; and "glTF spec doesn't currently define normalized
\* conversions for 32-bit integers" (cgltf.h:2257).
HasConversion(op, a) ==
    /\ op = "readUint" => doc[a].component_type # "r_32f"
    /\ op # "readUint" /\ doc[a].normalized => doc[a].component_type # "r_32u"

\* What a reader has written: the components of the elements it was asked for, in
\* order, none more and none left out.
LaidOut ==
    LET a == call.of
        n == num_components(a)
    IN  /\ call.op \in {"readFloat", "readUint"} /\ call.returned = 1 /\ doc[a].has_view =>
              call.wrote = [p \in 0 .. n - 1 |-> LayoutSource(a, call.index * n + p)]
        /\ call.op = "unpackFloats" /\ SparseFits(a) =>
              /\ call.returned > 0 =>
                    call.wrote = [p \in 0 .. call.returned - 1 |-> LayoutSource(a, p)]
              /\ (\A v \in Views : HasData(v)) =>
                    call.returned = n * SmallerOf(doc[a].count, call.len \div n)

\* Element by element or all at once, a reader hands out the components of the
\* elements it is asked for, wherever the columns, the stride and the sparse part
\* have put them, if it has a conversion for them and the sparse values are packed.
ReadersAreRight ==
    validated /\ NothingWraps /\ ValuesArePacked /\ HasConversion(call.op, call.of)
    => LaidOut

\* "values_req_size = sparse->values_byte_offset + element_size * sparse->count"
\* (cgltf.h:1616): by that check of cgltf_validate the values of a sparse part lie
\* one after the other, whatever the stride of the elements they replace.
SparseValuesArePacked ==
    validated /\ NothingWraps /\ HasConversion(call.op, call.of)
    /\ call.op = "unpackFloats" /\ IsSparse(call.of)
    => LaidOut

\* The indices of a validated primitive name vertices it has: cgltf_validate has
\* compared each with the count of the attribute.  It can for those that were
\* loaded at the time, in the bytes the user still reads.
IndicesNameVertices ==
    /\ validated /\ "indices" \in bounded \ decoded /\ NothingWraps
    /\ call.of = "indices" /\ call.op \in {"readIndex", "unpackIndices"}
    => \A s \in SourcesOf(call.wrote) \ {Zero} :
          IndexAt("indices", s[2]) < doc["attribute"].count

\* "returns the written prefix" (src/src/access.zig:86, 98): what unpackFloats
\* and unpackIndices have written is the prefix of out whose length they return.
OnlyThePrefixIsWritten ==
    call.op \in {"unpackFloats", "unpackIndices"} /\ call.returned > 0 =>
        DOMAIN call.wrote = 0 .. call.returned - 1
=============================================================================
