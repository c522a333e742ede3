----------------------------- MODULE MCAccessor -----------------------------
(***************************************************************************)
(* The documents that Accessor is checked over: variations, one kind at a  *)
(* time, of a small document that cgltf_validate accepts.                  *)
(***************************************************************************)
EXTENDS Accessor, TLC

MCUsize == 128
Huge == 63          \* the largest number of a file: half of size_t

\* All the index bytes of a view are 0 but the one at an address.
Content(at, value) == at :> value

AView(offset, size) == [offset |-> offset, size |-> size, stride |-> 0, room |-> offset + size]

Plain ==
    [attribute |-> [type |-> "vec2", component_type |-> "r_8u", count |-> 2, normalized |-> FALSE,
                    offset |-> 1, has_view |-> TRUE],
     indices |-> [type |-> "scalar", component_type |-> "r_8u", count |-> 2, normalized |-> FALSE,
                  offset |-> 1, has_view |-> TRUE],
     is_sparse |-> FALSE,
     sparse |-> [count |-> 2, indices_component_type |-> "r_8u", indices_byte_offset |-> 1,
                 values_byte_offset |-> 1],
     view |-> [v \in Views |-> AView(1, IF v \in {"base", "sparse_values"} THEN 5 ELSE 3)],
     content |-> [v \in Views |-> [b \in {"buffer", "decoded"} |-> Content(3, 1)]],
     compressed |-> {}]

SparseOne == [Plain EXCEPT !.is_sparse = TRUE]

\* Every type with every size of its components, normalized or not, in a view just
\* large enough.
Shapes ==
    {[Plain EXCEPT !.attribute.type = type, !.attribute.component_type = component_type,
                   !.attribute.normalized = normalized,
                   !.view["base"] = [AView(1, 1 + 2 * cgltf_calc_size(type, component_type))
                       EXCEPT !.stride = 0]] :
        type \in {"scalar", "vec3", "mat2", "mat3"},
        component_type \in {"r_8u", "r_16", "r_32u", "r_32f", "invalid"},
        normalized \in BOOLEAN}

\* The base view around the limit: one byte too short for its elements or for
\* its buffer, more or less of a stride, numbers that wrap.
Bounds(d) ==
    {[d EXCEPT !.attribute.count = count, !.attribute.offset = offset,
               !.attribute.has_view = has_view,
               !.view["base"].size = size, !.view["base"].stride = given,
               !.view["base"].room = room, !.compressed = compressed] :
        count \in {0, 1, 2}, offset \in {0, 1, Huge}, has_view \in BOOLEAN, size \in {4, 5},
        given \in {0, 3, Huge}, room \in {5, 6}, compressed \in {{}, {"base"}}}

\* The sparse part: its counts and offsets around the limit, its indices in and
\* out of range and written twice.
Sparses ==
    {[SparseOne EXCEPT !.sparse.count = count, !.sparse.indices_byte_offset = offset,
                       !.sparse.values_byte_offset = values_offset,
                       !.attribute.has_view = has_view,
                       !.content["sparse_indices"]["buffer"] = Content(at, value),
                       !.view["sparse_indices"].room = room,
                       !.compressed = compressed] :
        count \in {1, 2}, offset \in {0, 1, 2}, values_offset \in {0, 1, 2},
        has_view \in BOOLEAN, at \in {2, 3}, value \in {1, 2}, room \in {3, 4},
        compressed \in {{}, {"sparse_indices"}, {"sparse_values"}}}

\* The indices of the primitive.
Indexed ==
    {[Plain EXCEPT !.indices.component_type = component_type, !.indices.count = count,
                   !.indices.offset = offset, !.view["indices"].stride = given,
                   !.view["indices"].size = size, !.view["indices"].room = size + 1,
                   !.content["indices"]["buffer"] = Content(at, value),
                   !.compressed = compressed] :
        component_type \in {"r_8u", "r_16u", "r_16"}, count \in {1, 2}, offset \in {0, 1},
        given \in {0, 2}, size \in {3, 5}, at \in {1, 3, 4}, value \in {1, 2},
        compressed \in {{}, {"indices"}}}

MCDocuments == Shapes \union Bounds(Plain) \union Bounds(SparseOne) \union Sparses \union Indexed
=============================================================================
