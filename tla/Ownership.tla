------------------------------ MODULE Ownership ------------------------------
(***************************************************************************)
(* Who owns the memory of a document.                                      *)
(*                                                                         *)
(* cgltf_parse_json walks the tokens with one recursive function per kind  *)
(* of object; each stores the strings and arrays it allocates straight     *)
(* into the half-built cgltf_data, and on any error simply returns.        *)
(* cgltf_free is a second, hand-written walk over the same structs, and it *)
(* has to release exactly what the first one stored, whatever the point at *)
(* which the parser gave up: an array whose elements were not all filled,  *)
(* a count without its array, a union with only one side live, an object   *)
(* guarded by a has_ flag.                                                 *)
(*                                                                         *)
(* The two walks are two tables here (Parses, Frees), each translated from *)
(* its own code.  One machine runs the parser over a document whose keys,  *)
(* lengths and errors are chosen as it goes, with allocations that fail,   *)
(* and hands the result to cgltf_free.                                     *)
(*                                                                         *)
(* A place is a sequence of steps <<field, index, type>> from cgltf_data.  *)
(* <<f, 0, "block">> is the block field f points to; <<f, k, t>> is the    *)
(* k-th element, a t, of the array of f; <<f, 0, t>> is a struct t held    *)
(* inside its parent.  Keys that store no memory (numbers, indices, enums, *)
(* texture views, the material and compression extensions) are left out:   *)
(* all they can do is be malformed, and Malformed is always possible.      *)
(***************************************************************************)
EXTENDS Integers, Sequences, FiniteSets

CONSTANTS
    MaxBlocks,      \* bound: live blocks, the token array and cgltf_data among them
    MaxElements,    \* bound: the length of any one array or "extensions" object
    MaxKeys,        \* bound: the fields of one object that hold blocks
    MaxRootKeys     \* bound: the same for the outermost object

ASSUME BoundsAssumption ==
    /\ MaxBlocks \in Nat /\ MaxElements \in Nat
    /\ MaxKeys \in Nat /\ MaxRootKeys \in Nat

VARIABLES
    heap,       \* places whose pointer holds a live block
    lost,       \* places whose earlier block was overwritten while live
    count,      \* the ..._count next to an array pointer, by the array's place
    flags,      \* has_ flags and the camera's type, as the places they guard
    stack,      \* the parser functions that have not returned
    pc,         \* where cgltf_parse_json is, and after it the caller
    result,     \* what cgltf_parse_json returned
    oom         \* history: an allocation has returned NULL

vars == <<heap, lost, count, flags, stack, pc, result, oom>>

(***************************************************************************)
(* Shapes: what a key of an object makes the parser do with memory.        *)
(***************************************************************************)

\* One block: a string, the text of extras, an array of numbers or indices.
Block == [kind |-> "block", of |-> "none"]
\* An array whose elements are parsed one by one.
ArrayOf(t) == [kind |-> "array", of |-> t]
\* The object of vertex attributes; its keys become an array.
AttributeList == [kind |-> "attributes", of |-> "attribute"]
\* The "extensions" object.
Extensions == [kind |-> "extensions", of |-> "extension"]
\* The "mappings" of KHR_materials_variants.
Mappings == [kind |-> "mappings", of |-> "mapping"]
\* A struct held in its parent: always live, guarded by a flag of its own, or
\* one side of a union.
Inside(t) == [kind |-> "inside", of |-> t]
Flagged(t) == [kind |-> "flagged", of |-> t]
OneOf(t) == [kind |-> "oneof", of |-> t]
\* An extension whose keys fill fields of the object it extends.
Within(t) == [kind |-> "within", of |-> t]

-----------------------------------------------------------------------------
(***************************************************************************)
(* What each parser function stores, by the field it stores into.          *)
(***************************************************************************)

Described == [name |-> Block, extras |-> Block, extensions |-> Extensions]

ParsesRoot ==
    [asset |-> Inside("asset"), meshes |-> ArrayOf("mesh"),
     accessors |-> ArrayOf("accessor"), buffer_views |-> ArrayOf("buffer_view"),
     buffers |-> ArrayOf("buffer"), materials |-> ArrayOf("material"),
     images |-> ArrayOf("image"), textures |-> ArrayOf("texture"),
     samplers |-> ArrayOf("sampler"), skins |-> ArrayOf("skin"),
     cameras |-> ArrayOf("camera"), nodes |-> ArrayOf("node"),
     scenes |-> ArrayOf("scene"), animations |-> ArrayOf("animation"),
     extras |-> Block, data_extensions |-> Extensions,
     extensions_used |-> ArrayOf("string"), extensions_required |-> ArrayOf("string")]

ParsesAsset ==
    [copyright |-> Block, generator |-> Block, version |-> Block,
     min_version |-> Block, extras |-> Block, extensions |-> Extensions]

\* "extras" of a mesh: only its "targetNames" is kept.
ParsesMesh ==
    [name |-> Block, primitives |-> ArrayOf("primitive"), weights |-> Block,
     target_names |-> ArrayOf("string"), extensions |-> Extensions]

ParsesPrimitive ==
    [attributes |-> AttributeList, targets |-> ArrayOf("target"),
     extras |-> Block, extensions |-> Extensions]

ParsesAccessor == Described
ParsesBufferView == Described
ParsesBuffer == [name |-> Block, uri |-> Block, extras |-> Block,
                 extensions |-> Extensions]
ParsesMaterial == Described
ParsesImage == [uri |-> Block, mime_type |-> Block, name |-> Block,
                extras |-> Block, extensions |-> Extensions]
ParsesTexture == Described
ParsesSampler == Described
ParsesSkin == [name |-> Block, joints |-> Block, extras |-> Block,
               extensions |-> Extensions]

ParsesCamera ==
    [name |-> Block, perspective |-> OneOf("projection"),
     orthographic |-> OneOf("projection"), extras |-> Block,
     extensions |-> Extensions]

ParsesLight == [name |-> Block, extras |-> Block]
ParsesNode == [name |-> Block, children |-> Block, weights |-> Block,
               extras |-> Block, extensions |-> Extensions]
ParsesScene == [name |-> Block, nodes |-> Block, extras |-> Block,
                extensions |-> Extensions]
ParsesAnimation == [name |-> Block, samplers |-> ArrayOf("animation_sampler"),
                    channels |-> ArrayOf("animation_channel"),
                    extras |-> Block, extensions |-> Extensions]
ParsesAnimationSampler == [extras |-> Block, extensions |-> Extensions]
\* Both keys stand inside the channel's "target".
ParsesAnimationChannel == [extras |-> Block, extensions |-> Extensions]
ParsesVariant == [name |-> Block, extras |-> Block]
ParsesDraco == [attributes |-> AttributeList]
ParsesGpuInstancing == [attributes |-> AttributeList]

Parses ==
    [data |-> ParsesRoot, asset |-> ParsesAsset, mesh |-> ParsesMesh,
     primitive |-> ParsesPrimitive, accessor |-> ParsesAccessor,
     buffer_view |-> ParsesBufferView, buffer |-> ParsesBuffer,
     material |-> ParsesMaterial, image |-> ParsesImage,
     texture |-> ParsesTexture, sampler |-> ParsesSampler, skin |-> ParsesSkin,
     camera |-> ParsesCamera, light |-> ParsesLight, node |-> ParsesNode,
     scene |-> ParsesScene, animation |-> ParsesAnimation,
     animation_sampler |-> ParsesAnimationSampler,
     animation_channel |-> ParsesAnimationChannel, variant |-> ParsesVariant,
     draco |-> ParsesDraco, gpu_instancing |-> ParsesGpuInstancing,
     projection |-> [extras |-> Block],
     lights_punctual |-> [lights |-> ArrayOf("light")],
     variants_list |-> [variants |-> ArrayOf("variant")],
     variant_mappings |-> [mappings |-> Mappings],
     string |-> [text |-> Block],
     attribute |-> [name |-> Block],
     extension |-> [name |-> Block, data |-> Block],
     target |-> [attributes |-> AttributeList],
     mapping |-> [extras |-> Block]]

\* The extensions an "extensions" object knows by name; any other is copied
\* unparsed into the extensions array.
Knows ==
    [data |-> [KHR_lights_punctual |-> Within("lights_punctual"),
               KHR_materials_variants |-> Within("variants_list")],
     primitive |-> [draco_mesh_compression |-> Flagged("draco"),
                    KHR_materials_variants |-> Within("variant_mappings")],
     node |-> [mesh_gpu_instancing |-> Flagged("gpu_instancing")]]

-----------------------------------------------------------------------------
(***************************************************************************)
(* What cgltf_free releases, field by field.                               *)
(***************************************************************************)

Named == [name |-> Block, extensions |-> ArrayOf("extension"), extras |-> Block]

FreesRoot ==
    [asset |-> Inside("asset"), accessors |-> ArrayOf("accessor"),
     buffer_views |-> ArrayOf("buffer_view"), buffers |-> ArrayOf("buffer"),
     meshes |-> ArrayOf("mesh"), materials |-> ArrayOf("material"),
     images |-> ArrayOf("image"), textures |-> ArrayOf("texture"),
     samplers |-> ArrayOf("sampler"), skins |-> ArrayOf("skin"),
     cameras |-> ArrayOf("camera"), lights |-> ArrayOf("light"),
     nodes |-> ArrayOf("node"), scenes |-> ArrayOf("scene"),
     animations |-> ArrayOf("animation"), variants |-> ArrayOf("variant"),
     data_extensions |-> ArrayOf("extension"), extras |-> Block,
     extensions_used |-> ArrayOf("string"), extensions_required |-> ArrayOf("string")]

FreesAsset ==
    [copyright |-> Block, generator |-> Block, version |-> Block,
     min_version |-> Block, extensions |-> ArrayOf("extension"), extras |-> Block]

FreesMesh ==
    [name |-> Block, primitives |-> ArrayOf("primitive"), weights |-> Block,
     target_names |-> ArrayOf("string"), extensions |-> ArrayOf("extension"),
     extras |-> Block]

FreesPrimitive ==
    [attributes |-> ArrayOf("attribute"), targets |-> ArrayOf("target"),
     draco_mesh_compression |-> Flagged("draco"), mappings |-> ArrayOf("mapping"),
     extensions |-> ArrayOf("extension"), extras |-> Block]

FreesBuffer == [name |-> Block, uri |-> Block,
                extensions |-> ArrayOf("extension"), extras |-> Block]
FreesImage == [name |-> Block, uri |-> Block, mime_type |-> Block,
               extensions |-> ArrayOf("extension"), extras |-> Block]
FreesSkin == [name |-> Block, joints |-> Block,
              extensions |-> ArrayOf("extension"), extras |-> Block]
FreesCamera == [name |-> Block, perspective |-> OneOf("projection"),
                orthographic |-> OneOf("projection"),
                extensions |-> ArrayOf("extension"), extras |-> Block]
FreesLight == [name |-> Block, extras |-> Block]
\* A mutant: a newly added extension is parsed, and not released.
FreesNodeNoInstancing ==
    [name |-> Block, children |-> Block, weights |-> Block,
     extensions |-> ArrayOf("extension"), extras |-> Block]

FreesNode == [name |-> Block, children |-> Block, weights |-> Block,
              mesh_gpu_instancing |-> Flagged("gpu_instancing"),
              extensions |-> ArrayOf("extension"), extras |-> Block]
FreesScene == [name |-> Block, nodes |-> Block,
               extensions |-> ArrayOf("extension"), extras |-> Block]
FreesAnimation == [name |-> Block, samplers |-> ArrayOf("animation_sampler"),
                   channels |-> ArrayOf("animation_channel"),
                   extensions |-> ArrayOf("extension"), extras |-> Block]
\* A sampler or a channel of an animation.
FreesAnimated == [extensions |-> ArrayOf("extension"), extras |-> Block]
FreesVariant == [name |-> Block, extras |-> Block]
FreesExtension == [name |-> Block, data |-> Block]

Frees ==
    [data |-> FreesRoot, asset |-> FreesAsset, mesh |-> FreesMesh,
     primitive |-> FreesPrimitive, accessor |-> Named, buffer_view |-> Named,
     buffer |-> FreesBuffer, material |-> Named, image |-> FreesImage,
     texture |-> Named, sampler |-> Named, skin |-> FreesSkin,
     camera |-> FreesCamera, light |-> FreesLight, node |-> FreesNode,
     scene |-> FreesScene, animation |-> FreesAnimation,
     animation_sampler |-> FreesAnimated, animation_channel |-> FreesAnimated,
     variant |-> FreesVariant, extension |-> FreesExtension,
     projection |-> [extras |-> Block],
     draco |-> [attributes |-> ArrayOf("attribute")],
     gpu_instancing |-> [attributes |-> ArrayOf("attribute")],
     target |-> [attributes |-> ArrayOf("attribute")],
     attribute |-> [name |-> Block], string |-> [text |-> Block],
     mapping |-> [extras |-> Block]]

-----------------------------------------------------------------------------
(***************************************************************************)
(* Places.                                                                 *)
(***************************************************************************)

DataPlace == <<>>
TokensPlace == <<<<"tokens", 0, "block">>>>

Field(o, f) == Append(o, <<f, 0, "block">>)
Struct(o, f, t) == Append(o, <<f, 0, t>>)
Element(o, f, k, t) == Append(o, <<f, k, t>>)

TypeOf(o) == IF o = DataPlace THEN "data" ELSE o[Len(o)][3]
CountOf(p) == IF p \in DOMAIN count THEN count[p] ELSE 0
SetCount(p, n) ==
    count' = [q \in DOMAIN count \cup {p} |-> IF q = p THEN n ELSE count[q]]

\* cgltf_free, standing at the object of place o, goes on to step s.
Walks(o, s) ==
    /\ s[1] \in DOMAIN Frees[TypeOf(o)]
    /\ LET shape == Frees[TypeOf(o)][s[1]]
           place == Append(o, s)
       IN \/ s[2] = 0 /\ s[3] = "block" /\ shape.kind \in {"block", "array"}
          \/ /\ shape.kind = "array" /\ s[3] = shape.of
             /\ s[2] \in 1..CountOf(Field(o, s[1]))
          \/ s[2] = 0 /\ s[3] = shape.of /\ shape.kind = "inside"
          \/ /\ s[2] = 0 /\ s[3] = shape.of /\ place \in flags
             /\ shape.kind \in {"flagged", "oneof"}

\* cgltf_free comes to place p.
Reaches(p) == \A i \in 1..Len(p) : Walks(SubSeq(p, 1, i - 1), p[i])

\* Arrays that cgltf_free, or a loop over a document, would step through from a
\* null pointer.
NullArrays == { p \in DOMAIN count : Reaches(p) /\ count[p] > 0 /\ p \notin heap }

-----------------------------------------------------------------------------
(***************************************************************************)
(* The stack of parser functions.  A frame is the function of an object    *)
(* (its next key is anything), the loop over the elements of an array, or  *)
(* the loop over the entries of an "extensions" object; for the loops, size *)
(* is the length their array was allocated with.                           *)
(***************************************************************************)

Object(o, t) ==
    [kind |-> "object", at |-> o, field |-> "", type |-> t, next |-> 0, size |-> 0]
Loop(o, f, t, n) ==
    [kind |-> "array", at |-> o, field |-> f, type |-> t, next |-> 1, size |-> n]
Entries(o, f, t, n) ==
    [kind |-> "entries", at |-> o, field |-> f, type |-> t, next |-> n, size |-> n]

Top == stack[Len(stack)]
Rest == SubSeq(stack, 1, Len(stack) - 1)
Call(frame) == stack' = Append(stack, frame)
Steps(top, frame) == stack' = Append(Append(Rest, top), frame)
At(kind) == pc = "parsing" /\ Top.kind = kind

\* A negative index travels up to cgltf_parse_json, which frees the tokens,
\* calls cgltf_free and translates it.
Fails(r) ==
    /\ pc' = "failed" /\ result' = r
    /\ stack' = <<>>

\* alloc_func gives out a block, and the pointer to it is stored at p.
Stores(p) ==
    /\ Cardinality(heap) < MaxBlocks
    /\ heap' = heap \cup {p}
    /\ lost' = IF p \in heap THEN lost \cup {p} ELSE lost

\* alloc_func returns NULL, and the function gives up with CGLTF_ERROR_NOMEM.
NoMemory(r) ==
    /\ oom' = TRUE
    /\ Fails(r)
    /\ UNCHANGED <<heap, lost>>

-----------------------------------------------------------------------------
(***************************************************************************)
(* The leaves of the parser.                                               *)
(***************************************************************************)

\* A mutant: NULL is stored, and parsing goes on.
ParseStringKeepsNull(o, f, t) ==
    /\ UNCHANGED <<count, flags>>
    /\ \/ /\ Field(o, f) \in heap
          /\ Fails("invalid_gltf")
          /\ UNCHANGED <<heap, lost, oom>>
       \/ /\ Field(o, f) \notin heap
          /\ \/ Stores(Field(o, f)) /\ UNCHANGED <<stack, pc, result, oom>>
             \/ oom' = TRUE /\ UNCHANGED <<heap, lost, stack, pc, result>>

\* A string, an extras text or an array of numbers, once per field.  A name in
\* an attribute list turns every error into CGLTF_ERROR_JSON.
ParseString(o, f, t) ==
    /\ UNCHANGED <<count, flags>>
    /\ \/ /\ Field(o, f) \in heap
          /\ Fails("invalid_gltf")
          /\ UNCHANGED <<heap, lost, oom>>
       \/ /\ Field(o, f) \notin heap
          /\ \/ Stores(Field(o, f)) /\ UNCHANGED <<stack, pc, result, oom>>
             \/ NoMemory(IF t = "attribute" THEN "invalid_gltf" ELSE "out_of_memory")

\* The size is stored together with the array, and only then.
ParseArray(o, f, t, n) ==
    /\ UNCHANGED flags
    /\ \/ /\ \/ Field(o, f) \in heap /\ Fails("invalid_gltf")
             \/ Fails("legacy_gltf")
          /\ UNCHANGED <<heap, lost, count, oom>>
       \/ /\ Field(o, f) \notin heap
          /\ \/ /\ Stores(Field(o, f)) /\ SetCount(Field(o, f), n)
                /\ Call(Loop(o, f, t, n))
                /\ UNCHANGED <<pc, result, oom>>
             \/ NoMemory("out_of_memory") /\ UNCHANGED count

\* The size is stored before the array is asked for.
ParseAttributeList(o, f, n) ==
    /\ UNCHANGED flags
    /\ \/ /\ Field(o, f) \in heap
          /\ Fails("invalid_gltf")
          /\ UNCHANGED <<heap, lost, count, oom>>
       \/ /\ Field(o, f) \notin heap
          /\ SetCount(Field(o, f), n)
          /\ \/ /\ Stores(Field(o, f))
                /\ Call(Loop(o, f, "attribute", n))
                /\ UNCHANGED <<pc, result, oom>>
             \/ NoMemory("out_of_memory")

\* The count starts at 0 and grows with the entries that are copied.
ParseExtensions(o, f, t, n) ==
    /\ UNCHANGED flags
    /\ \/ /\ Field(o, f) \in heap
          /\ Fails("invalid_gltf")
          /\ UNCHANGED <<heap, lost, count, oom>>
       \/ /\ Field(o, f) \notin heap
          /\ SetCount(Field(o, f), 0)
          /\ \/ /\ Stores(Field(o, f))
                /\ Call(Entries(o, f, t, n))
                /\ UNCHANGED <<pc, result, oom>>
             \/ NoMemory("out_of_memory")

\* The variants are counted, the array is asked for, and nobody looks at the
\* answer: without it the second pass over the data counts once more.
ParseMaterialMappings(o, f, n) ==
    /\ UNCHANGED <<flags, pc, result>>
    /\ Field(o, f) \notin heap
    /\ SetCount(Field(o, f), n)
    /\ \/ Stores(Field(o, f)) /\ Call(Loop(o, f, "mapping", n)) /\ UNCHANGED oom
       \/ oom' = TRUE /\ UNCHANGED <<heap, lost, stack>>

\* A second "mappings" while the first is there.
ParseMaterialMappingsAgain(o, f) ==
    /\ Field(o, f) \in heap
    /\ Fails("invalid_gltf")
    /\ UNCHANGED <<heap, lost, count, flags, oom>>

\* "perspective" or "orthographic": the type says which side of the union is
\* live, and may be set once.
ParseCameraData(o, f, t) ==
    LET sides == {Struct(o, g, t) : g \in {"perspective", "orthographic"}} IN
    /\ UNCHANGED <<heap, lost, count, result, oom>>
    /\ sides \cap flags = {}
    /\ flags' = (flags \ sides) \cup {Struct(o, f, t)}
    /\ Call(Object(Struct(o, f, t), t))
    /\ UNCHANGED pc

ParseCameraDataAgain(o, t) ==
    /\ {Struct(o, g, t) : g \in {"perspective", "orthographic"}} \cap flags # {}
    /\ Fails("invalid_gltf")
    /\ UNCHANGED <<heap, lost, count, flags, oom>>

-----------------------------------------------------------------------------
(***************************************************************************)
(* The loops.                                                              *)
(***************************************************************************)

\* Elements that are one parser call rather than an object of keys: their
\* fields come once each, in this order, and all but a mapping's extras must.
Fixed == {"string", "attribute", "extension", "target", "mapping"}
Turn(o, t, f) ==
    IF t \in Fixed
    THEN /\ Field(o, f) \notin heap
         /\ f = "data" => Field(o, "name") \in heap
    ELSE \/ Field(o, f) \in heap
         \/ Cardinality({g \in DOMAIN Parses[t] : Field(o, g) \in heap})
               < IF t = "data" THEN MaxRootKeys ELSE MaxKeys

\* The next key of an object stores memory.
Key ==
    /\ At("object")
    /\ LET o == Top.at
           t == Top.type
       IN \E f \in DOMAIN Parses[t] :
            LET shape == Parses[t][f] IN
            /\ Turn(o, t, f)
            /\ \/ shape.kind = "block" /\ ParseString(o, f, t)
               \/ /\ shape.kind = "inside"
                  /\ Call(Object(Struct(o, f, shape.of), shape.of))
                  /\ UNCHANGED <<heap, lost, count, flags, pc, result, oom>>
               \/ /\ shape.kind = "oneof"
                  /\ \/ ParseCameraData(o, f, shape.of)
                     \/ ParseCameraDataAgain(o, shape.of)
               \/ shape.kind = "mappings" /\ ParseMaterialMappingsAgain(o, f)
               \/ \E n \in 0..MaxElements :
                    \/ shape.kind = "array" /\ ParseArray(o, f, shape.of, n)
                    \/ shape.kind = "attributes" /\ ParseAttributeList(o, f, n)
                    \/ shape.kind = "extensions" /\ ParseExtensions(o, f, t, n)
                    \/ shape.kind = "mappings" /\ ParseMaterialMappings(o, f, n)

\* The loop over *out_size elements.
NextElement ==
    /\ At("array")
    /\ Top.next <= CountOf(Field(Top.at, Top.field))
    /\ Steps([Top EXCEPT !.next = @ + 1],
             Object(Element(Top.at, Top.field, Top.next, Top.type), Top.type))
    /\ UNCHANGED <<heap, lost, count, flags, pc, result, oom>>

\* A mutant: the slot is counted twice.
UnprocessedExtensionTwice ==
    /\ At("entries") /\ Top.next > 0
    /\ LET p == Field(Top.at, Top.field)
           k == CountOf(p) + 1
       IN /\ SetCount(p, k + 1)
          /\ Steps([Top EXCEPT !.next = @ - 1],
                   Object(Element(Top.at, Top.field, k, "extension"), "extension"))
    /\ UNCHANGED <<heap, lost, flags, pc, result, oom>>

\* An extension nobody parses: its slot is counted, then filled.
UnprocessedExtension ==
    /\ At("entries") /\ Top.next > 0
    /\ LET p == Field(Top.at, Top.field)
           k == CountOf(p) + 1
       IN /\ SetCount(p, k)
          /\ Steps([Top EXCEPT !.next = @ - 1],
                   Object(Element(Top.at, Top.field, k, "extension"), "extension"))
    /\ UNCHANGED <<heap, lost, flags, pc, result, oom>>

\* A mutant: the has_ flag is forgotten.
KnownExtensionNoFlag ==
    /\ At("entries") /\ Top.next > 0 /\ Top.type \in DOMAIN Knows
    /\ \E f \in DOMAIN Knows[Top.type] :
         LET shape == Knows[Top.type][f] IN
         Steps([Top EXCEPT !.next = @ - 1],
               Object(IF shape.kind = "within" THEN Top.at
                      ELSE Struct(Top.at, f, shape.of), shape.of))
    /\ UNCHANGED <<heap, lost, count, flags, pc, result, oom>>

\* An extension the object knows; a has_ flag goes up before its content is read.
KnownExtension ==
    /\ At("entries") /\ Top.next > 0 /\ Top.type \in DOMAIN Knows
    /\ \E f \in DOMAIN Knows[Top.type] :
         LET shape == Knows[Top.type][f]
             down == [Top EXCEPT !.next = @ - 1]
             place == Struct(Top.at, f, shape.of)
         IN \/ /\ shape.kind = "flagged"
               /\ flags' = flags \cup {place}
               /\ Steps(down, Object(place, shape.of))
            \/ /\ shape.kind = "within"
               /\ Steps(down, Object(Top.at, shape.of))
               /\ UNCHANGED flags
    /\ UNCHANGED <<heap, lost, count, pc, result, oom>>

\* A mutant: the loop over an array stops one element short.
ReturnShort ==
    /\ pc = "parsing"
    /\ \/ /\ Top.kind = "object"
          /\ Top.type \in Fixed \ {"mapping"} =>
               \A f \in DOMAIN Parses[Top.type] : Field(Top.at, f) \in heap
       \/ Top.kind = "array" /\ Top.next >= CountOf(Field(Top.at, Top.field))
       \/ Top.kind = "entries" /\ Top.next = 0
    /\ stack' = Rest
    /\ pc' = IF Rest = <<>> THEN "fixup" ELSE "parsing"
    /\ heap' = IF Rest = <<>> THEN heap \ {TokensPlace} ELSE heap
    /\ UNCHANGED <<lost, count, flags, result, oom>>

\* A function has read its last key or element and returns to its caller; the
\* root returns to cgltf_parse_json.
Return ==
    /\ pc = "parsing"
    /\ \/ /\ Top.kind = "object"
          /\ Top.type \in Fixed \ {"mapping"} =>
               \A f \in DOMAIN Parses[Top.type] : Field(Top.at, f) \in heap
       \/ Top.kind = "array" /\ Top.next > CountOf(Field(Top.at, Top.field))
       \/ Top.kind = "entries" /\ Top.next = 0
    /\ stack' = Rest
    /\ pc' = IF Rest = <<>> THEN "fixup" ELSE "parsing"
    /\ heap' = IF Rest = <<>> THEN heap \ {TokensPlace} ELSE heap
    /\ UNCHANGED <<lost, count, flags, result, oom>>

\* A token of the wrong type, a key without a value, a count that is off.  The
\* variants of a mapping hand a negative index on as if it were an error code.
Malformed ==
    /\ pc = "parsing"
    /\ \/ Fails("invalid_gltf")
       \/ /\ At("object") /\ Top.type = "mapping"
          /\ Field(Top.at, "extras") \notin heap
          /\ \E r \in {"out_of_memory", "legacy_gltf"} : Fails(r)
    /\ UNCHANGED <<heap, lost, count, flags, oom>>

\* The asset is read, and its version is below 2.
LegacyAsset ==
    /\ At("object") /\ Top.type = "asset"
    /\ Field(Top.at, "version") \in heap
    /\ Fails("legacy_gltf")
    /\ UNCHANGED <<heap, lost, count, flags, oom>>

-----------------------------------------------------------------------------
(***************************************************************************)
(* cgltf_parse_json around the parser, and the end of the document.        *)
(***************************************************************************)

Init ==
    /\ heap = {} /\ lost = {} /\ count = [p \in {} |-> 0] /\ flags = {}
    /\ stack = <<>> /\ pc = "start" /\ result = "none" /\ oom = FALSE

\* The token array and cgltf_data are allocated; without cgltf_data the tokens
\* are freed again.
Begin ==
    /\ pc = "start"
    /\ \/ /\ heap' = {TokensPlace, DataPlace}
          /\ stack' = <<Object(DataPlace, "data")>>
          /\ pc' = "parsing"
          /\ UNCHANGED <<result, oom>>
       \/ /\ oom' = TRUE /\ result' = "out_of_memory" /\ pc' = "freed"
          /\ UNCHANGED <<heap, stack>>
    /\ UNCHANGED <<lost, count, flags>>

\* cgltf_fixup_pointers steps through the arrays; an index out of range ends it.
Fixup ==
    /\ pc = "fixup"
    /\ \/ NullArrays = {} /\ pc' = "held" /\ result' = "success"
       \/ NullArrays # {} /\ pc' = "crashed" /\ UNCHANGED result
       \/ pc' = "failed" /\ result' = "invalid_gltf"
    /\ UNCHANGED <<heap, lost, count, flags, stack, oom>>

\* cgltf_free: by cgltf_parse_json after an error, by the user otherwise.  The
\* tokens have gone just before it.  Stepping through a null array ends the
\* program part way.
Free ==
    /\ pc \in {"failed", "held"}
    /\ \/ /\ NullArrays = {} /\ pc' = "freed"
          /\ heap' = { p \in heap : p # TokensPlace /\ ~Reaches(p) }
          /\ count' = [p \in {} |-> 0] /\ flags' = {}
       \/ /\ NullArrays # {} /\ pc' = "crashed"
          /\ UNCHANGED <<heap, count, flags>>
    /\ UNCHANGED <<lost, stack, result, oom>>

Next == \/ Begin \/ Key \/ NextElement \/ UnprocessedExtension \/ KnownExtension
        \/ Return \/ Malformed \/ LegacyAsset \/ Fixup \/ Free

Spec == Init /\ [][Next]_vars

-----------------------------------------------------------------------------
Results == {"none", "success", "invalid_gltf", "legacy_gltf", "out_of_memory"}
Pcs == {"start", "parsing", "fixup", "failed", "held", "freed", "crashed"}

\* The type invariant.  While a loop fills an array, its count is no more than the
\* length the array was allocated with, and the loop ends one step behind it; only
\* these loops change a count that is there (cgltf_parse_json_unprocessed_extension
\* counts as it goes).
TypeOK ==
    /\ pc \in Pcs /\ result \in Results /\ oom \in BOOLEAN
    /\ lost \subseteq heap
    /\ \A p \in DOMAIN count : count[p] \in 0..MaxElements
    /\ \A i \in 1..Len(stack) :
         /\ stack[i].kind \in {"object", "array", "entries"}
         /\ stack[i].size \in 0..MaxElements
         /\ stack[i].next \in 0..(stack[i].size + 1)
         /\ stack[i].kind # "object" =>
              CountOf(Field(stack[i].at, stack[i].field)) <= stack[i].size

\* At every moment of the parse, cgltf_free as it would run now comes to every
\* block but the tokens, through counts and flags that are already right: the
\* parser may give up anywhere (cgltf_parse_json and cgltf_free).
Owned ==
    /\ lost = {}
    /\ \A p \in heap : p = TokensPlace \/ Reaches(p)

\* cgltf_free leaves nothing allocated, whether it follows a parse that failed
\* at any token or any allocation, or a document that was held.
NothingLeaks == pc = "freed" => heap = {} /\ lost = {}

\* A count over a null pointer comes from a failed allocation in one of two
\* functions: the attribute list and the variant mappings, which set the count
\* first.  Every other function leaves the count 0 until the array is there.
OnlyTwoCountFirst ==
    \A p \in NullArrays :
        oom /\ p[Len(p)][1] \in {"attributes", "mappings"}

\* A document that is handed out has every array its counts speak of, and no
\* string, attribute name or extension that was only counted.
HeldIsComplete ==
    pc = "held" =>
        \A p \in DOMAIN count :
            LET o == SubSeq(p, 1, Len(p) - 1)
                f == p[Len(p)][1]
                t == Frees[TypeOf(o)][f].of
            IN /\ count[p] > 0 => p \in heap
               /\ t \in Fixed \ {"mapping"} =>
                    \A k \in 1..count[p], g \in DOMAIN Parses[t] :
                        Field(Element(o, f, k, t), g) \in heap

\* A failed allocation is not passed over: unless it was one for variant
\* mappings, no document is handed out.  (An empty array of them is not missed,
\* and a second "mappings" key can succeed where the first failed.)  And what it
\* leaves over a null pointer are only the counts of the two.
FailureShows ==
    /\ OnlyTwoCountFirst
    /\ oom /\ pc = "held" => \E p \in DOMAIN count : p[Len(p)][1] = "mappings"

\* cgltf.h says that cgltf_free "frees the allocated cgltf_data variable": after
\* any parse, failed or not, the walk gets to its end.
FreeCompletes == pc # "crashed"
=============================================================================
