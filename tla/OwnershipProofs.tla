--------------------------- MODULE OwnershipProofs ---------------------------
(***************************************************************************)
(* Whatever document cgltf_parse_json reads and wherever it gives up, the  *)
(* blocks it has stored are the blocks cgltf_free comes to.  This is       *)
(* proved for documents of any size and depth: nothing below uses the      *)
(* bounds of the module, beyond their being numbers.                       *)
(*                                                                         *)
(* The first part compares the two tables field by field.  The second is   *)
(* about the walk of cgltf_free: it comes to a place if it comes to the    *)
(* object before it and takes one more step, and what it comes to stays so *)
(* while counts and flags only grow.  The third is the inductive           *)
(* invariant, with one lemma for every action.  The fourth is a second     *)
(* invariant over the first, about what the counts promise.                *)
(***************************************************************************)
EXTENDS Ownership, SequenceTheorems, TLAPS

-----------------------------------------------------------------------------
(***************************************************************************)
(* The tables.  An object of the parser stands at an object of cgltf_free, *)
(* its host: one of the same type, or for an extension that fills fields   *)
(* of the object it extends, that object.                                  *)
(***************************************************************************)
Elements == DOMAIN Frees

Host(t) == IF t \in {"lights_punctual", "variants_list"} THEN "data"
           ELSE IF t = "variant_mappings" THEN "primitive" ELSE t

\* The shape cgltf_free must give a field that the parser fills with this one.
Released(shape) ==
    IF shape.kind \in {"attributes", "extensions", "mappings"}
    THEN ArrayOf(shape.of) ELSE shape

Kinds == {"block", "array", "attributes", "extensions", "mappings", "inside", "oneof"}

Fits(shape, released) ==
    /\ shape.kind \in Kinds
    /\ released = Released(shape)
    /\ shape.kind # "block" => shape.of \in Elements
    /\ shape.kind = "array" => shape = ArrayOf(shape.of)
    /\ shape.kind = "attributes" => shape.of = "attribute"
    /\ shape.kind = "extensions" => shape.of = "extension"
    /\ shape.kind = "mappings" => shape.of = "mapping"

TablesFit(parses, frees) ==
    \A f \in DOMAIN parses :
        /\ f # "tokens"
        /\ f \in DOMAIN frees
        /\ Fits(parses[f], frees[f])
        /\ parses[f].kind \in {"attributes", "mappings"} => f = parses[f].kind

\* The types the tables have a row for, read off them.
LEMMA Domains ==
    /\ DOMAIN Parses =
         {"data", "asset", "mesh", "primitive", "accessor", "buffer_view",
         "buffer", "material", "image", "texture", "sampler", "skin",
         "camera", "light", "node", "scene", "animation",
         "animation_sampler", "animation_channel", "variant", "draco",
         "gpu_instancing", "projection", "lights_punctual",
         "variants_list", "variant_mappings", "string", "attribute",
         "extension", "target", "mapping"}
    /\ Elements =
         {"data", "asset", "mesh", "primitive", "accessor", "buffer_view",
         "buffer", "material", "image", "texture", "sampler", "skin",
         "camera", "light", "node", "scene", "animation",
         "animation_sampler", "animation_channel", "variant", "extension",
         "projection", "draco", "gpu_instancing", "target", "attribute",
         "string", "mapping"}
<1>1. DOMAIN Parses =
         {"data", "asset", "mesh", "primitive", "accessor", "buffer_view",
         "buffer", "material", "image", "texture", "sampler", "skin",
         "camera", "light", "node", "scene", "animation",
         "animation_sampler", "animation_channel", "variant", "draco",
         "gpu_instancing", "projection", "lights_punctual",
         "variants_list", "variant_mappings", "string", "attribute",
         "extension", "target", "mapping"}
  BY SMT DEF Parses
<1>2. Elements =
         {"data", "asset", "mesh", "primitive", "accessor", "buffer_view",
         "buffer", "material", "image", "texture", "sampler", "skin",
         "camera", "light", "node", "scene", "animation",
         "animation_sampler", "animation_channel", "variant", "extension",
         "projection", "draco", "gpu_instancing", "target", "attribute",
         "string", "mapping"}
  BY SMT DEF Frees, Elements
<1> QED  BY <1>1, <1>2

\* Every host has a row in the table of cgltf_free, and is its own host.
LEMMA Hosts ==
    /\ \A t \in DOMAIN Parses : Host(t) \in Elements
    /\ \A t \in Elements : t \in DOMAIN Parses /\ Host(t) = t
<1>1. \A t \in DOMAIN Parses : Host(t) \in Elements
  BY Domains DEF Host
<1>2. \A t \in Elements : t \in DOMAIN Parses /\ Host(t) = t
  BY Domains DEF Host
<1> QED  BY <1>1, <1>2

\* Each shape of the parser fits the shape it has to be released by.
LEMMA Shapes ==
    /\ Fits(Block, Block)
    /\ Fits(Extensions, ArrayOf("extension"))
    /\ Fits(AttributeList, ArrayOf("attribute"))
    /\ Fits(Mappings, ArrayOf("mapping"))
    /\ Block.kind = "block" /\ Extensions.kind = "extensions"
    /\ AttributeList.kind = "attributes" /\ Mappings.kind = "mappings"
    /\ \A t : /\ ArrayOf(t).kind = "array" /\ Inside(t).kind = "inside"
              /\ OneOf(t).kind = "oneof"
    /\ \A t \in Elements : /\ Fits(ArrayOf(t), ArrayOf(t))
                           /\ Fits(Inside(t), Inside(t))
                           /\ Fits(OneOf(t), OneOf(t))
<1>1. {"extension", "attribute", "mapping"} \subseteq Elements
  BY Domains
<1> QED
  BY <1>1, SMT DEF Fits, Released, Kinds, Block, Extensions, ArrayOf,
                   AttributeList, Mappings, Inside, OneOf

\* The two tables agree: what the parser may store in an object of any type,
\* cgltf_free looks for in its host, in the shape the parser gave it.
LEMMA Tables == \A t \in DOMAIN Parses : TablesFit(Parses[t], Frees[Host(t)])
<1>1. {"asset", "mesh", "accessor", "buffer_view", "buffer", "material", "image",
       "texture", "sampler", "skin", "camera", "node", "scene", "animation", "string",
       "primitive", "target", "animation_sampler", "animation_channel", "light",
       "variant", "projection"} \subseteq Elements
  BY Domains
<1>2. TablesFit(Parses["data"], Frees[Host("data")])
  <2>1. Parses["data"] = ParsesRoot
    BY DEF Parses
  <2>2. Host("data") = "data" /\ Frees["data"] = FreesRoot
    BY DEF Host, Frees
  <2>3. TablesFit(ParsesRoot, FreesRoot)
    BY <1>1, Shapes DEF TablesFit, ParsesRoot, FreesRoot
  <2> QED  BY <2>1, <2>2, <2>3
<1>3. TablesFit(Parses["asset"], Frees[Host("asset")])
  <2>1. Parses["asset"] = ParsesAsset
    BY DEF Parses
  <2>2. Host("asset") = "asset" /\ Frees["asset"] = FreesAsset
    BY DEF Host, Frees
  <2>3. TablesFit(ParsesAsset, FreesAsset)
    BY <1>1, Shapes DEF TablesFit, ParsesAsset, FreesAsset
  <2> QED  BY <2>1, <2>2, <2>3
<1>4. TablesFit(Parses["mesh"], Frees[Host("mesh")])
  <2>1. Parses["mesh"] = ParsesMesh
    BY DEF Parses
  <2>2. Host("mesh") = "mesh" /\ Frees["mesh"] = FreesMesh
    BY DEF Host, Frees
  <2>3. TablesFit(ParsesMesh, FreesMesh)
    BY <1>1, Shapes DEF TablesFit, ParsesMesh, FreesMesh
  <2> QED  BY <2>1, <2>2, <2>3
<1>5. TablesFit(Parses["primitive"], Frees[Host("primitive")])
  <2>1. Parses["primitive"] = ParsesPrimitive
    BY DEF Parses
  <2>2. Host("primitive") = "primitive" /\ Frees["primitive"] = FreesPrimitive
    BY DEF Host, Frees
  <2>3. TablesFit(ParsesPrimitive, FreesPrimitive)
    BY <1>1, Shapes DEF TablesFit, ParsesPrimitive, FreesPrimitive
  <2> QED  BY <2>1, <2>2, <2>3
<1>6. TablesFit(Parses["accessor"], Frees[Host("accessor")])
  <2>1. Parses["accessor"] = ParsesAccessor
    BY DEF Parses
  <2>2. Host("accessor") = "accessor" /\ Frees["accessor"] = Named
    BY DEF Host, Frees
  <2>3. TablesFit(ParsesAccessor, Named)
    BY <1>1, Shapes DEF TablesFit, ParsesAccessor, Described, Named
  <2> QED  BY <2>1, <2>2, <2>3
<1>7. TablesFit(Parses["buffer_view"], Frees[Host("buffer_view")])
  <2>1. Parses["buffer_view"] = ParsesBufferView
    BY DEF Parses
  <2>2. Host("buffer_view") = "buffer_view" /\ Frees["buffer_view"] = Named
    BY DEF Host, Frees
  <2>3. TablesFit(ParsesBufferView, Named)
    BY <1>1, Shapes DEF TablesFit, ParsesBufferView, Described, Named
  <2> QED  BY <2>1, <2>2, <2>3
<1>8. TablesFit(Parses["buffer"], Frees[Host("buffer")])
  <2>1. Parses["buffer"] = ParsesBuffer
    BY DEF Parses
  <2>2. Host("buffer") = "buffer" /\ Frees["buffer"] = FreesBuffer
    BY DEF Host, Frees
  <2>3. TablesFit(ParsesBuffer, FreesBuffer)
    BY <1>1, Shapes DEF TablesFit, ParsesBuffer, FreesBuffer
  <2> QED  BY <2>1, <2>2, <2>3
<1>9. TablesFit(Parses["material"], Frees[Host("material")])
  <2>1. Parses["material"] = ParsesMaterial
    BY DEF Parses
  <2>2. Host("material") = "material" /\ Frees["material"] = Named
    BY DEF Host, Frees
  <2>3. TablesFit(ParsesMaterial, Named)
    BY <1>1, Shapes DEF TablesFit, ParsesMaterial, Described, Named
  <2> QED  BY <2>1, <2>2, <2>3
<1>10. TablesFit(Parses["image"], Frees[Host("image")])
  <2>1. Parses["image"] = ParsesImage
    BY DEF Parses
  <2>2. Host("image") = "image" /\ Frees["image"] = FreesImage
    BY DEF Host, Frees
  <2>3. TablesFit(ParsesImage, FreesImage)
    BY <1>1, Shapes DEF TablesFit, ParsesImage, FreesImage
  <2> QED  BY <2>1, <2>2, <2>3
<1>11. TablesFit(Parses["texture"], Frees[Host("texture")])
  <2>1. Parses["texture"] = ParsesTexture
    BY DEF Parses
  <2>2. Host("texture") = "texture" /\ Frees["texture"] = Named
    BY DEF Host, Frees
  <2>3. TablesFit(ParsesTexture, Named)
    BY <1>1, Shapes DEF TablesFit, ParsesTexture, Described, Named
  <2> QED  BY <2>1, <2>2, <2>3
<1>12. TablesFit(Parses["sampler"], Frees[Host("sampler")])
  <2>1. Parses["sampler"] = ParsesSampler
    BY DEF Parses
  <2>2. Host("sampler") = "sampler" /\ Frees["sampler"] = Named
    BY DEF Host, Frees
  <2>3. TablesFit(ParsesSampler, Named)
    BY <1>1, Shapes DEF TablesFit, ParsesSampler, Described, Named
  <2> QED  BY <2>1, <2>2, <2>3
<1>13. TablesFit(Parses["skin"], Frees[Host("skin")])
  <2>1. Parses["skin"] = ParsesSkin
    BY DEF Parses
  <2>2. Host("skin") = "skin" /\ Frees["skin"] = FreesSkin
    BY DEF Host, Frees
  <2>3. TablesFit(ParsesSkin, FreesSkin)
    BY <1>1, Shapes DEF TablesFit, ParsesSkin, FreesSkin
  <2> QED  BY <2>1, <2>2, <2>3
<1>14. TablesFit(Parses["camera"], Frees[Host("camera")])
  <2>1. Parses["camera"] = ParsesCamera
    BY DEF Parses
  <2>2. Host("camera") = "camera" /\ Frees["camera"] = FreesCamera
    BY DEF Host, Frees
  <2>3. TablesFit(ParsesCamera, FreesCamera)
    BY <1>1, Shapes DEF TablesFit, ParsesCamera, FreesCamera
  <2> QED  BY <2>1, <2>2, <2>3
<1>15. TablesFit(Parses["light"], Frees[Host("light")])
  <2>1. Parses["light"] = ParsesLight
    BY DEF Parses
  <2>2. Host("light") = "light" /\ Frees["light"] = FreesLight
    BY DEF Host, Frees
  <2>3. TablesFit(ParsesLight, FreesLight)
    BY <1>1, Shapes DEF TablesFit, ParsesLight, FreesLight
  <2> QED  BY <2>1, <2>2, <2>3
<1>16. TablesFit(Parses["node"], Frees[Host("node")])
  <2>1. Parses["node"] = ParsesNode
    BY DEF Parses
  <2>2. Host("node") = "node" /\ Frees["node"] = FreesNode
    BY DEF Host, Frees
  <2>3. TablesFit(ParsesNode, FreesNode)
    BY <1>1, Shapes DEF TablesFit, ParsesNode, FreesNode
  <2> QED  BY <2>1, <2>2, <2>3
<1>17. TablesFit(Parses["scene"], Frees[Host("scene")])
  <2>1. Parses["scene"] = ParsesScene
    BY DEF Parses
  <2>2. Host("scene") = "scene" /\ Frees["scene"] = FreesScene
    BY DEF Host, Frees
  <2>3. TablesFit(ParsesScene, FreesScene)
    BY <1>1, Shapes DEF TablesFit, ParsesScene, FreesScene
  <2> QED  BY <2>1, <2>2, <2>3
<1>18. TablesFit(Parses["animation"], Frees[Host("animation")])
  <2>1. Parses["animation"] = ParsesAnimation
    BY DEF Parses
  <2>2. Host("animation") = "animation" /\ Frees["animation"] = FreesAnimation
    BY DEF Host, Frees
  <2>3. TablesFit(ParsesAnimation, FreesAnimation)
    BY <1>1, Shapes DEF TablesFit, ParsesAnimation, FreesAnimation
  <2> QED  BY <2>1, <2>2, <2>3
<1>19. TablesFit(Parses["animation_sampler"], Frees[Host("animation_sampler")])
  <2>1. Parses["animation_sampler"] = ParsesAnimationSampler
    BY DEF Parses
  <2>2. Host("animation_sampler") = "animation_sampler" /\ Frees["animation_sampler"] = FreesAnimated
    BY DEF Host, Frees
  <2>3. TablesFit(ParsesAnimationSampler, FreesAnimated)
    BY <1>1, Shapes DEF TablesFit, ParsesAnimationSampler, FreesAnimated
  <2> QED  BY <2>1, <2>2, <2>3
<1>20. TablesFit(Parses["animation_channel"], Frees[Host("animation_channel")])
  <2>1. Parses["animation_channel"] = ParsesAnimationChannel
    BY DEF Parses
  <2>2. Host("animation_channel") = "animation_channel" /\ Frees["animation_channel"] = FreesAnimated
    BY DEF Host, Frees
  <2>3. TablesFit(ParsesAnimationChannel, FreesAnimated)
    BY <1>1, Shapes DEF TablesFit, ParsesAnimationChannel, FreesAnimated
  <2> QED  BY <2>1, <2>2, <2>3
<1>21. TablesFit(Parses["variant"], Frees[Host("variant")])
  <2>1. Parses["variant"] = ParsesVariant
    BY DEF Parses
  <2>2. Host("variant") = "variant" /\ Frees["variant"] = FreesVariant
    BY DEF Host, Frees
  <2>3. TablesFit(ParsesVariant, FreesVariant)
    BY <1>1, Shapes DEF TablesFit, ParsesVariant, FreesVariant
  <2> QED  BY <2>1, <2>2, <2>3
<1>22. TablesFit(Parses["draco"], Frees[Host("draco")])
  <2>1. Parses["draco"] = ParsesDraco
    BY DEF Parses
  <2>2. Host("draco") = "draco" /\ Frees["draco"] = [attributes |-> ArrayOf("attribute")]
    BY DEF Host, Frees
  <2>3. TablesFit(ParsesDraco, [attributes |-> ArrayOf("attribute")])
    BY <1>1, Shapes DEF TablesFit, ParsesDraco
  <2> QED  BY <2>1, <2>2, <2>3
<1>23. TablesFit(Parses["gpu_instancing"], Frees[Host("gpu_instancing")])
  <2>1. Parses["gpu_instancing"] = ParsesGpuInstancing
    BY DEF Parses
  <2>2. Host("gpu_instancing") = "gpu_instancing" /\ Frees["gpu_instancing"] = [attributes |-> ArrayOf("attribute")]
    BY DEF Host, Frees
  <2>3. TablesFit(ParsesGpuInstancing, [attributes |-> ArrayOf("attribute")])
    BY <1>1, Shapes DEF TablesFit, ParsesGpuInstancing
  <2> QED  BY <2>1, <2>2, <2>3
<1>24. TablesFit(Parses["projection"], Frees[Host("projection")])
  <2>1. Parses["projection"] = [extras |-> Block]
    BY DEF Parses
  <2>2. Host("projection") = "projection" /\ Frees["projection"] = [extras |-> Block]
    BY DEF Host, Frees
  <2>3. TablesFit([extras |-> Block], [extras |-> Block])
    BY <1>1, Shapes DEF TablesFit
  <2> QED  BY <2>1, <2>2, <2>3
<1>25. TablesFit(Parses["lights_punctual"], Frees[Host("lights_punctual")])
  <2>1. Parses["lights_punctual"] = [lights |-> ArrayOf("light")]
    BY DEF Parses
  <2>2. Host("lights_punctual") = "data" /\ Frees["data"] = FreesRoot
    BY DEF Host, Frees
  <2>3. TablesFit([lights |-> ArrayOf("light")], FreesRoot)
    BY <1>1, Shapes DEF TablesFit, FreesRoot
  <2> QED  BY <2>1, <2>2, <2>3
<1>26. TablesFit(Parses["variants_list"], Frees[Host("variants_list")])
  <2>1. Parses["variants_list"] = [variants |-> ArrayOf("variant")]
    BY DEF Parses
  <2>2. Host("variants_list") = "data" /\ Frees["data"] = FreesRoot
    BY DEF Host, Frees
  <2>3. TablesFit([variants |-> ArrayOf("variant")], FreesRoot)
    BY <1>1, Shapes DEF TablesFit, FreesRoot
  <2> QED  BY <2>1, <2>2, <2>3
<1>27. TablesFit(Parses["variant_mappings"], Frees[Host("variant_mappings")])
  <2>1. Parses["variant_mappings"] = [mappings |-> Mappings]
    BY DEF Parses
  <2>2. Host("variant_mappings") = "primitive" /\ Frees["primitive"] = FreesPrimitive
    BY DEF Host, Frees
  <2>3. TablesFit([mappings |-> Mappings], FreesPrimitive)
    BY <1>1, Shapes DEF TablesFit, FreesPrimitive
  <2> QED  BY <2>1, <2>2, <2>3
<1>28. TablesFit(Parses["string"], Frees[Host("string")])
  <2>1. Parses["string"] = [text |-> Block]
    BY DEF Parses
  <2>2. Host("string") = "string" /\ Frees["string"] = [text |-> Block]
    BY DEF Host, Frees
  <2>3. TablesFit([text |-> Block], [text |-> Block])
    BY <1>1, Shapes DEF TablesFit
  <2> QED  BY <2>1, <2>2, <2>3
<1>29. TablesFit(Parses["attribute"], Frees[Host("attribute")])
  <2>1. Parses["attribute"] = [name |-> Block]
    BY DEF Parses
  <2>2. Host("attribute") = "attribute" /\ Frees["attribute"] = [name |-> Block]
    BY DEF Host, Frees
  <2>3. TablesFit([name |-> Block], [name |-> Block])
    BY <1>1, Shapes DEF TablesFit
  <2> QED  BY <2>1, <2>2, <2>3
<1>30. TablesFit(Parses["extension"], Frees[Host("extension")])
  <2>1. Parses["extension"] = [name |-> Block, data |-> Block]
    BY DEF Parses
  <2>2. Host("extension") = "extension" /\ Frees["extension"] = FreesExtension
    BY DEF Host, Frees
  <2>3. TablesFit([name |-> Block, data |-> Block], FreesExtension)
    BY <1>1, Shapes DEF TablesFit, FreesExtension
  <2> QED  BY <2>1, <2>2, <2>3
<1>31. TablesFit(Parses["target"], Frees[Host("target")])
  <2>1. Parses["target"] = [attributes |-> AttributeList]
    BY DEF Parses
  <2>2. Host("target") = "target" /\ Frees["target"] = [attributes |-> ArrayOf("attribute")]
    BY DEF Host, Frees
  <2>3. TablesFit([attributes |-> AttributeList], [attributes |-> ArrayOf("attribute")])
    BY <1>1, Shapes DEF TablesFit
  <2> QED  BY <2>1, <2>2, <2>3
<1>32. TablesFit(Parses["mapping"], Frees[Host("mapping")])
  <2>1. Parses["mapping"] = [extras |-> Block]
    BY DEF Parses
  <2>2. Host("mapping") = "mapping" /\ Frees["mapping"] = [extras |-> Block]
    BY DEF Host, Frees
  <2>3. TablesFit([extras |-> Block], [extras |-> Block])
    BY <1>1, Shapes DEF TablesFit
  <2> QED  BY <2>1, <2>2, <2>3
<1> QED
  BY Domains,
     <1>2, <1>3, <1>4, <1>5, <1>6, <1>7, <1>8, <1>9, <1>10, <1>11, <1>12,
     <1>13, <1>14, <1>15, <1>16, <1>17, <1>18, <1>19, <1>20, <1>21, <1>22,
     <1>23, <1>24, <1>25, <1>26, <1>27, <1>28, <1>29, <1>30, <1>31, <1>32

\* The extensions known by name agree with the table of cgltf_free as well: the
\* ones behind a flag are released behind it.
LEMMA KnownTables ==
    ASSUME NEW t \in DOMAIN Knows, NEW f \in DOMAIN Knows[t]
    PROVE  LET shape == Knows[t][f] IN
           /\ shape.of \in DOMAIN Parses
           /\ shape.kind \in {"flagged", "within"}
           /\ shape.kind = "within" => Host(shape.of) = t
           /\ shape.kind = "flagged" =>
                shape.of \in Elements /\ f \in DOMAIN Frees[t] /\ Frees[t][f] = shape
<1>1. t \in {"data", "primitive", "node"}
  BY DEF Knows
<1>2. CASE t = "data"
  <2>1. Knows["data"] = [KHR_lights_punctual |-> Within("lights_punctual"),
                         KHR_materials_variants |-> Within("variants_list")]
    BY DEF Knows
  <2> QED  BY <1>2, <2>1, Domains DEF Within, Host
<1>3. CASE t = "primitive"
  <2>1. Knows["primitive"] = [draco_mesh_compression |-> Flagged("draco"),
                              KHR_materials_variants |-> Within("variant_mappings")]
    BY DEF Knows
  <2>2. Frees["primitive"] = FreesPrimitive
    BY DEF Frees
  <2>3. /\ "draco_mesh_compression" \in DOMAIN FreesPrimitive
        /\ FreesPrimitive["draco_mesh_compression"] = Flagged("draco")
    BY DEF FreesPrimitive
  <2> QED  BY <1>3, <2>1, <2>2, <2>3, Domains DEF Within, Flagged, Host
<1>4. CASE t = "node"
  <2>1. Knows["node"] = [mesh_gpu_instancing |-> Flagged("gpu_instancing")]
    BY DEF Knows
  <2>2. Frees["node"] = FreesNode
    BY DEF Frees
  <2>3. /\ "mesh_gpu_instancing" \in DOMAIN FreesNode
        /\ FreesNode["mesh_gpu_instancing"] = Flagged("gpu_instancing")
    BY DEF FreesNode
  <2> QED  BY <1>4, <2>1, <2>2, <2>3, Domains DEF Within, Flagged
<1> QED  BY <1>1, <1>2, <1>3, <1>4

-----------------------------------------------------------------------------
(***************************************************************************)
(* The walk.                                                               *)
(***************************************************************************)
Fields == UNION {DOMAIN Frees[t] : t \in Elements}
Step == Fields \X Nat \X (Elements \cup {"block"})
Place == Seq(Step)

Blocks == heap \ {TokensPlace}

\* cgltf_free comes to p, and the arrays it goes through on the way are there.
Good(p) ==
    \A i \in 1..Len(p) :
        LET o == SubSeq(p, 1, i - 1) IN
        /\ Walks(o, p[i])
        /\ p[i][2] > 0 => Field(o, p[i][1]) \in Blocks

LEMMA GoodIsReached == ASSUME NEW p, Good(p) PROVE Reaches(p)
  BY DEF Good, Reaches

\* A place may be lengthened by one step.
LEMMA Lengthen ==
    ASSUME NEW o \in Place, NEW f \in Fields, NEW k \in Nat,
           NEW t \in Elements \cup {"block"}
    PROVE  LET p == Append(o, <<f, k, t>>) IN
           /\ p \in Place
           /\ Len(p) = Len(o) + 1
           /\ p # TokensPlace \/ f = "tokens"
           /\ TypeOf(p) = t
           /\ p[Len(o) + 1] = <<f, k, t>>
           /\ SubSeq(p, 1, Len(o)) = o
           /\ \A i \in 1..Len(o) :
                p[i] = o[i] /\ SubSeq(p, 1, i - 1) = SubSeq(o, 1, i - 1)
<1> DEFINE s == <<f, k, t>>
           p == Append(o, s)
<1>1. s \in Step
  BY DEF Step
<1>2. p \in Place /\ Len(p) = Len(o) + 1 /\ Len(o) \in Nat
  BY <1>1 DEF Place
<1>3. p[Len(o) + 1] = s /\ \A i \in 1..Len(o) : p[i] = o[i]
  BY <1>1 DEF Place
<1>4. p # <<>>
  BY <1>2
<1>5. TypeOf(p) = t
  BY <1>2, <1>3, <1>4 DEF TypeOf, DataPlace
<1>6. p # TokensPlace \/ f = "tokens"
  <2>1. SUFFICES ASSUME p = TokensPlace PROVE f = "tokens"
    OBVIOUS
  <2>2. Len(TokensPlace) = 1 /\ TokensPlace[1] = <<"tokens", 0, "block">>
    BY DEF TokensPlace
  <2>3. p[Len(o) + 1] = <<"tokens", 0, "block">>
    BY <2>1, <2>2, <1>2
  <2>4. <<f, k, t>> = <<"tokens", 0, "block">>
    BY <2>3, <1>3
  <2> QED  BY <2>4
<1>7. SubSeq(p, 1, Len(o)) = o
  BY <1>1, <1>2, <1>3 DEF Place
<1>8. \A i \in 1..Len(o) : SubSeq(p, 1, i - 1) = SubSeq(o, 1, i - 1)
  BY <1>1, <1>2, <1>3 DEF Place
<1> QED  BY <1>2, <1>3, <1>5, <1>6, <1>7, <1>8

\* If cgltf_free comes to an object, it comes to what it walks to from there.
LEMMA GoodStep ==
    ASSUME NEW o \in Place, NEW f \in Fields, NEW k \in Nat,
           NEW t \in Elements \cup {"block"},
           Good(o)', Walks(o, <<f, k, t>>)',
           k > 0 => Field(o, f) \in Blocks'
    PROVE  Good(Append(o, <<f, k, t>>))'
<1> DEFINE p == Append(o, <<f, k, t>>)
<1>1. SUFFICES ASSUME NEW i \in 1..Len(p)
      PROVE  /\ Walks(SubSeq(p, 1, i - 1), p[i])'
             /\ p[i][2] > 0 => Field(SubSeq(p, 1, i - 1), p[i][1]) \in Blocks'
  BY DEF Good
<1>2. Len(o) \in Nat
  BY DEF Place
<1>3. CASE i \in 1..Len(o)
  <2>1. p[i] = o[i] /\ SubSeq(p, 1, i - 1) = SubSeq(o, 1, i - 1)
    BY <1>3, Lengthen
  <2> QED  BY <1>3, <2>1 DEF Good
<1>4. CASE i = Len(o) + 1
  <2>1. p[i] = <<f, k, t>> /\ SubSeq(p, 1, i - 1) = o
    BY <1>4, <1>2, Lengthen
  <2>2. p[i][1] = f /\ p[i][2] = k
    BY <2>1
  <2>3. Walks(SubSeq(p, 1, i - 1), p[i])'
    BY <2>1
  <2>4. p[i][2] > 0 => Field(SubSeq(p, 1, i - 1), p[i][1]) \in Blocks'
    BY <2>1, <2>2
  <2> QED  BY <2>3, <2>4
<1> QED  BY <1>1, <1>2, <1>3, <1>4, Lengthen

\* A parser step only adds blocks, flags and, where an array stands, elements.
Grows ==
    /\ Blocks \subseteq Blocks'
    /\ flags \subseteq flags'
    /\ \A q \in Blocks : CountOf(q) <= CountOf(q)'
    /\ \A q : CountOf(q) \in Nat /\ CountOf(q)' \in Nat

\* What cgltf_free comes to before such a step it comes to after it.
LEMMA GoodStays == ASSUME Grows, NEW p, Good(p) PROVE Good(p)'
<1>1. SUFFICES ASSUME NEW i \in 1..Len(p)
      PROVE  /\ Walks(SubSeq(p, 1, i - 1), p[i])'
             /\ p[i][2] > 0 => Field(SubSeq(p, 1, i - 1), p[i][1]) \in Blocks'
  BY DEF Good
<1> DEFINE o == SubSeq(p, 1, i - 1)
           q == Field(o, p[i][1])
<1>2. Walks(o, p[i]) /\ (p[i][2] > 0 => q \in Blocks)
  BY DEF Good
<1>3. p[i][2] \in 1..CountOf(q) => p[i][2] \in 1..CountOf(q)'
  <2>1. SUFFICES ASSUME p[i][2] \in 1..CountOf(q) PROVE p[i][2] \in 1..CountOf(q)'
    OBVIOUS
  <2>2. CountOf(q) <= CountOf(q)' /\ CountOf(q) \in Nat /\ CountOf(q)' \in Nat
    BY <2>1, <1>2 DEF Grows
  <2> QED  BY <2>1, <2>2
<1>4. Walks(o, p[i])'
  BY <1>2, <1>3 DEF Walks, Grows
<1> QED  BY <1>2, <1>4 DEF Grows

-----------------------------------------------------------------------------
(***************************************************************************)
(* The inductive invariant.  Owned alone is not inductive: that a new      *)
(* block is reached follows from where the parser stands, so every frame   *)
(* of its stack stands at an object cgltf_free comes to, of a type whose   *)
(* row fits the frame's own, and a loop over an array has the array below  *)
(* it.                                                                     *)
(***************************************************************************)
Frame == [kind : {"object", "array", "entries"}, at : Place,
          field : Fields \cup {""}, type : DOMAIN Parses, next : Nat,
          size : Nat]

\* The frame stands where cgltf_free will come.
FrameOK(fr) ==
    /\ Good(fr.at)
    /\ TypeOf(fr.at) \in Elements
    /\ fr.kind \in {"object", "entries"} => TypeOf(fr.at) = Host(fr.type)
    /\ fr.kind \in {"array", "entries"} =>
         /\ fr.field \in DOMAIN Frees[TypeOf(fr.at)]
         /\ Frees[TypeOf(fr.at)][fr.field] =
              ArrayOf(IF fr.kind = "array" THEN fr.type ELSE "extension")
         /\ Field(fr.at, fr.field) \in Blocks
    /\ fr.kind = "array" => fr.type \in Elements /\ fr.next > 0

OnStack(fr) == \E i \in 1..Len(stack) : stack[i] = fr

HeapInv ==
    /\ lost = {}
    /\ heap \subseteq Place \cup {TokensPlace}
    /\ \A p \in Blocks : Good(p)

CountInv == \A q \in DOMAIN count : count[q] \in Nat

StackInv ==
    /\ stack \in Seq(Frame)
    /\ \A fr \in Frame : OnStack(fr) => FrameOK(fr)

ControlInv ==
    /\ pc = "parsing" <=> stack # <<>>
    /\ pc \in {"start", "freed"} => heap = {}

IInv == HeapInv /\ CountInv /\ StackInv /\ ControlInv

\* The top of the stack, and what is left when it returns.
LEMMA StackTop ==
    ASSUME stack \in Seq(Frame), stack # <<>>
    PROVE  /\ Top \in Frame /\ OnStack(Top)
           /\ Rest \in Seq(Frame)
           /\ \A i \in 1..Len(Rest) : i \in 1..Len(stack) /\ Rest[i] = stack[i]
<1>1. Len(stack) \in Nat \ {0}
  BY EmptySeq
<1>2. Len(stack) \in 1..Len(stack) /\ stack[Len(stack)] \in Frame
  BY <1>1, ElementOfSeq
<1>3. \A i \in 1..(Len(stack) - 1) : stack[i] \in Frame
  BY <1>1, ElementOfSeq
<1>4. /\ Rest \in Seq(Frame)
      /\ Len(Rest) = (IF 1 <= Len(stack) - 1 THEN (Len(stack) - 1) - 1 + 1 ELSE 0)
      /\ \A i \in 1..((Len(stack) - 1) - 1 + 1) : Rest[i] = stack[1 + i - 1]
  <2>1. Len(stack) - 1 \in Int /\ 1 \in Int
    BY <1>1
  <2> QED  BY <2>1, <1>3, SubSeqProperties DEF Rest
<1> QED  BY <1>1, <1>2, <1>4 DEF Top, OnStack

\* The frames of the parser.
LEMMA Frames ==
    ASSUME NEW o \in Place, NEW f \in Fields, NEW t \in DOMAIN Parses, NEW n \in Nat
    PROVE  /\ Object(o, t) \in Frame
           /\ Loop(o, f, t, n) \in Frame
           /\ Entries(o, f, t, n) \in Frame
<1>1. Object(o, t) \in Frame
  BY DEF Frame, Object
<1>2. Loop(o, f, t, n) \in Frame
  BY DEF Frame, Loop
<1>3. Entries(o, f, t, n) \in Frame
  BY DEF Frame, Entries
<1> QED  BY <1>1, <1>2, <1>3

\* A call adds one frame.
LEMMA StackCall ==
    ASSUME stack \in Seq(Frame), NEW fr \in Frame, stack' = Append(stack, fr)
    PROVE  /\ stack' \in Seq(Frame) /\ stack' # <<>>
           /\ \A g : OnStack(g)' => OnStack(g) \/ g = fr
<1>1. /\ stack' \in Seq(Frame) /\ stack' # <<>> /\ Len(stack') = Len(stack) + 1
      /\ \A i \in 1..Len(stack) : stack'[i] = stack[i]
      /\ stack'[Len(stack) + 1] = fr
  BY AppendProperties
<1>2. Len(stack) \in Nat
  BY LenProperties
<1> QED  BY <1>1, <1>2 DEF OnStack

\* A loop's step changes its frame and adds one.
LEMMA StackSteps ==
    ASSUME stack \in Seq(Frame), stack # <<>>, NEW top \in Frame, NEW fr \in Frame,
           stack' = Append(Append(Rest, top), fr)
    PROVE  /\ stack' \in Seq(Frame) /\ stack' # <<>>
           /\ \A g : OnStack(g)' => OnStack(g) \/ g = fr \/ g = top
<1>1. /\ Rest \in Seq(Frame)
      /\ \A i \in 1..Len(Rest) : i \in 1..Len(stack) /\ Rest[i] = stack[i]
  BY StackTop
<1>2. Len(Rest) \in Nat
  BY <1>1, LenProperties
<1> DEFINE mid == Append(Rest, top)
<1>3. /\ mid \in Seq(Frame) /\ Len(mid) = Len(Rest) + 1
      /\ \A i \in 1..Len(Rest) : mid[i] = Rest[i]
      /\ mid[Len(Rest) + 1] = top
  BY <1>1, AppendProperties
<1>4. /\ stack' \in Seq(Frame) /\ stack' # <<>> /\ Len(stack') = Len(mid) + 1
      /\ \A i \in 1..Len(mid) : stack'[i] = mid[i]
      /\ stack'[Len(mid) + 1] = fr
  BY <1>3, AppendProperties
<1> HIDE DEF mid
<1> QED  BY <1>1, <1>2, <1>3, <1>4 DEF OnStack

\* Counts stay numbers, and no array that stands loses an element.
CountsGrow ==
    /\ CountInv'
    /\ \A r : CountOf(r) \in Nat /\ CountOf(r)' \in Nat
    /\ \A r \in Blocks : CountOf(r) <= CountOf(r)'

\* A new count for an array that is not there, or not there in full.
LEMMA Counted ==
    ASSUME CountInv, NEW q, NEW n \in Nat, SetCount(q, n),
           q \in Blocks => CountOf(q) <= n
    PROVE  CountsGrow /\ CountOf(q)' = n
<1>1. \A r : CountOf(r) \in Nat
  BY DEF CountInv, CountOf
<1>2. /\ CountInv' /\ CountOf(q)' = n
      /\ \A r : r # q => CountOf(r)' = CountOf(r)
  BY DEF CountInv, CountOf, SetCount
<1> QED  BY <1>1, <1>2 DEF CountsGrow

\* No count changes.
LEMMA Uncounted ==
    ASSUME CountInv, UNCHANGED count
    PROVE  CountsGrow
<1>1. \A r : CountOf(r) \in Nat /\ CountOf(r)' = CountOf(r)
  BY DEF CountInv, CountOf
<1> QED  BY <1>1 DEF CountInv, CountsGrow

\* A frame that stands well goes on standing well.
LEMMA FrameStays ==
    ASSUME Grows, NEW fr \in Frame, FrameOK(fr) PROVE FrameOK(fr)'
<1>1. Good(fr.at)'
  BY GoodStays DEF FrameOK
<1> QED  BY <1>1 DEF FrameOK, Grows

\* The part of every lemma below that is about what a step leaves alone: it
\* remains to look at the new blocks and the new frames.
LEMMA Keeps ==
    ASSUME IInv, Grows, CountInv', lost' = {},
           heap' \subseteq Place \cup {TokensPlace},
           \A p \in Blocks' : p \in Blocks \/ Good(p)',
           stack' \in Seq(Frame),
           \A fr \in Frame : OnStack(fr)' => OnStack(fr) \/ FrameOK(fr)',
           pc' = "parsing" <=> stack' # <<>>,
           pc' \in {"parsing", "fixup", "failed"}
    PROVE  IInv'
<1>1. HeapInv'
  BY GoodStays DEF IInv, HeapInv
<1>2. StackInv'
  BY FrameStays DEF IInv, StackInv
<1>3. ControlInv'
  BY DEF ControlInv
<1> QED  BY <1>1, <1>2, <1>3 DEF IInv

-----------------------------------------------------------------------------
(***************************************************************************)
(* What the parser functions do.                                           *)
(***************************************************************************)

\* Giving up, anywhere: nothing was stored, counts may have been.
LEMMA GivesUp ==
    ASSUME IInv, NEW r, Fails(r), UNCHANGED <<heap, lost, flags>>, CountsGrow
    PROVE  IInv'
<1>1. Blocks' = Blocks
  BY DEF Blocks
<1>2. Grows
  BY <1>1 DEF Grows, CountsGrow
<1>3. stack' \in Seq(Frame) /\ \A fr : ~OnStack(fr)'
  BY EmptySeq DEF Fails, OnStack
<1> QED
  BY <1>1, <1>2, <1>3, Keeps DEF IInv, HeapInv, CountsGrow, Fails

\* Storing a block where there was none.
LEMMA StoresOne ==
    ASSUME IInv, NEW q \in Place, q \notin heap, q # TokensPlace, Stores(q),
           flags \subseteq flags', CountsGrow
    PROVE  /\ Grows /\ Blocks' = Blocks \cup {q} /\ lost' = {}
           /\ heap' \subseteq Place \cup {TokensPlace}
<1>1. heap' = heap \cup {q} /\ lost' = {}
  BY DEF Stores, IInv, HeapInv
<1>2. Blocks' = Blocks \cup {q}
  BY <1>1 DEF Blocks
<1> QED  BY <1>1, <1>2 DEF Grows, CountsGrow, IInv, HeapInv

\* A key of an object stores into a field that cgltf_free knows.
LEMMA KeyFits ==
    ASSUME NEW top \in Frame, top.kind = "object", FrameOK(top),
           NEW f \in DOMAIN Parses[top.type]
    PROVE  LET shape == Parses[top.type][f] IN
           /\ top.at \in Place /\ top.type \in DOMAIN Parses
           /\ TypeOf(top.at) \in Elements
           /\ f \in DOMAIN Frees[TypeOf(top.at)] /\ f \in Fields /\ f # "tokens"
           /\ Fits(shape, Frees[TypeOf(top.at)][f])
           /\ Field(top.at, f) \in Place /\ Field(top.at, f) # TokensPlace
<1>1. top.at \in Place /\ top.type \in DOMAIN Parses
  BY DEF Frame
<1>2. TypeOf(top.at) = Host(top.type) /\ TypeOf(top.at) \in Elements
  BY DEF FrameOK
<1>3. /\ f \in DOMAIN Frees[TypeOf(top.at)] /\ f # "tokens"
      /\ Fits(Parses[top.type][f], Frees[TypeOf(top.at)][f])
  BY <1>1, <1>2, Tables DEF TablesFit
<1>4. f \in Fields
  BY <1>2, <1>3 DEF Fields
<1>5. Field(top.at, f) \in Place /\ Field(top.at, f) # TokensPlace
  <2>1. 0 \in Nat /\ "block" \in Elements \cup {"block"}
    OBVIOUS
  <2> QED  BY <2>1, <1>1, <1>3, <1>4, Lengthen DEF Field
<1> QED  BY <1>1, <1>2, <1>3, <1>4, <1>5

\* The block of such a field is reached.
LEMMA BlockIsReached ==
    ASSUME NEW o \in Place, NEW f \in Fields,
           f \in DOMAIN Frees[TypeOf(o)],
           Frees[TypeOf(o)][f].kind \in {"block", "array"},
           Good(o)'
    PROVE  Good(Field(o, f))'
<1>1. Walks(o, <<f, 0, "block">>)'
  BY DEF Walks
<1> QED  BY <1>1, GoodStep DEF Field

\* A string, an extras text or an array of numbers.
LEMMA ParseStringKeeps ==
    ASSUME IInv, pc = "parsing",
           NEW top \in Frame, top.kind = "object", OnStack(top), FrameOK(top),
           NEW f \in DOMAIN Parses[top.type], Parses[top.type][f].kind = "block",
           ParseString(top.at, f, top.type)
    PROVE  IInv'
<1> DEFINE q == Field(top.at, f)
<1>1. CountsGrow
  BY Uncounted DEF IInv, ParseString
<1>2. CASE q \in heap /\ Fails("invalid_gltf") /\ UNCHANGED <<heap, lost, oom>>
  BY <1>1, <1>2, GivesUp DEF ParseString
<1>3. CASE NoMemory(IF top.type = "attribute" THEN "invalid_gltf" ELSE "out_of_memory")
  BY <1>1, <1>3, GivesUp DEF ParseString, NoMemory
<1>4. CASE q \notin heap /\ Stores(q) /\ UNCHANGED <<stack, pc, result, oom>>
  <2>1. /\ q \in Place /\ q # TokensPlace
        /\ top.at \in Place /\ f \in Fields
        /\ f \in DOMAIN Frees[TypeOf(top.at)]
        /\ Fits(Parses[top.type][f], Frees[TypeOf(top.at)][f])
    BY KeyFits
  <2>2. /\ Grows /\ Blocks' = Blocks \cup {q} /\ lost' = {}
        /\ heap' \subseteq Place \cup {TokensPlace}
    BY <1>1, <1>4, <2>1, StoresOne DEF ParseString
  <2>3. Good(top.at)'
    BY <2>2, GoodStays DEF FrameOK
  <2>4. Frees[TypeOf(top.at)][f].kind \in {"block", "array"}
    BY <2>1 DEF Fits, Released
  <2>5. Good(q)'
    BY <2>1, <2>3, <2>4, BlockIsReached
  <2>6. \A fr : OnStack(fr)' <=> OnStack(fr)
    BY <1>4 DEF OnStack
  <2> QED
    BY <1>1, <1>4, <2>2, <2>5, <2>6, Keeps
       DEF IInv, StackInv, ControlInv, CountsGrow
<1> QED  BY <1>2, <1>3, <1>4 DEF ParseString

\* An array is stored with its count, and the loop over it begins.
LEMMA ArrayBegins ==
    ASSUME IInv, pc = "parsing",
           NEW top \in Frame, top.kind = "object", OnStack(top), FrameOK(top),
           NEW f \in DOMAIN Parses[top.type],
           Parses[top.type][f].kind \in {"array", "attributes", "extensions", "mappings"},
           Field(top.at, f) \notin heap, Stores(Field(top.at, f)),
           NEW n \in Nat, SetCount(Field(top.at, f), n),
           UNCHANGED <<flags, pc>>,
           NEW m \in Nat, NEW fr,
           \/ fr = Loop(top.at, f, Parses[top.type][f].of, m)
           \/ /\ fr = Entries(top.at, f, top.type, m)
              /\ Parses[top.type][f].of = "extension",
           Call(fr)
    PROVE  IInv'
<1> DEFINE q == Field(top.at, f)
           t == Parses[top.type][f].of
<1>1. /\ q \in Place /\ q # TokensPlace
      /\ top.at \in Place /\ f \in Fields /\ top.type \in DOMAIN Parses
      /\ f \in DOMAIN Frees[TypeOf(top.at)] /\ TypeOf(top.at) \in Elements
      /\ Fits(Parses[top.type][f], Frees[TypeOf(top.at)][f])
  BY KeyFits
<1>2. Frees[TypeOf(top.at)][f] = ArrayOf(t) /\ t \in Elements
  <2>1. CASE Parses[top.type][f].kind = "array"
    BY <1>1, <2>1 DEF Fits, Released
  <2>2. CASE Parses[top.type][f].kind # "array"
    BY <1>1, <2>2 DEF Fits, Released
  <2> QED  BY <2>1, <2>2
<1>3. CountsGrow
  BY Counted DEF IInv, Blocks
<1>4. /\ Grows /\ Blocks' = Blocks \cup {q} /\ lost' = {}
      /\ heap' \subseteq Place \cup {TokensPlace}
  BY <1>1, <1>3, StoresOne
<1>5. Good(top.at)'
  BY <1>4, GoodStays DEF FrameOK
<1>6. Good(q)'
  <2>1. Frees[TypeOf(top.at)][f].kind \in {"block", "array"}
    BY <1>2 DEF ArrayOf
  <2> QED  BY <1>1, <1>5, <2>1, BlockIsReached
<1>7. fr \in Frame
  <2>1. t \in DOMAIN Parses
    BY <1>2, Hosts
  <2>2. fr = Loop(top.at, f, t, m) => fr \in Frame
    BY <1>1, <2>1, Frames
  <2>3. fr = Entries(top.at, f, top.type, m) => fr \in Frame
    BY <1>1, Frames
  <2> QED  BY <2>2, <2>3
<1>8. FrameOK(fr)'
  <2>1. CASE fr = Loop(top.at, f, t, m)
    <3>1. fr.kind = "array" /\ fr.at = top.at /\ fr.field = f /\ fr.type = t /\ fr.next = 1
      BY <2>1 DEF Loop
    <3> QED  BY <3>1, <1>1, <1>2, <1>4, <1>5 DEF FrameOK
  <2>2. CASE fr = Entries(top.at, f, top.type, m) /\ t = "extension"
    <3>1. fr.kind = "entries" /\ fr.at = top.at /\ fr.field = f /\ fr.type = top.type
      BY <2>2 DEF Entries
    <3>2. TypeOf(top.at) = Host(top.type)
      BY DEF FrameOK
    <3> QED  BY <2>2, <3>1, <3>2, <1>1, <1>2, <1>4, <1>5 DEF FrameOK
  <2> QED  BY <2>1, <2>2
<1>9. /\ stack' \in Seq(Frame) /\ stack' # <<>>
      /\ \A g : OnStack(g)' => OnStack(g) \/ g = fr
  BY <1>7, StackCall DEF Call, IInv, StackInv
<1> QED
  BY <1>3, <1>4, <1>6, <1>8, <1>9, Keeps DEF CountsGrow

\* The object behind a key, an element or a flag: its frame is a good one as
\* soon as cgltf_free walks to it.
LEMMA ObjectFrame ==
    ASSUME NEW o \in Place, NEW f \in Fields, NEW k \in Nat, NEW t \in Elements,
           Good(o)', Walks(o, <<f, k, t>>)', k > 0 => Field(o, f) \in Blocks'
    PROVE  LET fr == Object(Append(o, <<f, k, t>>), t) IN
           fr \in Frame /\ FrameOK(fr)'
<1> DEFINE p == Append(o, <<f, k, t>>)
           fr == Object(p, t)
<1>1. p \in Place /\ TypeOf(p) = t
  BY Lengthen
<1>2. Good(p)'
  BY GoodStep
<1>3. t \in DOMAIN Parses /\ Host(t) = t
  BY Hosts
<1> HIDE DEF p
<1>4. fr \in Frame
  BY <1>1, <1>3 DEF Frame, Object
<1>5. fr.kind = "object" /\ fr.at = p /\ fr.type = t
  BY DEF Object
<1>6. FrameOK(fr)'
  BY <1>1, <1>2, <1>3, <1>5 DEF FrameOK
<1> QED  BY <1>4, <1>6 DEF p

\* A call into a struct held inside its parent, with or without a flag going up.
LEMMA StructBegins ==
    ASSUME IInv, pc = "parsing",
           NEW top \in Frame, top.kind = "object", OnStack(top), FrameOK(top),
           NEW f \in DOMAIN Parses[top.type],
           NEW t, t = Parses[top.type][f].of,
           \/ Parses[top.type][f].kind = "inside"
           \/ Parses[top.type][f].kind = "oneof" /\ Struct(top.at, f, t) \in flags',
           UNCHANGED <<heap, lost, count, pc>>, flags \subseteq flags',
           Call(Object(Struct(top.at, f, t), t))
    PROVE  IInv'
<1> DEFINE fr == Object(Struct(top.at, f, t), t)
<1>1. /\ top.at \in Place /\ f \in Fields
      /\ f \in DOMAIN Frees[TypeOf(top.at)]
      /\ Fits(Parses[top.type][f], Frees[TypeOf(top.at)][f])
  BY KeyFits
<1>2. t \in Elements /\ Frees[TypeOf(top.at)][f] = Parses[top.type][f]
  BY <1>1 DEF Fits, Released
<1>3. Blocks' = Blocks /\ CountsGrow
  BY Uncounted DEF IInv, Blocks
<1>4. Grows
  BY <1>3 DEF Grows, CountsGrow
<1>5. Good(top.at)'
  BY <1>4, GoodStays DEF FrameOK
<1>6. Walks(top.at, <<f, 0, t>>)'
  BY <1>1, <1>2 DEF Walks, Struct
<1>7. fr \in Frame /\ FrameOK(fr)'
  BY <1>1, <1>2, <1>5, <1>6, ObjectFrame DEF Struct
<1> HIDE DEF fr
<1>8. /\ stack' \in Seq(Frame) /\ stack' # <<>>
      /\ \A g : OnStack(g)' => OnStack(g) \/ g = fr
  BY <1>7, StackCall DEF Call, IInv, StackInv, fr
<1> QED
  BY <1>3, <1>4, <1>7, <1>8, Keeps DEF IInv, HeapInv, CountsGrow

\* A failed allocation that is not missed: only a count changes.
LEMMA PassesOver ==
    ASSUME IInv, pc = "parsing", UNCHANGED <<heap, lost, flags, stack, pc>>, CountsGrow
    PROVE  IInv'
<1>1. Blocks' = Blocks
  BY DEF Blocks
<1>2. Grows
  BY <1>1 DEF Grows, CountsGrow
<1>3. \A fr : OnStack(fr)' <=> OnStack(fr)
  BY DEF OnStack
<1> QED
  BY <1>1, <1>2, <1>3, Keeps DEF IInv, HeapInv, StackInv, ControlInv, CountsGrow

\* Where the parser stands.
LEMMA TopFrame ==
    ASSUME IInv, pc = "parsing"
    PROVE  \E top \in Frame : top = Top /\ OnStack(top) /\ FrameOK(top)
<1>1. stack \in Seq(Frame) /\ stack # <<>>
  BY DEF IInv, StackInv, ControlInv
<1>2. Top \in Frame /\ OnStack(Top)
  BY <1>1, StackTop
<1>3. PICK top \in Frame : top = Top
  BY <1>2
<1>4. OnStack(top)
  BY <1>2, <1>3
<1> QED  BY <1>3, <1>4 DEF IInv, StackInv

\* The four kinds of array.
LEMMA ArrayKeeps ==
    ASSUME IInv, pc = "parsing",
           NEW top \in Frame, top.kind = "object", OnStack(top), FrameOK(top),
           NEW f \in DOMAIN Parses[top.type], NEW n \in Nat,
           LET shape == Parses[top.type][f] IN
           \/ shape.kind = "array" /\ ParseArray(top.at, f, shape.of, n)
           \/ shape.kind = "attributes" /\ ParseAttributeList(top.at, f, n)
           \/ shape.kind = "extensions" /\ ParseExtensions(top.at, f, top.type, n)
           \/ shape.kind = "mappings" /\ ParseMaterialMappings(top.at, f, n)
    PROVE  IInv'
<1> DEFINE shape == Parses[top.type][f]
           q == Field(top.at, f)
<1>1. Fits(shape, Frees[TypeOf(top.at)][f])
  BY KeyFits
<1>2. /\ shape.kind = "attributes" => shape.of = "attribute"
      /\ shape.kind = "extensions" => shape.of = "extension"
      /\ shape.kind = "mappings" => shape.of = "mapping"
  BY <1>1 DEF Fits
<1>3. UNCHANGED count => CountsGrow
  BY Uncounted DEF IInv
<1>4. ASSUME NEW m \in Nat, q \notin heap, SetCount(q, m) PROVE CountsGrow
  BY <1>4, Counted DEF IInv, Blocks
<1>5. 0 \in Nat
  OBVIOUS
<1> HIDE DEF shape, q
<1>6. CASE shape.kind = "array" /\ ParseArray(top.at, f, shape.of, n)
  <2>1. CASE /\ q \notin heap /\ Stores(q) /\ SetCount(q, n) /\ UNCHANGED pc
             /\ Call(Loop(top.at, f, shape.of, n))
    BY <1>5, <1>6, <2>1, ArrayBegins DEF ParseArray, shape, q
  <2>2. CASE UNCHANGED <<heap, lost, count>> /\ \E r : Fails(r)
    BY <1>3, <1>6, <2>2, GivesUp DEF ParseArray
  <2> QED  BY <1>6, <2>1, <2>2 DEF ParseArray, NoMemory, q
<1>7. CASE shape.kind = "attributes" /\ ParseAttributeList(top.at, f, n)
  <2>1. CASE /\ q \notin heap /\ Stores(q) /\ SetCount(q, n) /\ UNCHANGED pc
             /\ Call(Loop(top.at, f, "attribute", n))
    BY <1>2, <1>5, <1>7, <2>1, ArrayBegins DEF ParseAttributeList, shape, q
  <2>2. CASE /\ UNCHANGED <<heap, lost>> /\ ((q \notin heap /\ SetCount(q, n)) \/ UNCHANGED count)
             /\ \E r : Fails(r)
    BY <1>3, <1>4, <1>7, <2>2, GivesUp DEF ParseAttributeList
  <2> QED  BY <1>7, <2>1, <2>2 DEF ParseAttributeList, NoMemory, q
<1>8. CASE shape.kind = "extensions" /\ ParseExtensions(top.at, f, top.type, n)
  <2>1. CASE /\ q \notin heap /\ Stores(q) /\ SetCount(q, 0) /\ UNCHANGED pc
             /\ Call(Entries(top.at, f, top.type, n))
    BY <1>2, <1>5, <1>8, <2>1, ArrayBegins DEF ParseExtensions, shape, q
  <2>2. CASE /\ UNCHANGED <<heap, lost>> /\ ((q \notin heap /\ SetCount(q, 0)) \/ UNCHANGED count)
             /\ \E r : Fails(r)
    BY <1>3, <1>4, <1>5, <1>8, <2>2, GivesUp DEF ParseExtensions
  <2> QED  BY <1>8, <2>1, <2>2 DEF ParseExtensions, NoMemory, q
<1>9. CASE shape.kind = "mappings" /\ ParseMaterialMappings(top.at, f, n)
  <2>1. CASE Stores(q) /\ Call(Loop(top.at, f, "mapping", n))
    BY <1>2, <1>5, <1>9, <2>1, ArrayBegins DEF ParseMaterialMappings, shape, q
  <2>2. CASE UNCHANGED <<heap, lost, stack>>
    BY <1>4, <1>9, <2>2, PassesOver DEF ParseMaterialMappings, q
  <2> QED  BY <1>9, <2>1, <2>2 DEF ParseMaterialMappings, q
<1> QED  BY <1>6, <1>7, <1>8, <1>9 DEF shape

\* The next key of an object.
LEMMA KeyKeeps == ASSUME IInv, Key PROVE IInv'
<1>1. pc = "parsing" /\ Top.kind = "object"
  BY DEF Key, At
<1>2. PICK top \in Frame : top = Top /\ OnStack(top) /\ FrameOK(top)
  BY <1>1, TopFrame
<1>3. top.kind = "object"
  BY <1>1, <1>2
<1>4. UNCHANGED count => CountsGrow
  BY Uncounted DEF IInv
<1>5. PICK f \in DOMAIN Parses[top.type] :
        LET shape == Parses[top.type][f] IN
        \/ shape.kind = "block" /\ ParseString(top.at, f, top.type)
        \/ /\ shape.kind = "inside"
           /\ Call(Object(Struct(top.at, f, shape.of), shape.of))
           /\ UNCHANGED <<heap, lost, count, flags, pc, result, oom>>
        \/ /\ shape.kind = "oneof"
           /\ \/ ParseCameraData(top.at, f, shape.of)
              \/ ParseCameraDataAgain(top.at, shape.of)
        \/ shape.kind = "mappings" /\ ParseMaterialMappingsAgain(top.at, f)
        \/ \E n \in 0..MaxElements :
             \/ shape.kind = "array" /\ ParseArray(top.at, f, shape.of, n)
             \/ shape.kind = "attributes" /\ ParseAttributeList(top.at, f, n)
             \/ shape.kind = "extensions" /\ ParseExtensions(top.at, f, top.type, n)
             \/ shape.kind = "mappings" /\ ParseMaterialMappings(top.at, f, n)
  BY <1>2 DEF Key
<1> DEFINE shape == Parses[top.type][f]
<1> HIDE DEF shape
<1>6. CASE shape.kind = "block" /\ ParseString(top.at, f, top.type)
  BY <1>1, <1>2, <1>3, <1>6, ParseStringKeeps DEF shape
<1>7. CASE /\ shape.kind = "inside"
           /\ Call(Object(Struct(top.at, f, shape.of), shape.of))
           /\ UNCHANGED <<heap, lost, count, flags, pc, result, oom>>
  BY <1>1, <1>2, <1>3, <1>7, StructBegins DEF shape
<1>8. CASE shape.kind = "oneof" /\ ParseCameraData(top.at, f, shape.of)
  <2>1. /\ UNCHANGED <<heap, lost, count, pc>>
        /\ flags \subseteq flags' /\ Struct(top.at, f, shape.of) \in flags'
        /\ Call(Object(Struct(top.at, f, shape.of), shape.of))
    BY <1>8 DEF ParseCameraData
  <2> QED  BY <1>1, <1>2, <1>3, <1>8, <2>1, StructBegins DEF shape
<1>9. CASE ParseCameraDataAgain(top.at, shape.of)
  BY <1>4, <1>9, GivesUp DEF ParseCameraDataAgain
<1>10. CASE ParseMaterialMappingsAgain(top.at, f)
  BY <1>4, <1>10, GivesUp DEF ParseMaterialMappingsAgain
<1>11. ASSUME NEW n \in 0..MaxElements,
              \/ shape.kind = "array" /\ ParseArray(top.at, f, shape.of, n)
              \/ shape.kind = "attributes" /\ ParseAttributeList(top.at, f, n)
              \/ shape.kind = "extensions" /\ ParseExtensions(top.at, f, top.type, n)
              \/ shape.kind = "mappings" /\ ParseMaterialMappings(top.at, f, n)
       PROVE  IInv'
  <2>1. n \in Nat
    BY BoundsAssumption
  <2> QED  BY <1>1, <1>2, <1>3, <1>11, <2>1, ArrayKeeps DEF shape
<1> QED
  BY <1>5, <1>6, <1>7, <1>8, <1>9, <1>10, <1>11 DEF shape

\* A loop that has taken one more turn stands where it stood.
LEMMA LoopFrame ==
    ASSUME NEW top \in Frame, FrameOK(top)', NEW n \in Nat, top.kind = "array" => n > 0
    PROVE  LET down == [top EXCEPT !.next = n] IN down \in Frame /\ FrameOK(down)'
<1> DEFINE down == [top EXCEPT !.next = n]
<1>1. down \in Frame
  BY DEF Frame
<1>2. /\ down.kind = top.kind /\ down.at = top.at /\ down.field = top.field
      /\ down.type = top.type /\ down.next = n
  BY DEF Frame
<1> HIDE DEF down
<1>3. FrameOK(down)'
  BY <1>2 DEF FrameOK
<1> QED  BY <1>1, <1>3 DEF down

\* A loop calls the function of its next object.
LEMMA LoopKeeps ==
    ASSUME IInv, pc = "parsing", UNCHANGED <<heap, lost, pc>>, Grows, CountsGrow,
           NEW down \in Frame, FrameOK(down)', NEW fr \in Frame, FrameOK(fr)',
           Steps(down, fr)
    PROVE  IInv'
<1>1. Blocks' = Blocks
  BY DEF Blocks
<1>2. /\ stack' \in Seq(Frame) /\ stack' # <<>>
      /\ \A g : OnStack(g)' => OnStack(g) \/ g = fr \/ g = down
  BY StackSteps DEF Steps, IInv, StackInv, ControlInv
<1> QED
  BY <1>1, <1>2, Keeps DEF IInv, HeapInv, CountsGrow

\* The loop over the elements of an array.
LEMMA NextElementKeeps == ASSUME IInv, NextElement PROVE IInv'
<1>1. pc = "parsing" /\ Top.kind = "array" /\ UNCHANGED <<heap, lost, count, flags, pc>>
  BY DEF NextElement, At
<1>2. PICK top \in Frame : top = Top /\ OnStack(top) /\ FrameOK(top)
  BY <1>1, TopFrame
<1> DEFINE down == [top EXCEPT !.next = top.next + 1]
           at == Element(top.at, top.field, top.next, top.type)
           fr == Object(at, top.type)
<1>3. /\ Steps(down, fr)
      /\ top.next <= CountOf(Field(top.at, top.field))
  BY <1>2 DEF NextElement
<1>4. CountsGrow /\ Grows
  <2>1. CountsGrow
    BY <1>1, Uncounted DEF IInv
  <2> QED  BY <1>1, <2>1 DEF Grows, CountsGrow, Blocks
<1>5. FrameOK(top)'
  BY <1>2, <1>4, FrameStays
<1>6. /\ top.at \in Place /\ top.next \in Nat /\ top.kind = "array"
  BY <1>1, <1>2 DEF Frame
<1>7. /\ Good(top.at)' /\ TypeOf(top.at) \in Elements /\ top.type \in Elements
      /\ top.field \in DOMAIN Frees[TypeOf(top.at)]
      /\ Frees[TypeOf(top.at)][top.field] = ArrayOf(top.type)
      /\ Field(top.at, top.field) \in Blocks' /\ top.next > 0
  BY <1>5, <1>6 DEF FrameOK
<1>8. top.field \in Fields
  BY <1>7 DEF Fields
<1>9. Walks(top.at, <<top.field, top.next, top.type>>)'
  <2>1. top.next \in 1..(CountOf(Field(top.at, top.field))')
    BY <1>1, <1>3, <1>6, <1>7 DEF CountOf, IInv, CountInv
  <2> QED  BY <1>7, <2>1 DEF Walks, ArrayOf
<1>10. fr \in Frame /\ FrameOK(fr)'
  BY <1>6, <1>7, <1>8, <1>9, ObjectFrame DEF Element
<1>11. down \in Frame /\ FrameOK(down)'
  BY <1>5, <1>6, LoopFrame
<1> HIDE DEF down, fr
<1> QED  BY <1>1, <1>3, <1>4, <1>10, <1>11, LoopKeeps

\* An extension copied unparsed: its slot is counted, then filled.
LEMMA UnprocessedExtensionKeeps == ASSUME IInv, UnprocessedExtension PROVE IInv'
<1>1. /\ pc = "parsing" /\ Top.kind = "entries" /\ Top.next > 0
      /\ UNCHANGED <<heap, lost, flags, pc>>
  BY DEF UnprocessedExtension, At
<1>2. PICK top \in Frame : top = Top /\ OnStack(top) /\ FrameOK(top)
  BY <1>1, TopFrame
<1> DEFINE q == Field(top.at, top.field)
           k == CountOf(q) + 1
<1>3. PICK n \in Nat : n = k
  BY DEF IInv, CountInv, CountOf
<1> DEFINE down == [top EXCEPT !.next = top.next - 1]
           fr == Object(Element(top.at, top.field, n, "extension"), "extension")
<1>4. SetCount(q, n) /\ Steps(down, fr)
  BY <1>2, <1>3 DEF UnprocessedExtension
<1>5. CountsGrow /\ CountOf(q)' = n /\ CountOf(q) \in Nat
  <2>1. CountOf(q) <= n /\ CountOf(q) \in Nat
    BY <1>3 DEF IInv, CountInv, CountOf
  <2> QED  BY <1>4, <2>1, Counted DEF IInv
<1>6. Grows
  BY <1>1, <1>5 DEF Grows, CountsGrow, Blocks
<1>7. FrameOK(top)'
  BY <1>2, <1>6, FrameStays
<1>8. /\ top.at \in Place /\ top.next \in Nat /\ top.kind = "entries" /\ top.next > 0
  BY <1>1, <1>2 DEF Frame
<1>9. /\ Good(top.at)' /\ TypeOf(top.at) \in Elements
      /\ top.field \in DOMAIN Frees[TypeOf(top.at)]
      /\ Frees[TypeOf(top.at)][top.field] = ArrayOf("extension")
      /\ q \in Blocks'
  BY <1>7, <1>8 DEF FrameOK
<1>10. top.field \in Fields /\ "extension" \in Elements
  BY <1>9, Domains DEF Fields
<1>11. Walks(top.at, <<top.field, n, "extension">>)'
  <2>1. n \in 1..(CountOf(q)')
    BY <1>3, <1>5
  <2> QED  BY <1>9, <2>1 DEF Walks, ArrayOf
<1>12. fr \in Frame /\ FrameOK(fr)'
  BY <1>8, <1>9, <1>10, <1>11, ObjectFrame DEF Element
<1>13. down \in Frame /\ FrameOK(down)'
  BY <1>7, <1>8, LoopFrame
<1> HIDE DEF down, fr
<1> QED  BY <1>1, <1>4, <1>5, <1>6, <1>12, <1>13, LoopKeeps

\* An extension known by name: the flag that leads cgltf_free to its fields is up
\* before they are read, or they are fields of the object itself.
LEMMA KnownExtensionKeeps == ASSUME IInv, KnownExtension PROVE IInv'
<1>1. /\ pc = "parsing" /\ Top.kind = "entries" /\ Top.next > 0
      /\ Top.type \in DOMAIN Knows
      /\ UNCHANGED <<heap, lost, count, pc>>
  BY DEF KnownExtension, At
<1>2. PICK top \in Frame : top = Top /\ OnStack(top) /\ FrameOK(top)
  BY <1>1, TopFrame
<1> DEFINE down == [top EXCEPT !.next = top.next - 1]
<1>3. PICK f \in DOMAIN Knows[top.type] :
        LET shape == Knows[top.type][f]
            place == Struct(top.at, f, shape.of)
        IN \/ /\ shape.kind = "flagged"
              /\ flags' = flags \cup {place}
              /\ Steps(down, Object(place, shape.of))
           \/ /\ shape.kind = "within"
              /\ Steps(down, Object(top.at, shape.of))
              /\ UNCHANGED flags
  BY <1>2 DEF KnownExtension
<1> DEFINE shape == Knows[top.type][f]
           place == Struct(top.at, f, shape.of)
<1>4. /\ top.type \in DOMAIN Knows
      /\ shape.of \in DOMAIN Parses
      /\ shape.kind = "within" => Host(shape.of) = top.type
      /\ shape.kind = "flagged" =>
           /\ shape.of \in Elements /\ f \in DOMAIN Frees[top.type]
           /\ Frees[top.type][f] = shape
  BY <1>1, <1>2, KnownTables
<1> HIDE DEF shape
<1>5. top.at \in Place /\ top.next \in Nat /\ top.kind = "entries" /\ top.next > 0
  BY <1>1, <1>2 DEF Frame
<1>6. TypeOf(top.at) = top.type /\ top.type \in Elements
  <2>1. top.type \in Elements
    BY <1>4, Domains DEF Knows
  <2> QED  BY <1>2, <1>5, <2>1, Hosts DEF FrameOK
<1>7. CountsGrow /\ Grows
  <2>1. CountsGrow
    BY <1>1, Uncounted DEF IInv
  <2>2. flags \subseteq flags'
    BY <1>3 DEF shape
  <2> QED  BY <1>1, <2>1, <2>2 DEF Grows, CountsGrow, Blocks
<1>8. FrameOK(top)' /\ Good(top.at)'
  <2>1. FrameOK(top)'
    BY <1>2, <1>7, FrameStays
  <2> QED  BY <2>1 DEF FrameOK
<1>9. down \in Frame /\ FrameOK(down)'
  BY <1>5, <1>8, LoopFrame
<1> HIDE DEF down
<1>10. CASE /\ shape.kind = "flagged" /\ flags' = flags \cup {place}
            /\ Steps(down, Object(place, shape.of))
  <2>1. f \in Fields
    BY <1>4, <1>6, <1>10 DEF Fields
  <2>2. Walks(top.at, <<f, 0, shape.of>>)'
    BY <1>4, <1>6, <1>10 DEF Walks, Struct
  <2>3. Object(place, shape.of) \in Frame /\ FrameOK(Object(place, shape.of))'
    BY <1>4, <1>5, <1>8, <1>10, <2>1, <2>2, ObjectFrame DEF Struct
  <2> HIDE DEF place
  <2> QED  BY <1>1, <1>7, <1>9, <1>10, <2>3, LoopKeeps
<1>11. CASE shape.kind = "within" /\ Steps(down, Object(top.at, shape.of))
  <2> DEFINE fr == Object(top.at, shape.of)
  <2>1. fr.kind = "object" /\ fr.at = top.at /\ fr.type = shape.of
    BY DEF Object
  <2>2. fr \in Frame
    BY <1>4, <1>5 DEF Frame, Object
  <2> HIDE DEF fr
  <2>3. FrameOK(fr)'
    BY <1>4, <1>6, <1>8, <1>11, <2>1 DEF FrameOK
  <2> QED  BY <1>1, <1>7, <1>9, <1>11, <2>2, <2>3, LoopKeeps DEF fr
<1> QED  BY <1>3, <1>10, <1>11 DEF shape

\* A function returns; with the last one the token array goes.
LEMMA ReturnKeeps == ASSUME IInv, Return PROVE IInv'
<1>1. /\ pc = "parsing" /\ stack' = Rest
      /\ pc' = (IF Rest = <<>> THEN "fixup" ELSE "parsing")
      /\ UNCHANGED <<lost, count, flags>>
      /\ heap' = heap \ {TokensPlace} \/ heap' = heap
  BY DEF Return
<1>2. Blocks' = Blocks /\ heap' \subseteq heap
  BY <1>1 DEF Blocks
<1>3. CountsGrow
  BY <1>1, Uncounted DEF IInv
<1>4. Grows
  BY <1>1, <1>2, <1>3 DEF Grows, CountsGrow
<1>5. stack' \in Seq(Frame) /\ \A fr : OnStack(fr)' => OnStack(fr)
  <2>1. /\ Rest \in Seq(Frame)
        /\ \A i \in 1..Len(Rest) : i \in 1..Len(stack) /\ Rest[i] = stack[i]
    BY <1>1, StackTop DEF IInv, StackInv, ControlInv
  <2> QED  BY <1>1, <2>1 DEF OnStack
<1> QED
  BY <1>1, <1>2, <1>3, <1>4, <1>5, Keeps DEF IInv, HeapInv, CountsGrow

\* A malformed document, or one of an old version, is given up.
LEMMA GivingUpKeeps == ASSUME IInv, Malformed \/ LegacyAsset PROVE IInv'
<1>1. CountsGrow
  <2>1. UNCHANGED count
    BY DEF Malformed, LegacyAsset
  <2> QED  BY <2>1, Uncounted DEF IInv
<1>2. UNCHANGED <<heap, lost, flags>> /\ \E r : Fails(r)
  BY DEF Malformed, LegacyAsset
<1> QED  BY <1>1, <1>2, GivesUp

\* cgltf_parse_json allocates the root of everything.
LEMMA BeginKeeps == ASSUME IInv, Begin PROVE IInv'
<1>1. /\ heap = {} /\ lost' = {} /\ stack = <<>>
      /\ UNCHANGED <<count, flags>>
  BY DEF Begin, IInv, HeapInv, ControlInv
<1>2. CountInv'
  BY <1>1 DEF IInv, CountInv
<1>3. CASE /\ heap' = {TokensPlace, DataPlace} /\ pc' = "parsing"
           /\ stack' = <<Object(DataPlace, "data")>>
  <2>1. /\ DataPlace \in Place /\ Good(DataPlace)' /\ TypeOf(DataPlace) = "data"
    BY EmptySeq DEF DataPlace, Place, Good, TypeOf
  <2> DEFINE fr == Object(DataPlace, "data")
  <2>2. fr.kind = "object" /\ fr.at = DataPlace /\ fr.type = "data"
    BY DEF Object
  <2>3. "data" \in Elements /\ "data" \in DOMAIN Parses /\ Host("data") = "data"
    BY Domains DEF Host
  <2>4. fr \in Frame
    BY <2>1, <2>3 DEF Frame, Object
  <2> HIDE DEF fr
  <2>5. FrameOK(fr)'
    BY <2>1, <2>2, <2>3 DEF FrameOK
  <2>6. /\ stack' \in Seq(Frame) /\ stack' # <<>>
        /\ \A g : OnStack(g)' => g = fr
    BY <1>3, <2>4 DEF OnStack, fr
  <2>7. \A p \in Blocks' : p = DataPlace
    BY <1>3 DEF Blocks
  <2>8. HeapInv'
    BY <1>1, <1>3, <2>1, <2>7 DEF HeapInv
  <2> QED
    BY <1>2, <1>3, <2>5, <2>6, <2>8 DEF IInv, StackInv, ControlInv
<1>4. CASE UNCHANGED <<heap, stack>> /\ pc' = "freed"
  <2>1. HeapInv'
    BY <1>1, <1>4 DEF HeapInv, Blocks
  <2>2. StackInv'
    BY <1>1, <1>4 DEF IInv, StackInv, OnStack
  <2> QED  BY <1>1, <1>2, <1>4, <2>1, <2>2 DEF IInv, ControlInv
<1> QED  BY <1>3, <1>4 DEF Begin

\* Whatever changes only the program counter and results once the parser is done.
LEMMA EndKeeps ==
    ASSUME IInv, pc # "parsing", UNCHANGED <<heap, lost, count, flags, stack>>,
           pc' \notin {"parsing", "start", "freed"}
    PROVE  IInv'
<1>1. stack = <<>>
  BY DEF IInv, ControlInv
<1>2. Grows /\ Blocks' = Blocks /\ CountInv'
  <2>1. CountsGrow
    BY Uncounted DEF IInv
  <2> QED  BY <2>1 DEF Grows, CountsGrow, Blocks
<1>3. HeapInv'
  BY <1>2, GoodStays DEF IInv, HeapInv
<1>4. StackInv'
  BY <1>1 DEF IInv, StackInv, OnStack
<1> QED  BY <1>1, <1>2, <1>3, <1>4 DEF IInv, ControlInv

\* cgltf_free comes to every block.
LEMMA FreeKeeps == ASSUME IInv, Free PROVE IInv'
<1>1. pc \in {"failed", "held"} /\ UNCHANGED <<lost, stack>>
  BY DEF Free
<1>2. stack = <<>>
  BY <1>1 DEF IInv, ControlInv
<1>3. CASE pc' = "crashed" /\ UNCHANGED <<heap, count, flags>>
  BY <1>1, <1>3, EndKeeps
<1>4. CASE /\ pc' = "freed" /\ count' = [p \in {} |-> 0]
           /\ heap' = { p \in heap : p # TokensPlace /\ ~Reaches(p) }
  <2>1. \A p \in Blocks : Reaches(p)
    BY GoodIsReached DEF IInv, HeapInv
  <2>2. heap' = {}
    BY <1>4, <2>1 DEF Blocks
  <2>3. HeapInv'
    BY <1>1, <2>2 DEF IInv, HeapInv, Blocks
  <2>4. CountInv'
    BY <1>4 DEF CountInv
  <2>5. StackInv'
    BY <1>1, <1>2 DEF IInv, StackInv, OnStack
  <2> QED  BY <1>1, <1>2, <1>4, <2>2, <2>3, <2>4, <2>5 DEF IInv, ControlInv
<1> QED  BY <1>3, <1>4 DEF Free

-----------------------------------------------------------------------------
\* The invariant holds at the start.
LEMMA InitEstablishes == ASSUME Init PROVE IInv
<1>1. HeapInv /\ CountInv
  BY DEF Init, HeapInv, CountInv, Blocks
<1>2. StackInv
  BY EmptySeq DEF Init, StackInv, OnStack
<1> QED  BY <1>1, <1>2 DEF Init, IInv, ControlInv

\* Every step of the parser and of cgltf_free keeps it.
LEMMA StepKeeps == ASSUME IInv, [Next]_vars PROVE IInv'
<1>1. CASE Begin                 BY <1>1, BeginKeeps
<1>2. CASE Key                   BY <1>2, KeyKeeps
<1>3. CASE NextElement           BY <1>3, NextElementKeeps
<1>4. CASE UnprocessedExtension  BY <1>4, UnprocessedExtensionKeeps
<1>5. CASE KnownExtension        BY <1>5, KnownExtensionKeeps
<1>6. CASE Return                BY <1>6, ReturnKeeps
<1>7. CASE Malformed             BY <1>7, GivingUpKeeps
<1>8. CASE LegacyAsset           BY <1>8, GivingUpKeeps
<1>9. CASE Fixup
  <2>1. /\ pc = "fixup" /\ UNCHANGED <<heap, lost, count, flags, stack>>
        /\ pc' \in {"held", "crashed", "failed"}
    BY <1>9 DEF Fixup
  <2> QED  BY <2>1, EndKeeps
<1>10. CASE Free                 BY <1>10, FreeKeeps
<1>11. CASE UNCHANGED vars
  <2>1. Blocks' = Blocks /\ IInv' = IInv
    BY <1>11 DEF vars, IInv, HeapInv, CountInv, StackInv, ControlInv, Blocks, OnStack,
                 FrameOK, Good, Walks, CountOf
  <2> QED  BY <2>1
<1> QED
  BY <1>1, <1>2, <1>3, <1>4, <1>5, <1>6, <1>7, <1>8, <1>9, <1>10, <1>11 DEF Next

\* At every moment of every parse, whatever the document and whichever allocation
\* fails, cgltf_free as it would run now comes to every block but the tokens, and
\* no block has lost its pointer.
THEOREM EveryBlockIsOwned == Spec => []Owned
<1>1. Init => IInv
  BY InitEstablishes
<1>2. IInv /\ [Next]_vars => IInv'
  BY StepKeeps
<1>3. IInv => Owned
  BY GoodIsReached DEF IInv, HeapInv, Owned, Blocks
<1> QED  BY <1>1, <1>2, <1>3, PTL DEF Spec

\* When cgltf_free has returned, whether after an error inside cgltf_parse_json
\* or at the end of the document's life, nothing is left allocated.
THEOREM NothingIsLeaked == Spec => []NothingLeaks
<1>1. Init => IInv
  BY InitEstablishes
<1>2. IInv /\ [Next]_vars => IInv'
  BY StepKeeps
<1>3. IInv => NothingLeaks
  BY DEF IInv, HeapInv, ControlInv, NothingLeaks
<1> QED  BY <1>1, <1>2, <1>3, PTL DEF Spec

-----------------------------------------------------------------------------
(***************************************************************************)
(* What the counts promise.  A second invariant, over the first: where a   *)
(* count stands, what it may exceed, and which of the elements it speaks   *)
(* of are filled, being filled, or still waiting for the loop over their   *)
(* array.                                                                  *)
(***************************************************************************)
FieldOf(p) == p[Len(p)][1]
ElementType(o, f) == Frees[TypeOf(o)][f].of
\* Elements whose fields must all be there.
MustHave == Fixed \ {"mapping"}

\* p is the place of an array that cgltf_free comes to, whether it is there or not.
ArrayPlace(p) ==
    \E o \in Place, f \in Fields :
        /\ p = Field(o, f) /\ Good(o)
        /\ f \in DOMAIN Frees[TypeOf(o)] /\ Frees[TypeOf(o)][f].kind = "array"

\* The counts: of arrays, within the bound, and over a null pointer only in the
\* two functions that count first.
ArraysCounted ==
    \A p \in DOMAIN count :
        /\ ArrayPlace(p)
        /\ count[p] \in 0..MaxElements
        /\ count[p] > 0 =>
             p \in Blocks \/ (oom /\ FieldOf(p) \in {"attributes", "mappings"})

\* A loop goes at most one step behind the end of the array it was called for; the
\* entries that are left fit into theirs.
Bounded(fr) ==
    /\ fr.size <= MaxElements
    /\ fr.kind = "object" => fr.next = 0
    /\ fr.kind = "array" =>
         fr.next <= fr.size + 1 /\ CountOf(Field(fr.at, fr.field)) <= fr.size
    /\ fr.kind = "entries" => fr.next + CountOf(Field(fr.at, fr.field)) <= fr.size

LoopsBounded == \A fr \in Frame : OnStack(fr) => Bounded(fr)

\* No two loops run over the same array.
LoopsApart ==
    \A i, j \in 1..Len(stack) :
        /\ i # j /\ stack[i].kind # "object" /\ stack[j].kind # "object"
        => Field(stack[i].at, stack[i].field) # Field(stack[j].at, stack[j].field)

Filled(o, f, k) ==
    \A g \in DOMAIN Parses[ElementType(o, f)] :
        Field(Element(o, f, k, ElementType(o, f)), g) \in Blocks
BeingFilled(o, f, k) ==
    OnStack(Object(Element(o, f, k, ElementType(o, f)), ElementType(o, f)))
Waiting(o, f, k) ==
    \E fr \in Frame : /\ OnStack(fr) /\ fr.kind = "array"
                      /\ fr.at = o /\ fr.field = f /\ fr.next <= k
Accounted(o, f, k) == Filled(o, f, k) \/ BeingFilled(o, f, k) \/ Waiting(o, f, k)

Elemental(o, f, k) ==
    /\ Field(o, f) \in Blocks /\ k \in 1..CountOf(Field(o, f))

\* Every element with fields that must be there has them, or will get them.
ElementsAccounted ==
    \A o \in Place, f \in Fields, k \in Nat :
        Elemental(o, f, k) /\ ElementType(o, f) \in MustHave => Accounted(o, f, k)

Ongoing == pc \notin {"failed", "freed", "crashed"}

\* A failed allocation that did not end the parse was one of variant mappings.
Noticed == Ongoing /\ oom => \E p \in DOMAIN count : FieldOf(p) = "mappings"

EndInv ==
    /\ pc = "start" => DOMAIN count = {} /\ ~oom
    /\ pc = "held" => NullArrays = {}

Types == pc \in Pcs /\ result \in Results /\ oom \in BOOLEAN

CInv == /\ Types /\ ArraysCounted /\ LoopsBounded /\ LoopsApart
        /\ (Ongoing => ElementsAccounted) /\ Noticed /\ EndInv

-----------------------------------------------------------------------------
\* A field has one object, and one name.
LEMMA FieldsApart ==
    ASSUME NEW o \in Place, NEW f \in Fields, NEW p \in Place, NEW g \in Fields,
           Field(o, f) = Field(p, g)
    PROVE  o = p /\ f = g
<1>0. 0 \in Nat /\ "block" \in Elements \cup {"block"} /\ Len(o) \in Nat /\ Len(p) \in Nat
  BY DEF Place
<1>1. /\ Len(Field(o, f)) = Len(o) + 1 /\ Field(o, f)[Len(o) + 1] = <<f, 0, "block">>
      /\ SubSeq(Field(o, f), 1, Len(o)) = o
  BY <1>0, Lengthen DEF Field
<1>2. /\ Len(Field(p, g)) = Len(p) + 1 /\ Field(p, g)[Len(p) + 1] = <<g, 0, "block">>
      /\ SubSeq(Field(p, g), 1, Len(p)) = p
  BY <1>0, Lengthen DEF Field
<1>3. Len(o) = Len(p)
  <2>1. Len(o) + 1 = Len(p) + 1
    BY <1>1, <1>2
  <2> QED  BY <1>0, <2>1
<1>4. o = p /\ <<f, 0, "block">> = <<g, 0, "block">>
  BY <1>1, <1>2, <1>3
<1> QED  BY <1>4

\* The object and the name of a field.
LEMMA FieldHas ==
    ASSUME NEW o \in Place, NEW f \in Fields
    PROVE  /\ Field(o, f) \in Place /\ FieldOf(Field(o, f)) = f
           /\ SubSeq(Field(o, f), 1, Len(Field(o, f)) - 1) = o
           /\ Len(Field(o, f)) > 0 /\ Len(o) \in Nat
<1>0. 0 \in Nat /\ "block" \in Elements \cup {"block"} /\ Len(o) \in Nat
  BY DEF Place
<1>1. /\ Len(Field(o, f)) = Len(o) + 1 /\ Field(o, f)[Len(o) + 1] = <<f, 0, "block">>
      /\ SubSeq(Field(o, f), 1, Len(o)) = o /\ Field(o, f) \in Place
  BY <1>0, Lengthen DEF Field
<1>2. Len(Field(o, f)) - 1 = Len(o)
  BY <1>1
<1> QED  BY <1>1, <1>2 DEF FieldOf

\* Counts that stay.
LEMMA CountsStay ==
    ASSUME ArraysCounted, Grows, UNCHANGED count, oom => oom'
    PROVE  ArraysCounted'
<1>1. SUFFICES ASSUME NEW p \in DOMAIN count
      PROVE /\ ArrayPlace(p)'
            /\ count[p] \in 0..MaxElements
            /\ count[p] > 0 =>
             p \in Blocks' \/ (oom' /\ FieldOf(p) \in {"attributes", "mappings"})
  BY DEF ArraysCounted
<1>2. ArrayPlace(p) => ArrayPlace(p)'
  BY GoodStays DEF ArrayPlace
<1> QED  BY <1>2 DEF ArraysCounted, Grows

\* A count that is set.
LEMMA CountIsSet ==
    ASSUME ArraysCounted, Grows, oom => oom',
           NEW o \in Place, NEW f \in Fields, Good(o)',
           f \in DOMAIN Frees[TypeOf(o)], Frees[TypeOf(o)][f].kind = "array",
           NEW n \in 0..MaxElements, SetCount(Field(o, f), n),
           n > 0 => \/ Field(o, f) \in Blocks'
                    \/ oom' /\ f \in {"attributes", "mappings"}
    PROVE  ArraysCounted'
<1> DEFINE q == Field(o, f)
<1>0. FieldOf(q) = f
  BY FieldHas
<1>1. /\ DOMAIN count' = DOMAIN count \cup {q} /\ count'[q] = n
      /\ \A p \in DOMAIN count : p # q => count'[p] = count[p]
  BY DEF SetCount
<1>2. ArrayPlace(q)'
  BY DEF ArrayPlace
<1> HIDE DEF q
<1>3. SUFFICES ASSUME NEW p \in DOMAIN count'
      PROVE /\ ArrayPlace(p)'
            /\ count'[p] \in 0..MaxElements
            /\ count'[p] > 0 =>
             p \in Blocks' \/ (oom' /\ FieldOf(p) \in {"attributes", "mappings"})
  BY DEF ArraysCounted
<1>4. CASE p = q
  BY <1>0, <1>1, <1>2, <1>4 DEF q
<1>5. CASE p # q
  <2>1. p \in DOMAIN count /\ count'[p] = count[p]
    BY <1>1, <1>5
  <2>2. ArrayPlace(p) => ArrayPlace(p)'
    BY GoodStays DEF ArrayPlace
  <2> QED  BY <2>1, <2>2 DEF ArraysCounted, Grows
<1> QED  BY <1>4, <1>5

\* Frames whose arrays keep their counts.
LEMMA BoundsStay ==
    ASSUME IInv, LoopsBounded, \A r \in Blocks : CountOf(r)' = CountOf(r),
           \A fr \in Frame : OnStack(fr)' => OnStack(fr) \/ Bounded(fr)'
    PROVE  LoopsBounded'
<1>1. SUFFICES ASSUME NEW fr \in Frame, OnStack(fr) PROVE Bounded(fr)'
  BY DEF LoopsBounded
<1>2. Bounded(fr) /\ FrameOK(fr)
  BY <1>1 DEF LoopsBounded, IInv, StackInv
<1> QED  BY <1>2 DEF Bounded, FrameOK

\* What a frame that leaves the stack must leave behind.
LeavesNothing(fr) ==
    /\ fr.kind = "object" /\ fr.type \in MustHave =>
         \A g \in DOMAIN Parses[fr.type] : Field(fr.at, g) \in Blocks
    /\ fr.kind = "array" =>
         \A k \in Nat : fr.next <= k /\ Elemental(fr.at, fr.field, k)
                        => Accounted(fr.at, fr.field, k)

LEMMA AccountsStay ==
    ASSUME ElementsAccounted, Grows,
           \A o \in Place, f \in Fields, k \in Nat :
              Elemental(o, f, k)' /\ ElementType(o, f) \in MustHave
              => Elemental(o, f, k) \/ Accounted(o, f, k)',
           \A fr \in Frame : OnStack(fr) => OnStack(fr)' \/ LeavesNothing(fr)'
    PROVE  ElementsAccounted'
<1>1. SUFFICES ASSUME NEW o \in Place, NEW f \in Fields, NEW k \in Nat,
                      Elemental(o, f, k), Elemental(o, f, k)',
                      ElementType(o, f) \in MustHave
               PROVE  Accounted(o, f, k)'
  BY DEF ElementsAccounted, ElementType
<1> DEFINE t == ElementType(o, f)
           fr == Object(Element(o, f, k, t), t)
<1>2. Accounted(o, f, k)
  BY <1>1 DEF ElementsAccounted
<1>3. CASE Filled(o, f, k)
  BY <1>3 DEF Accounted, Filled, Grows
<1>4. CASE BeingFilled(o, f, k)
  <2>1. t \in Elements
    BY <1>1, Domains DEF MustHave, Fixed
  <2>2. t \in DOMAIN Parses /\ Element(o, f, k, t) \in Place
    BY <2>1, Hosts, Lengthen DEF Element
  <2>3. fr \in Frame /\ fr.kind = "object" /\ fr.type = t /\ fr.at = Element(o, f, k, t)
    BY <2>2 DEF Frame, Object
  <2>4. OnStack(fr)
    BY <1>4 DEF BeingFilled
  <2>5. CASE OnStack(fr)'
    BY <2>5 DEF Accounted, BeingFilled
  <2>6. CASE LeavesNothing(fr)'
    <3> HIDE DEF fr
    <3> QED  BY <1>1, <2>3, <2>6 DEF Accounted, Filled, LeavesNothing
  <2> HIDE DEF fr
  <2> QED  BY <2>3, <2>4, <2>5, <2>6
<1>5. CASE Waiting(o, f, k)
  <2>1. PICK g \in Frame : /\ OnStack(g) /\ g.kind = "array"
                           /\ g.at = o /\ g.field = f /\ g.next <= k
    BY <1>5 DEF Waiting
  <2>2. CASE OnStack(g)'
    BY <2>1, <2>2 DEF Accounted, Waiting
  <2>3. CASE LeavesNothing(g)'
    BY <1>1, <2>1, <2>3 DEF LeavesNothing
  <2> QED  BY <2>1, <2>2, <2>3
<1> QED  BY <1>2, <1>3, <1>4, <1>5 DEF Accounted

-----------------------------------------------------------------------------
\* What lies below the top of the stack.
LEMMA StackBelow ==
    ASSUME stack \in Seq(Frame), stack # <<>>
    PROVE  /\ Len(stack) \in Nat \ {0} /\ Len(Rest) = Len(stack) - 1
           /\ \A i \in 1..(Len(stack) - 1) : Rest[i] = stack[i]
<1>1. Len(stack) \in Nat \ {0}
  BY EmptySeq
<1>2. \A i \in 1..(Len(stack) - 1) : stack[i] \in Frame
  BY <1>1, ElementOfSeq
<1>3. Len(stack) - 1 \in Int /\ 1 \in Int
  BY <1>1
<1>4. /\ Len(Rest) = (IF 1 <= Len(stack) - 1 THEN (Len(stack) - 1) - 1 + 1 ELSE 0)
      /\ \A i \in 1..((Len(stack) - 1) - 1 + 1) : Rest[i] = stack[1 + i - 1]
  BY <1>2, <1>3, SubSeqProperties DEF Rest
<1>5. Len(Rest) = Len(stack) - 1
  <2>1. PICK n \in Nat \ {0} : n = Len(stack)
    BY <1>1
  <2>2. (IF 1 <= n - 1 THEN (n - 1) - 1 + 1 ELSE 0) = n - 1
    BY <2>1
  <2> QED  BY <1>4, <2>1, <2>2, Zenon
<1>6. ASSUME NEW i \in 1..(Len(stack) - 1) PROVE Rest[i] = stack[i]
  <2>1. i \in 1..((Len(stack) - 1) - 1 + 1) /\ 1 + i - 1 = i
    BY <1>1
  <2> QED  BY <1>4, <2>1
<1> QED  BY <1>1, <1>5, <1>6

\* A call.
LEMMA Called ==
    ASSUME IInv, LoopsApart, NEW fr \in Frame, Call(fr),
           fr.kind # "object" => Field(fr.at, fr.field) \notin Blocks
    PROVE  /\ LoopsApart'
           /\ OnStack(fr)'
           /\ \A g : OnStack(g)' => OnStack(g) \/ g = fr
           /\ \A g : OnStack(g) => OnStack(g)'
<1>1. stack \in Seq(Frame) /\ Len(stack) \in Nat /\ stack' = Append(stack, fr)
  BY LenProperties DEF IInv, StackInv, Call
<1>2. /\ Len(stack') = Len(stack) + 1
      /\ \A i \in 1..Len(stack) : stack'[i] = stack[i]
      /\ stack'[Len(stack) + 1] = fr
  BY <1>1, AppendProperties
<1>3. \A g : OnStack(g) => OnStack(g)'
  BY <1>1, <1>2 DEF OnStack
<1>4. OnStack(fr)'
  BY <1>1, <1>2 DEF OnStack
<1>5. ASSUME NEW i \in 1..Len(stack), stack[i].kind # "object"
      PROVE  Field(stack[i].at, stack[i].field) \in Blocks
  <2>1. stack[i] \in Frame
    BY <1>1, ElementOfSeq
  <2>2. PICK g \in Frame : g = stack[i]
    BY <2>1
  <2>3. OnStack(g)
    BY <2>2 DEF OnStack
  <2>4. g.kind \in {"array", "entries"}
    BY <1>5, <2>2 DEF Frame
  <2> QED  BY <2>2, <2>3, <2>4 DEF IInv, StackInv, FrameOK
<1>6. LoopsApart'
  BY <1>1, <1>2, <1>5 DEF LoopsApart
<1>7. \A g : OnStack(g)' => OnStack(g) \/ g = fr
  BY <1>1, StackCall
<1> QED  BY <1>3, <1>4, <1>6, <1>7

\* A loop's step.
LEMMA Stepped ==
    ASSUME IInv, stack # <<>>, LoopsApart,
           NEW top \in Frame, top = Top, NEW down \in Frame, NEW fr \in Frame,
           Steps(down, fr), fr.kind = "object",
           down.kind = top.kind, down.at = top.at, down.field = top.field
    PROVE  /\ LoopsApart'
           /\ OnStack(fr)' /\ OnStack(down)'
           /\ \A g : OnStack(g)' =>
                \/ \E i \in 1..(Len(stack) - 1) : stack[i] = g
                \/ g = fr \/ g = down
           /\ \A g : OnStack(g)' => OnStack(g) \/ g = fr \/ g = down
           /\ \A g : OnStack(g) => OnStack(g)' \/ g = top
<1>1. stack \in Seq(Frame) /\ stack' = Append(Append(Rest, down), fr)
  BY DEF IInv, StackInv, Steps
<1>2. /\ Len(stack) \in Nat \ {0} /\ Len(Rest) = Len(stack) - 1
      /\ \A i \in 1..(Len(stack) - 1) : Rest[i] = stack[i]
      /\ Rest \in Seq(Frame)
  BY <1>1, StackBelow, StackTop
<1> DEFINE mid == Append(Rest, down)
<1>3. /\ mid \in Seq(Frame) /\ Len(mid) = Len(Rest) + 1
      /\ \A i \in 1..Len(Rest) : mid[i] = Rest[i]
      /\ mid[Len(Rest) + 1] = down
      /\ stack' = Append(mid, fr)
  BY <1>1, <1>2, AppendProperties
<1> HIDE DEF mid
<1>4. /\ Len(stack') = Len(mid) + 1
      /\ \A i \in 1..Len(mid) : stack'[i] = mid[i]
      /\ stack'[Len(mid) + 1] = fr
  BY <1>3, AppendProperties
<1>5. /\ Len(stack') = Len(stack) + 1
      /\ \A i \in 1..(Len(stack) - 1) : stack'[i] = stack[i]
      /\ stack'[Len(stack)] = down /\ stack'[Len(stack) + 1] = fr
  BY <1>2, <1>3, <1>4
<1>6. OnStack(fr)' /\ OnStack(down)'
  BY <1>2, <1>5 DEF OnStack
<1>7. \A g : OnStack(g) => OnStack(g)' \/ g = top
  BY <1>2, <1>5 DEF OnStack, Top
<1>8. LoopsApart'
  <2>1. stack[Len(stack)] = top
    BY DEF Top
  <2>2. \A i \in 1..Len(stack) :
          /\ stack'[i].kind = stack[i].kind /\ stack'[i].at = stack[i].at
          /\ stack'[i].field = stack[i].field
    <3>1. SUFFICES ASSUME NEW i \in 1..Len(stack)
                   PROVE  /\ stack'[i].kind = stack[i].kind /\ stack'[i].at = stack[i].at
                          /\ stack'[i].field = stack[i].field
      OBVIOUS
    <3>2. CASE i = Len(stack)
      BY <1>5, <2>1, <3>2
    <3>3. CASE i # Len(stack)
      <4>1. i \in 1..(Len(stack) - 1)
        BY <1>2, <3>3
      <4> QED  BY <1>5, <4>1
    <3> QED  BY <3>2, <3>3
  <2>3. SUFFICES ASSUME NEW i \in 1..Len(stack'), NEW j \in 1..Len(stack'),
                        i # j, stack'[i].kind # "object", stack'[j].kind # "object"
                 PROVE  Field(stack'[i].at, stack'[i].field)
                          # Field(stack'[j].at, stack'[j].field)
    BY DEF LoopsApart
  <2>4. i \in 1..Len(stack) /\ j \in 1..Len(stack)
    <3>1. stack'[Len(stack) + 1].kind = "object"
      BY <1>5
    <3>2. i # Len(stack) + 1 /\ j # Len(stack) + 1
      BY <2>3, <3>1
    <3> QED  BY <1>2, <1>5, <3>2
  <2> QED  BY <2>2, <2>3, <2>4 DEF LoopsApart
<1>9. \A g : OnStack(g)' =>
        \/ \E i \in 1..(Len(stack) - 1) : stack[i] = g
        \/ g = fr \/ g = down
  <2>1. \A i \in 1..(Len(stack) + 1) :
          i \in 1..(Len(stack) - 1) \/ i = Len(stack) \/ i = Len(stack) + 1
    BY <1>2
  <2> QED  BY <1>5, <2>1 DEF OnStack
<1>10. \A g : OnStack(g)' => OnStack(g) \/ g = fr \/ g = down
  BY <1>1, StackSteps
<1> QED  BY <1>6, <1>7, <1>8, <1>9, <1>10

\* A return.
LEMMA Returned ==
    ASSUME IInv, stack # <<>>, LoopsApart, stack' = Rest
    PROVE  /\ LoopsApart'
           /\ \A g : OnStack(g)' => OnStack(g)
           /\ \A g : OnStack(g) => OnStack(g)' \/ g = Top
<1>1. /\ Len(stack) \in Nat \ {0} /\ Len(Rest) = Len(stack) - 1
      /\ \A i \in 1..(Len(stack) - 1) : Rest[i] = stack[i]
  BY StackBelow DEF IInv, StackInv
<1>2. LoopsApart'
  BY <1>1 DEF LoopsApart
<1>3. \A g : OnStack(g)' => OnStack(g)
  BY <1>1 DEF OnStack
<1>4. \A g : OnStack(g) => OnStack(g)' \/ g = Top
  BY <1>1 DEF OnStack, Top
<1> QED  BY <1>2, <1>3, <1>4

\* The parse goes on.
LEMMA GoesOn ==
    ASSUME CInv, pc = "parsing", pc' \in {"parsing", "fixup"}, UNCHANGED result,
           oom' \in BOOLEAN, DOMAIN count \subseteq DOMAIN count',
           oom' => oom \/ \E p \in DOMAIN count' : FieldOf(p) = "mappings",
           ArraysCounted', LoopsBounded', LoopsApart', ElementsAccounted'
    PROVE  CInv'
<1>1. Ongoing
  BY DEF Ongoing
<1>2. Types'
  BY DEF CInv, Types, Pcs
<1>3. Noticed'
  BY <1>1 DEF CInv, Noticed
<1>4. EndInv'
  BY DEF EndInv
<1> QED  BY <1>2, <1>3, <1>4 DEF CInv

\* The parse is given up.
LEMMA GivesUpCounted ==
    ASSUME CInv, NEW r \in Results, Fails(r), oom' \in BOOLEAN, ArraysCounted'
    PROVE  CInv'
<1>1. Types' /\ ~Ongoing' /\ EndInv'
  BY DEF Types, Pcs, Ongoing, EndInv, Fails
<1>2. \A fr : ~OnStack(fr)'
  BY DEF Fails, OnStack
<1>3. LoopsBounded' /\ LoopsApart'
  BY <1>2 DEF Fails, LoopsBounded, LoopsApart
<1> QED  BY <1>1, <1>3 DEF CInv, Noticed

-----------------------------------------------------------------------------
\* Steps that neither store nor count.
LEMMA NothingCounted ==
    ASSUME IInv, UNCHANGED <<heap, count>>, flags \subseteq flags'
    PROVE  /\ Grows /\ Blocks' = Blocks /\ \A r : CountOf(r)' = CountOf(r)
           /\ \A o \in Place, f \in Fields, k \in Nat :
                Elemental(o, f, k)' => Elemental(o, f, k)
<1>1. Blocks' = Blocks /\ \A r : CountOf(r)' = CountOf(r)
  BY DEF Blocks, CountOf
<1>2. \A r : CountOf(r) \in Nat
  BY DEF IInv, CountInv, CountOf
<1> QED  BY <1>1, <1>2 DEF Grows, Elemental

\* A block where there was none, and counts that stay or are set for it.
LEMMA OneStored ==
    ASSUME IInv, NEW q \in Place, q \notin heap, q # TokensPlace, Stores(q),
           flags \subseteq flags', NEW n \in Nat, UNCHANGED count \/ SetCount(q, n)
    PROVE  /\ Grows /\ Blocks' = Blocks \cup {q} /\ q \notin Blocks
           /\ \A r : r # q => CountOf(r)' = CountOf(r)
           /\ SetCount(q, n) => CountOf(q)' = n
           /\ UNCHANGED count => CountOf(q)' = CountOf(q)
<1>1. heap' = heap \cup {q}
  BY DEF Stores
<1>2. Blocks' = Blocks \cup {q} /\ q \notin Blocks
  BY <1>1 DEF Blocks
<1>3. \A r : CountOf(r) \in Nat
  BY DEF IInv, CountInv, CountOf
<1>4. SetCount(q, n) => CountOf(q)' = n /\ \A r : r # q => CountOf(r)' = CountOf(r)
  BY DEF SetCount, CountOf
<1>5. UNCHANGED count => \A r : CountOf(r)' = CountOf(r)
  BY DEF CountOf
<1>6. \A r : CountOf(r)' \in Nat
  BY <1>3, <1>4, <1>5
<1> QED  BY <1>2, <1>3, <1>4, <1>5, <1>6 DEF Grows

\* A string, an extras text or an array of numbers.
LEMMA StringCounted ==
    ASSUME IInv, CInv, pc = "parsing",
           NEW top \in Frame, top.kind = "object", OnStack(top), FrameOK(top),
           NEW f \in DOMAIN Parses[top.type], Parses[top.type][f].kind = "block",
           ParseString(top.at, f, top.type)
    PROVE  CInv'
<1> DEFINE q == Field(top.at, f)
<1>1. UNCHANGED <<count, flags>>
  BY DEF ParseString
<1>2. ASSUME UNCHANGED heap, NEW r \in Results, Fails(r), oom' \in BOOLEAN, oom => oom'
      PROVE  CInv'
  <2>1. Grows
    BY <1>1, <1>2, NothingCounted
  <2>2. ArraysCounted'
    BY <1>1, <1>2, <2>1, CountsStay DEF CInv
  <2> QED  BY <1>2, <2>2, GivesUpCounted
<1>3. CASE q \in heap /\ Fails("invalid_gltf") /\ UNCHANGED <<heap, lost, oom>>
  BY <1>2, <1>3 DEF CInv, Types, Results
<1>4. CASE NoMemory(IF top.type = "attribute" THEN "invalid_gltf" ELSE "out_of_memory")
  BY <1>2, <1>4 DEF NoMemory, Results
<1>5. CASE q \notin heap /\ Stores(q) /\ UNCHANGED <<stack, pc, result, oom>>
  <2>1. /\ q \in Place /\ q # TokensPlace
        /\ top.at \in Place /\ f \in Fields
        /\ Frees[TypeOf(top.at)][f].kind = "block"
    BY KeyFits DEF Fits, Released
  <2>2. 0 \in Nat
    OBVIOUS
  <2>3. /\ Grows /\ Blocks' = Blocks \cup {q}
        /\ \A r : CountOf(r)' = CountOf(r)
    BY <1>1, <1>5, <2>1, <2>2, OneStored
  <2>4. CountOf(q) = 0
    <3>1. SUFFICES ASSUME q \in DOMAIN count PROVE FALSE
      BY DEF CountOf
    <3>2. PICK o \in Place, g \in Fields :
            q = Field(o, g) /\ Frees[TypeOf(o)][g].kind = "array"
      BY <3>1 DEF CInv, ArraysCounted, ArrayPlace
    <3>3. o = top.at /\ g = f
      BY <2>1, <3>2, FieldsApart
    <3> QED  BY <2>1, <3>2, <3>3
  <2>5. \A o \in Place, g \in Fields, k \in Nat :
          Elemental(o, g, k)' => Elemental(o, g, k)
    BY <2>3, <2>4 DEF Elemental
  <2>6. \A fr : OnStack(fr)' <=> OnStack(fr)
    BY <1>5 DEF OnStack
  <2>7. ElementsAccounted'
    BY <2>3, <2>5, <2>6, AccountsStay DEF CInv, Ongoing
  <2>8. LoopsBounded'
    BY <2>3, <2>6, BoundsStay DEF CInv
  <2>9. LoopsApart'
    BY <1>5 DEF CInv, LoopsApart
  <2>10. ArraysCounted'
    BY <1>1, <1>5, <2>3, CountsStay DEF CInv
  <2> QED
    BY <1>1, <1>5, <2>7, <2>8, <2>9, <2>10, GoesOn DEF CInv, Types
<1> QED  BY <1>3, <1>4, <1>5 DEF ParseString

\* An array begins.
LEMMA ArrayBeginsCounted ==
    ASSUME IInv, CInv, pc = "parsing",
           NEW top \in Frame, top.kind = "object", OnStack(top), FrameOK(top),
           NEW f \in DOMAIN Parses[top.type],
           Parses[top.type][f].kind \in {"array", "attributes", "extensions", "mappings"},
           Field(top.at, f) \notin heap, Stores(Field(top.at, f)),
           NEW n \in 0..MaxElements, SetCount(Field(top.at, f), n),
           UNCHANGED <<flags, pc, result, oom>>,
           NEW m \in 0..MaxElements, NEW fr,
           \/ fr = Loop(top.at, f, Parses[top.type][f].of, m) /\ n = m
           \/ fr = Entries(top.at, f, top.type, m) /\ n = 0,
           Call(fr)
    PROVE  CInv'
<1> DEFINE q == Field(top.at, f)
           t == Parses[top.type][f].of
<1>1. /\ q \in Place /\ q # TokensPlace
      /\ top.at \in Place /\ f \in Fields /\ top.type \in DOMAIN Parses
      /\ f \in DOMAIN Frees[TypeOf(top.at)]
      /\ Fits(Parses[top.type][f], Frees[TypeOf(top.at)][f])
  BY KeyFits
<1>2. Frees[TypeOf(top.at)][f] = ArrayOf(t) /\ t \in Elements
  <2>1. CASE Parses[top.type][f].kind = "array"
    BY <1>1, <2>1 DEF Fits, Released
  <2>2. CASE Parses[top.type][f].kind # "array"
    BY <1>1, <2>2 DEF Fits, Released
  <2> QED  BY <2>1, <2>2
<1>3. n \in Nat /\ m \in Nat /\ MaxElements \in Nat
  BY BoundsAssumption
<1>4. /\ Grows /\ Blocks' = Blocks \cup {q} /\ q \notin Blocks
      /\ CountOf(q)' = n /\ \A r : r # q => CountOf(r)' = CountOf(r)
  BY <1>1, <1>3, OneStored
<1>5. fr \in Frame
  <2>1. t \in DOMAIN Parses
    BY <1>2, Hosts
  <2>2. fr = Loop(top.at, f, t, m) => fr \in Frame
    BY <1>1, <1>3, <2>1, Frames
  <2>3. fr = Entries(top.at, f, top.type, m) => fr \in Frame
    BY <1>1, <1>3, Frames
  <2> QED  BY <2>2, <2>3
<1>6. /\ fr.at = top.at /\ fr.field = f /\ fr.size = m
      /\ \/ fr.kind = "array" /\ fr.next = 1 /\ n = m
         \/ fr.kind = "entries" /\ fr.next = m /\ n = 0
  BY DEF Loop, Entries
<1>7. /\ LoopsApart' /\ OnStack(fr)'
      /\ \A g : OnStack(g)' => OnStack(g) \/ g = fr
      /\ \A g : OnStack(g) => OnStack(g)'
  BY <1>4, <1>5, <1>6, Called DEF CInv
<1>8. Bounded(fr)'
  BY <1>3, <1>4, <1>6 DEF Bounded
<1>9. LoopsBounded'
  BY <1>4, <1>7, <1>8, BoundsStay DEF CInv
<1>10. Good(top.at)'
  BY <1>4, GoodStays DEF FrameOK
<1>11. ArraysCounted'
  BY <1>1, <1>2, <1>4, <1>10, CountIsSet DEF CInv, ArrayOf
<1>12. \A o \in Place, g \in Fields, k \in Nat :
          Elemental(o, g, k)' => Elemental(o, g, k) \/ Accounted(o, g, k)'
  <2>1. SUFFICES ASSUME NEW o \in Place, NEW g \in Fields, NEW k \in Nat, Elemental(o, g, k)'
                 PROVE  Elemental(o, g, k) \/ Accounted(o, g, k)'
    OBVIOUS
  <2>2. CASE Field(o, g) # q
    BY <1>4, <2>1, <2>2 DEF Elemental
  <2>3. CASE Field(o, g) = q
    <3>1. o = top.at /\ g = f
      BY <1>1, <2>3, FieldsApart
    <3>2. k \in 1..n
      BY <1>4, <2>1, <2>3 DEF Elemental
    <3>3. fr.kind = "array" /\ fr.next <= k
      BY <1>3, <1>6, <3>2
    <3> QED  BY <1>5, <1>6, <1>7, <3>1, <3>3 DEF Accounted, Waiting
  <2> QED  BY <2>2, <2>3
<1>13. ElementsAccounted'
  BY <1>4, <1>7, <1>12, AccountsStay DEF CInv, Ongoing
<1>14. DOMAIN count \subseteq DOMAIN count'
  BY DEF SetCount
<1> QED
  BY <1>7, <1>9, <1>11, <1>13, <1>14, GoesOn DEF CInv, Types

\* A key of an array, of any of the four kinds.
LEMMA ArrayFits ==
    ASSUME NEW top \in Frame, top.kind = "object", FrameOK(top),
           NEW f \in DOMAIN Parses[top.type],
           Parses[top.type][f].kind \in {"array", "attributes", "extensions", "mappings"}
    PROVE  /\ top.at \in Place /\ top.type \in DOMAIN Parses /\ f \in Fields
           /\ f \in DOMAIN Frees[TypeOf(top.at)]
           /\ Frees[TypeOf(top.at)][f].kind = "array"
<1>1. /\ top.at \in Place /\ top.type \in DOMAIN Parses /\ f \in Fields
      /\ f \in DOMAIN Frees[TypeOf(top.at)]
      /\ Fits(Parses[top.type][f], Frees[TypeOf(top.at)][f])
  BY KeyFits
<1>2. CASE Parses[top.type][f].kind = "array"
  BY <1>1, <1>2 DEF Fits, Released
<1>3. CASE Parses[top.type][f].kind # "array"
  <2>1. Frees[TypeOf(top.at)][f] = ArrayOf(Parses[top.type][f].of)
    BY <1>1, <1>3 DEF Fits, Released
  <2> QED  BY <1>1, <2>1 DEF ArrayOf
<1> QED  BY <1>2, <1>3

\* The parse is given up after an array's count may have been set.
LEMMA ArrayFailsCounted ==
    ASSUME IInv, CInv,
           NEW top \in Frame, top.kind = "object", FrameOK(top),
           NEW f \in DOMAIN Parses[top.type],
           Parses[top.type][f].kind \in {"array", "attributes", "extensions", "mappings"},
           NEW r \in Results, Fails(r), UNCHANGED <<heap, lost, flags>>,
           \/ UNCHANGED <<count, oom>>
           \/ oom' = TRUE /\ UNCHANGED count
           \/ /\ oom' = TRUE /\ Field(top.at, f) \notin heap
              /\ \E n \in 0..MaxElements :
                   /\ SetCount(Field(top.at, f), n)
                   /\ n > 0 => Parses[top.type][f].kind = "attributes"
    PROVE  CInv'
<1> DEFINE q == Field(top.at, f)
<1>1. oom' \in BOOLEAN /\ (oom => oom')
  BY DEF CInv, Types
<1>2. CASE UNCHANGED count
  <2>1. Grows
    BY <1>2, NothingCounted
  <2>2. ArraysCounted'
    BY <1>1, <1>2, <2>1, CountsStay DEF CInv
  <2> QED  BY <1>1, <2>2, GivesUpCounted
<1>3. ASSUME oom' = TRUE, q \notin heap, NEW n \in 0..MaxElements, SetCount(q, n),
             n > 0 => Parses[top.type][f].kind = "attributes"
      PROVE  CInv'
  <2>1. n \in Nat
    BY BoundsAssumption
  <2>2. Blocks' = Blocks /\ q \notin Blocks
    BY <1>3 DEF Blocks
  <2>3. CountsGrow
    BY <1>3, <2>1, <2>2, Counted DEF IInv
  <2>4. Grows
    BY <2>2, <2>3 DEF Grows, CountsGrow
  <2>5. /\ top.at \in Place /\ top.type \in DOMAIN Parses /\ f \in Fields
        /\ f \in DOMAIN Frees[TypeOf(top.at)]
        /\ Frees[TypeOf(top.at)][f].kind = "array"
    BY ArrayFits
  <2>6. Parses[top.type][f].kind = "attributes" => f = "attributes"
    BY <2>5, Tables DEF TablesFit
  <2>7. Good(top.at)'
    BY <2>4, GoodStays DEF FrameOK
  <2>8. n > 0 => oom' /\ f \in {"attributes", "mappings"}
    BY <1>3, <2>6
  <2>9. ArraysCounted'
    BY <1>1, <1>3, <2>4, <2>5, <2>7, <2>8, CountIsSet DEF CInv
  <2> QED  BY <1>1, <2>9, GivesUpCounted
<1> QED  BY <1>2, <1>3

\* The array of variant mappings is not there, and nobody looks.
LEMMA PassedOverCounted ==
    ASSUME IInv, CInv, pc = "parsing",
           NEW top \in Frame, top.kind = "object", FrameOK(top),
           NEW f \in DOMAIN Parses[top.type], Parses[top.type][f].kind = "mappings",
           Field(top.at, f) \notin heap,
           NEW n \in 0..MaxElements, SetCount(Field(top.at, f), n),
           oom' = TRUE, UNCHANGED <<heap, lost, flags, stack, pc, result>>
    PROVE  CInv'
<1> DEFINE q == Field(top.at, f)
<1>1. n \in Nat
  BY BoundsAssumption
<1>2. Blocks' = Blocks /\ q \notin Blocks
  BY DEF Blocks
<1>3. Grows
  <2>1. CountsGrow
    BY <1>1, <1>2, Counted DEF IInv
  <2> QED  BY <1>2, <2>1 DEF Grows, CountsGrow
<1>4. \A r \in Blocks : CountOf(r)' = CountOf(r)
  BY <1>2 DEF SetCount, CountOf
<1>5. /\ top.at \in Place /\ top.type \in DOMAIN Parses /\ f \in Fields
      /\ f \in DOMAIN Frees[TypeOf(top.at)]
      /\ Frees[TypeOf(top.at)][f].kind = "array"
  BY ArrayFits
<1>6. f = "mappings"
  BY <1>5, Tables DEF TablesFit
<1>7. Good(top.at)'
  BY <1>3, GoodStays DEF FrameOK
<1>8. ArraysCounted'
  BY <1>3, <1>5, <1>6, <1>7, CountIsSet DEF CInv
<1>9. DOMAIN count' = DOMAIN count \cup {q}
  BY DEF SetCount
<1>10. \E p \in DOMAIN count' : FieldOf(p) = "mappings"
  <2>1. FieldOf(q) = "mappings"
    BY <1>5, <1>6, FieldHas
  <2> QED  BY <1>9, <2>1
<1>11. \A fr : OnStack(fr)' <=> OnStack(fr)
  BY DEF OnStack
<1>12. \A o \in Place, g \in Fields, k \in Nat :
          Elemental(o, g, k)' => Elemental(o, g, k)
  BY <1>2, <1>4 DEF Elemental
<1>13. ElementsAccounted'
  BY <1>3, <1>11, <1>12, AccountsStay DEF CInv, Ongoing
<1>14. LoopsBounded'
  BY <1>4, <1>11, BoundsStay DEF CInv
<1>15. LoopsApart'
  BY DEF CInv, LoopsApart
<1> QED  BY <1>8, <1>9, <1>10, <1>13, <1>14, <1>15, GoesOn

\* The four kinds of array.
LEMMA ArrayCounted ==
    ASSUME IInv, CInv, pc = "parsing",
           NEW top \in Frame, top.kind = "object", OnStack(top), FrameOK(top),
           NEW f \in DOMAIN Parses[top.type], NEW n \in 0..MaxElements,
           LET shape == Parses[top.type][f] IN
           \/ shape.kind = "array" /\ ParseArray(top.at, f, shape.of, n)
           \/ shape.kind = "attributes" /\ ParseAttributeList(top.at, f, n)
           \/ shape.kind = "extensions" /\ ParseExtensions(top.at, f, top.type, n)
           \/ shape.kind = "mappings" /\ ParseMaterialMappings(top.at, f, n)
    PROVE  CInv'
<1> DEFINE shape == Parses[top.type][f]
           q == Field(top.at, f)
<1>1. Fits(shape, Frees[TypeOf(top.at)][f])
  BY KeyFits
<1>2. /\ shape.kind = "attributes" => shape.of = "attribute"
      /\ shape.kind = "mappings" => shape.of = "mapping"
  BY <1>1 DEF Fits
<1>3. 0 \in 0..MaxElements /\ ~(0 > 0)
  BY BoundsAssumption
<1>4. {"invalid_gltf", "legacy_gltf", "out_of_memory"} \subseteq Results
  BY DEF Results
<1> HIDE DEF shape, q
<1>5. CASE shape.kind = "array" /\ ParseArray(top.at, f, shape.of, n)
  <2>1. CASE /\ q \notin heap /\ Stores(q) /\ SetCount(q, n)
             /\ UNCHANGED <<flags, pc, result, oom>>
             /\ Call(Loop(top.at, f, shape.of, n))
    BY <1>3, <1>5, <2>1, ArrayBeginsCounted DEF shape, q
  <2>2. ASSUME UNCHANGED <<heap, lost, flags, count>>, UNCHANGED oom \/ oom' = TRUE,
               NEW r \in Results, Fails(r)
        PROVE  CInv'
    BY <1>5, <2>2, ArrayFailsCounted DEF shape, q
  <2> QED  BY <1>4, <1>5, <2>1, <2>2 DEF ParseArray, NoMemory, q
<1>6. CASE shape.kind = "attributes" /\ ParseAttributeList(top.at, f, n)
  <2>1. CASE /\ q \notin heap /\ Stores(q) /\ SetCount(q, n)
             /\ UNCHANGED <<flags, pc, result, oom>>
             /\ Call(Loop(top.at, f, "attribute", n))
    BY <1>2, <1>3, <1>6, <2>1, ArrayBeginsCounted DEF shape, q
  <2>2. ASSUME UNCHANGED <<heap, lost, flags>>, NEW r \in Results, Fails(r),
               \/ UNCHANGED <<count, oom>>
               \/ oom' = TRUE /\ q \notin heap /\ SetCount(q, n)
        PROVE  CInv'
    BY <1>6, <2>2, ArrayFailsCounted DEF shape, q
  <2> QED  BY <1>4, <1>6, <2>1, <2>2 DEF ParseAttributeList, NoMemory, q
<1>7. CASE shape.kind = "extensions" /\ ParseExtensions(top.at, f, top.type, n)
  <2>1. CASE /\ q \notin heap /\ Stores(q) /\ SetCount(q, 0)
             /\ UNCHANGED <<flags, pc, result, oom>>
             /\ Call(Entries(top.at, f, top.type, n))
    BY <1>3, <1>7, <2>1, ArrayBeginsCounted DEF shape, q
  <2>2. ASSUME UNCHANGED <<heap, lost, flags>>, NEW r \in Results, Fails(r),
               \/ UNCHANGED <<count, oom>>
               \/ oom' = TRUE /\ q \notin heap /\ SetCount(q, 0)
        PROVE  CInv'
    <3>1. SetCount(q, 0) => \E m \in 0..MaxElements :
                              SetCount(q, m) /\ (m > 0 => shape.kind = "attributes")
      BY <1>3
    <3> QED  BY <1>7, <2>2, <3>1, ArrayFailsCounted DEF shape, q
  <2> QED  BY <1>4, <1>7, <2>1, <2>2 DEF ParseExtensions, NoMemory, q
<1>8. CASE shape.kind = "mappings" /\ ParseMaterialMappings(top.at, f, n)
  <2>1. CASE Stores(q) /\ Call(Loop(top.at, f, "mapping", n)) /\ UNCHANGED oom
    BY <1>2, <1>3, <1>8, <2>1, ArrayBeginsCounted DEF ParseMaterialMappings, shape, q
  <2>2. CASE oom' = TRUE /\ UNCHANGED <<heap, lost, stack>>
    BY <1>8, <2>2, PassedOverCounted DEF ParseMaterialMappings, shape, q
  <2> QED  BY <1>8, <2>1, <2>2 DEF ParseMaterialMappings, q
<1> QED  BY <1>5, <1>6, <1>7, <1>8 DEF shape

\* A call into a struct inside its parent.
LEMMA StructCounted ==
    ASSUME IInv, CInv, pc = "parsing", UNCHANGED <<heap, count, pc, result, oom>>,
           flags \subseteq flags',
           NEW fr \in Frame, fr.kind = "object", fr.next = 0, fr.size = 0, Call(fr)
    PROVE  CInv'
<1>1. /\ Grows /\ Blocks' = Blocks /\ \A r : CountOf(r)' = CountOf(r)
      /\ \A o \in Place, f \in Fields, k \in Nat :
           Elemental(o, f, k)' => Elemental(o, f, k)
  BY NothingCounted
<1>2. /\ LoopsApart'
      /\ \A g : OnStack(g)' => OnStack(g) \/ g = fr
      /\ \A g : OnStack(g) => OnStack(g)'
  BY Called DEF CInv
<1>3. Bounded(fr)'
  BY BoundsAssumption DEF Bounded
<1>4. LoopsBounded'
  BY <1>1, <1>2, <1>3, BoundsStay DEF CInv
<1>5. ElementsAccounted'
  BY <1>1, <1>2, AccountsStay DEF CInv, Ongoing
<1>6. ArraysCounted'
  BY <1>1, CountsStay DEF CInv
<1> QED  BY <1>2, <1>4, <1>5, <1>6, GoesOn DEF CInv, Types

\* Giving up where nothing is counted.
LEMMA GivingUpCounted ==
    ASSUME IInv, CInv, UNCHANGED <<heap, count, flags, oom>>, NEW r \in Results, Fails(r)
    PROVE  CInv'
<1>1. Grows
  BY NothingCounted
<1>2. ArraysCounted'
  BY <1>1, CountsStay DEF CInv
<1> QED  BY <1>2, GivesUpCounted DEF CInv, Types

\* The next key of an object.
LEMMA KeyCounted == ASSUME IInv, CInv, Key PROVE CInv'
<1>1. pc = "parsing" /\ Top.kind = "object"
  BY DEF Key, At
<1>2. PICK top \in Frame : top = Top /\ OnStack(top) /\ FrameOK(top)
  BY <1>1, TopFrame
<1>3. top.kind = "object"
  BY <1>1, <1>2
<1>4. PICK f \in DOMAIN Parses[top.type] :
        LET shape == Parses[top.type][f] IN
        \/ shape.kind = "block" /\ ParseString(top.at, f, top.type)
        \/ /\ shape.kind = "inside"
           /\ Call(Object(Struct(top.at, f, shape.of), shape.of))
           /\ UNCHANGED <<heap, lost, count, flags, pc, result, oom>>
        \/ /\ shape.kind = "oneof"
           /\ \/ ParseCameraData(top.at, f, shape.of)
              \/ ParseCameraDataAgain(top.at, shape.of)
        \/ shape.kind = "mappings" /\ ParseMaterialMappingsAgain(top.at, f)
        \/ \E n \in 0..MaxElements :
             \/ shape.kind = "array" /\ ParseArray(top.at, f, shape.of, n)
             \/ shape.kind = "attributes" /\ ParseAttributeList(top.at, f, n)
             \/ shape.kind = "extensions" /\ ParseExtensions(top.at, f, top.type, n)
             \/ shape.kind = "mappings" /\ ParseMaterialMappings(top.at, f, n)
  BY <1>2 DEF Key
<1> DEFINE shape == Parses[top.type][f]
           fr == Object(Struct(top.at, f, shape.of), shape.of)
<1>5. shape.kind \in {"inside", "oneof"} =>
        fr \in Frame /\ fr.kind = "object" /\ fr.next = 0 /\ fr.size = 0
  <2>1. SUFFICES ASSUME shape.kind \in {"inside", "oneof"}
                 PROVE  fr \in Frame /\ fr.kind = "object" /\ fr.next = 0 /\ fr.size = 0
    OBVIOUS
  <2>2. /\ top.at \in Place /\ f \in Fields /\ shape.of \in Elements
    BY <1>2, <1>3, <2>1, KeyFits DEF Fits
  <2>3. shape.of \in DOMAIN Parses /\ 0 \in Nat
    BY <2>2, Hosts
  <2>4. Struct(top.at, f, shape.of) \in Place
    BY <2>2, <2>3, Lengthen DEF Struct
  <2> QED  BY <2>3, <2>4 DEF Frame, Object
<1>6. {"invalid_gltf"} \subseteq Results
  BY DEF Results
<1> HIDE DEF shape, fr
<1>7. CASE shape.kind = "block" /\ ParseString(top.at, f, top.type)
  BY <1>1, <1>2, <1>3, <1>7, StringCounted DEF shape
<1>8. CASE /\ shape.kind = "inside"
           /\ Call(Object(Struct(top.at, f, shape.of), shape.of))
           /\ UNCHANGED <<heap, lost, count, flags, pc, result, oom>>
  BY <1>1, <1>5, <1>8, StructCounted DEF fr
<1>9. CASE shape.kind = "oneof" /\ ParseCameraData(top.at, f, shape.of)
  <2>1. UNCHANGED <<heap, lost, count, pc, result, oom>> /\ flags \subseteq flags'
    BY <1>9 DEF ParseCameraData
  <2>2. Call(fr)
    BY <1>9 DEF ParseCameraData, fr
  <2> QED  BY <1>1, <1>5, <1>9, <2>1, <2>2, StructCounted
<1>10. CASE ParseCameraDataAgain(top.at, shape.of)
  BY <1>6, <1>10, GivingUpCounted DEF ParseCameraDataAgain
<1>11. CASE ParseMaterialMappingsAgain(top.at, f)
  BY <1>6, <1>11, GivingUpCounted DEF ParseMaterialMappingsAgain
<1>12. ASSUME NEW n \in 0..MaxElements,
              \/ shape.kind = "array" /\ ParseArray(top.at, f, shape.of, n)
              \/ shape.kind = "attributes" /\ ParseAttributeList(top.at, f, n)
              \/ shape.kind = "extensions" /\ ParseExtensions(top.at, f, top.type, n)
              \/ shape.kind = "mappings" /\ ParseMaterialMappings(top.at, f, n)
       PROVE  CInv'
  BY <1>1, <1>2, <1>3, <1>12, ArrayCounted DEF shape
<1> QED
  BY <1>4, <1>7, <1>8, <1>9, <1>10, <1>11, <1>12 DEF shape

\* The frame of a loop that has taken a turn.
LEMMA TurnTaken ==
    ASSUME NEW top \in Frame, NEW n \in Nat
    PROVE  LET down == [top EXCEPT !.next = n] IN
           /\ down \in Frame /\ down.kind = top.kind /\ down.at = top.at
           /\ down.field = top.field /\ down.next = n /\ down.size = top.size
<1> DEFINE down == [top EXCEPT !.next = n]
<1>1. down \in Frame
  BY DEF Frame
<1>2. /\ down.kind = top.kind /\ down.at = top.at
      /\ down.field = top.field /\ down.next = n /\ down.size = top.size
  BY DEF Frame
<1> QED  BY <1>1, <1>2

\* The loop over the elements of an array.
LEMMA NextElementCounted == ASSUME IInv, CInv, NextElement PROVE CInv'
<1>1. /\ pc = "parsing" /\ Top.kind = "array"
      /\ UNCHANGED <<heap, lost, count, flags, pc, result, oom>>
  BY DEF NextElement, At
<1>2. PICK top \in Frame : top = Top /\ OnStack(top) /\ FrameOK(top)
  BY <1>1, TopFrame
<1> DEFINE down == [top EXCEPT !.next = top.next + 1]
           at == Element(top.at, top.field, top.next, top.type)
           fr == Object(at, top.type)
           q == Field(top.at, top.field)
<1>3. Steps(down, fr) /\ top.next <= CountOf(q)
  BY <1>2 DEF NextElement
<1>4. /\ Grows /\ Blocks' = Blocks /\ \A r : CountOf(r)' = CountOf(r)
      /\ \A o \in Place, f \in Fields, k \in Nat :
           Elemental(o, f, k)' => Elemental(o, f, k)
  BY <1>1, NothingCounted
<1>5. top.at \in Place /\ top.next \in Nat /\ top.kind = "array"
  BY <1>1, <1>2 DEF Frame
<1>6. /\ top.type \in Elements /\ TypeOf(top.at) \in Elements
      /\ top.field \in DOMAIN Frees[TypeOf(top.at)]
      /\ Frees[TypeOf(top.at)][top.field] = ArrayOf(top.type)
  BY <1>2, <1>5 DEF FrameOK
<1>7. top.field \in Fields /\ ElementType(top.at, top.field) = top.type
  BY <1>6 DEF Fields, ElementType, ArrayOf
<1>8. fr \in Frame /\ fr.kind = "object" /\ fr.next = 0 /\ fr.size = 0
  <2>1. at \in Place /\ top.type \in DOMAIN Parses
    BY <1>5, <1>6, <1>7, Lengthen, Hosts DEF Element
  <2> HIDE DEF at
  <2> QED  BY <2>1 DEF Frame, Object
<1>9. /\ down \in Frame /\ down.kind = top.kind /\ down.at = top.at
      /\ down.field = top.field /\ down.next = top.next + 1
      /\ down.size = top.size /\ top.size \in Nat
  <2>1. top.next + 1 \in Nat
    BY <1>5
  <2>2. top.size \in Nat
    BY DEF Frame
  <2> QED  BY <2>1, <2>2, TurnTaken
<1>10. stack # <<>>
  BY <1>1 DEF IInv, ControlInv
<1> HIDE DEF down, fr, q
<1>11. /\ LoopsApart' /\ OnStack(fr)' /\ OnStack(down)'
       /\ \A g : OnStack(g)' => OnStack(g) \/ g = fr \/ g = down
       /\ \A g : OnStack(g) => OnStack(g)' \/ g = top
  BY <1>2, <1>3, <1>8, <1>9, <1>10, Stepped DEF CInv
<1>12. Bounded(fr)' /\ Bounded(down)'
  <2>1. CountOf(q) \in 0..MaxElements
    BY BoundsAssumption DEF CInv, ArraysCounted, CountOf
  <2>2. top.size <= MaxElements /\ CountOf(q) <= top.size
    BY <1>2, <1>5 DEF CInv, LoopsBounded, Bounded, q
  <2>3. down.next <= down.size + 1
    BY <1>3, <1>5, <1>9, <2>1, <2>2, BoundsAssumption
  <2>4. Bounded(down)'
    BY <1>4, <1>5, <1>9, <2>2, <2>3 DEF Bounded, q
  <2> QED  BY <1>8, <2>4, BoundsAssumption DEF Bounded
<1>13. LoopsBounded'
  BY <1>4, <1>11, <1>12, BoundsStay DEF CInv
<1>14. LeavesNothing(top)'
  <2>1. SUFFICES ASSUME NEW k \in Nat, top.next <= k
                 PROVE  Accounted(top.at, top.field, k)'
    BY <1>5 DEF LeavesNothing
  <2>2. CASE k = top.next
    BY <1>7, <1>11, <2>2 DEF Accounted, BeingFilled, fr
  <2>3. CASE k # top.next
    <3>1. down.next <= k
      BY <1>5, <1>9, <2>1, <2>3
    <3> QED  BY <1>5, <1>9, <1>11, <3>1 DEF Accounted, Waiting
  <2> QED  BY <2>2, <2>3
<1>15. ElementsAccounted'
  BY <1>1, <1>4, <1>11, <1>14, AccountsStay DEF CInv, Ongoing
<1>16. ArraysCounted'
  BY <1>1, <1>4, CountsStay DEF CInv
<1> QED  BY <1>1, <1>11, <1>13, <1>15, <1>16, GoesOn DEF CInv, Types

\* An extension copied unparsed.
LEMMA UnprocessedCounted == ASSUME IInv, CInv, UnprocessedExtension PROVE CInv'
<1>1. /\ pc = "parsing" /\ Top.kind = "entries" /\ Top.next > 0
      /\ UNCHANGED <<heap, lost, flags, pc, result, oom>>
  BY DEF UnprocessedExtension, At
<1>2. PICK top \in Frame : top = Top /\ OnStack(top) /\ FrameOK(top)
  BY <1>1, TopFrame
<1> DEFINE q == Field(top.at, top.field)
<1>3. PICK n \in Nat : n = CountOf(q) + 1
  BY DEF IInv, CountInv, CountOf
<1> DEFINE down == [top EXCEPT !.next = top.next - 1]
           at == Element(top.at, top.field, n, "extension")
           fr == Object(at, "extension")
<1>4. SetCount(q, n) /\ Steps(down, fr)
  BY <1>2, <1>3 DEF UnprocessedExtension
<1>5. /\ top.at \in Place /\ top.next \in Nat /\ top.next > 0 /\ top.kind = "entries"
  BY <1>1, <1>2 DEF Frame
<1>6. /\ TypeOf(top.at) \in Elements
      /\ top.field \in DOMAIN Frees[TypeOf(top.at)]
      /\ Frees[TypeOf(top.at)][top.field] = ArrayOf("extension")
      /\ q \in Blocks
  BY <1>2, <1>5 DEF FrameOK
<1>7. /\ top.field \in Fields /\ ElementType(top.at, top.field) = "extension"
      /\ Frees[TypeOf(top.at)][top.field].kind = "array"
  BY <1>6 DEF Fields, ElementType, ArrayOf
<1>8. CountOf(q) \in Nat /\ CountOf(q) <= n
  BY <1>3 DEF IInv, CountInv, CountOf
<1>9. Blocks' = Blocks /\ CountOf(q)' = n /\ \A r : r # q => CountOf(r)' = CountOf(r)
  BY <1>1, <1>4 DEF Blocks, SetCount, CountOf
<1>10. Grows
  <2>1. CountsGrow
    BY <1>4, <1>8, Counted DEF IInv
  <2> QED  BY <1>1, <1>9, <2>1 DEF Grows, CountsGrow
<1>11. fr \in Frame /\ fr.kind = "object" /\ fr.next = 0 /\ fr.size = 0
  <2>1. "extension" \in Elements /\ "extension" \in DOMAIN Parses
    BY Domains
  <2>2. at \in Place
    BY <1>5, <1>7, <2>1, Lengthen DEF Element
  <2> HIDE DEF at
  <2> QED  BY <2>1, <2>2 DEF Frame, Object
<1>12. /\ down \in Frame /\ down.kind = top.kind /\ down.at = top.at
       /\ down.field = top.field /\ down.next = top.next - 1
       /\ down.size = top.size /\ top.size \in Nat
  <2>1. top.next - 1 \in Nat
    BY <1>5
  <2> QED  BY <2>1, TurnTaken DEF Frame
<1>13. stack # <<>>
  BY <1>1 DEF IInv, ControlInv
<1>14. top.next + CountOf(q) <= top.size /\ top.size <= MaxElements
  BY <1>2, <1>5 DEF CInv, LoopsBounded, Bounded
<1>15. n \in 0..MaxElements
  BY <1>3, <1>5, <1>8, <1>12, <1>14, BoundsAssumption
<1> HIDE DEF down, fr, q
<1>16. /\ LoopsApart' /\ OnStack(fr)' /\ OnStack(down)'
       /\ \A g : OnStack(g)' =>
            \/ \E i \in 1..(Len(stack) - 1) : stack[i] = g
            \/ g = fr \/ g = down
       /\ \A g : OnStack(g) => OnStack(g)' \/ g = top
  BY <1>2, <1>4, <1>11, <1>12, <1>13, Stepped DEF CInv
<1>17. LoopsBounded'
  <2>1. SUFFICES ASSUME NEW g \in Frame, OnStack(g)' PROVE Bounded(g)'
    BY DEF LoopsBounded
  <2>2. Bounded(fr)'
    BY <1>11, BoundsAssumption DEF Bounded
  <2>3. Bounded(down)'
    <3>1. down.kind = "entries" /\ Field(down.at, down.field) = q
      BY <1>5, <1>12 DEF q
    <3>2. down.next + n <= down.size /\ down.size <= MaxElements
      BY <1>3, <1>5, <1>8, <1>12, <1>14, BoundsAssumption
    <3> QED  BY <1>9, <3>1, <3>2 DEF Bounded
  <2>4. ASSUME NEW i \in 1..(Len(stack) - 1), stack[i] = g PROVE Bounded(g)'
    <3>1. Len(stack) \in Nat \ {0} /\ stack[Len(stack)] = top
      BY <1>2, <1>13, StackBelow DEF Top, IInv, StackInv
    <3>2. i \in 1..Len(stack) /\ Len(stack) \in 1..Len(stack) /\ i # Len(stack)
      BY <3>1
    <3>3. Bounded(g) /\ FrameOK(g)
      BY <2>1, <2>4, <3>2 DEF CInv, LoopsBounded, IInv, StackInv, OnStack
    <3>4. CASE g.kind # "object"
      <4>1. Field(g.at, g.field) # q
        BY <1>5, <2>4, <3>1, <3>2, <3>4 DEF CInv, LoopsApart, q
      <4> QED  BY <1>9, <3>3, <4>1 DEF Bounded
    <3>5. CASE g.kind = "object"
      BY <3>3, <3>5 DEF Bounded
    <3> QED  BY <3>4, <3>5
  <2> QED  BY <1>16, <2>1, <2>2, <2>3, <2>4
<1>18. \A o \in Place, g \in Fields, k \in Nat :
          Elemental(o, g, k)' => Elemental(o, g, k) \/ Accounted(o, g, k)'
  <2>1. SUFFICES ASSUME NEW o \in Place, NEW g \in Fields, NEW k \in Nat,
                        Elemental(o, g, k)', ~Elemental(o, g, k)
                 PROVE  Accounted(o, g, k)'
    OBVIOUS
  <2>2. Field(o, g) = q
    BY <1>9, <2>1 DEF Elemental
  <2>3. o = top.at /\ g = top.field
    BY <1>5, <1>7, <2>2, FieldsApart DEF q
  <2>4. k = n
    BY <1>3, <1>6, <1>8, <1>9, <2>1, <2>2 DEF Elemental
  <2> QED  BY <1>7, <1>16, <2>3, <2>4 DEF Accounted, BeingFilled, fr
<1>19. LeavesNothing(top)'
  BY <1>5 DEF LeavesNothing
<1>20. ElementsAccounted'
  BY <1>1, <1>10, <1>16, <1>18, <1>19, AccountsStay DEF CInv, Ongoing
<1>21. ArraysCounted'
  <2>1. Good(top.at)'
    BY <1>2, <1>10, GoodStays DEF FrameOK
  <2>2. q \in Blocks'
    BY <1>6, <1>9
  <2> QED
    BY <1>1, <1>4, <1>5, <1>6, <1>7, <1>10, <1>15, <2>1, <2>2, CountIsSet DEF CInv, q
<1>22. DOMAIN count \subseteq DOMAIN count'
  BY <1>4 DEF SetCount
<1> QED  BY <1>1, <1>16, <1>17, <1>20, <1>21, <1>22, GoesOn DEF CInv, Types

\* An extension known by name.
LEMMA KnownCounted == ASSUME IInv, CInv, KnownExtension PROVE CInv'
<1>1. /\ pc = "parsing" /\ Top.kind = "entries" /\ Top.next > 0
      /\ Top.type \in DOMAIN Knows
      /\ UNCHANGED <<heap, lost, count, pc, result, oom>>
  BY DEF KnownExtension, At
<1>2. PICK top \in Frame : top = Top /\ OnStack(top) /\ FrameOK(top)
  BY <1>1, TopFrame
<1> DEFINE down == [top EXCEPT !.next = top.next - 1]
<1>3. PICK f \in DOMAIN Knows[top.type] :
        LET shape == Knows[top.type][f]
            place == Struct(top.at, f, shape.of)
        IN \/ /\ shape.kind = "flagged"
              /\ flags' = flags \cup {place}
              /\ Steps(down, Object(place, shape.of))
           \/ /\ shape.kind = "within"
              /\ Steps(down, Object(top.at, shape.of))
              /\ UNCHANGED flags
  BY <1>2 DEF KnownExtension
<1> DEFINE shape == Knows[top.type][f]
<1>4. /\ top.type \in DOMAIN Knows /\ shape.of \in DOMAIN Parses
      /\ shape.kind = "flagged" =>
           shape.of \in Elements /\ f \in DOMAIN Frees[top.type]
  BY <1>1, <1>2, KnownTables
<1>5. top.at \in Place /\ top.next \in Nat /\ top.kind = "entries" /\ top.next > 0
  BY <1>1, <1>2 DEF Frame
<1>6. top.type \in Elements
  BY <1>4, Domains DEF Knows
<1>7. PICK fr \in Frame : fr.kind = "object" /\ fr.next = 0 /\ fr.size = 0 /\ Steps(down, fr)
  <2> HIDE DEF shape, down
  <2>1. CASE shape.kind = "flagged" /\ Steps(down, Object(Struct(top.at, f, shape.of), shape.of))
    <3>1. f \in Fields
      BY <1>4, <1>6, <2>1 DEF Fields
    <3>2. Struct(top.at, f, shape.of) \in Place
      BY <1>4, <1>5, <2>1, <3>1, Lengthen DEF Struct
    <3> QED  BY <1>4, <2>1, <3>2 DEF Frame, Object
  <2>2. CASE Steps(down, Object(top.at, shape.of))
    BY <1>4, <1>5, <2>2 DEF Frame, Object
  <2> QED  BY <1>3, <2>1, <2>2 DEF shape
<1>8. flags \subseteq flags'
  BY <1>3
<1>9. /\ Grows /\ Blocks' = Blocks /\ \A r : CountOf(r)' = CountOf(r)
      /\ \A o \in Place, g \in Fields, k \in Nat :
           Elemental(o, g, k)' => Elemental(o, g, k)
  BY <1>1, <1>8, NothingCounted
<1>10. /\ down \in Frame /\ down.kind = top.kind /\ down.at = top.at
       /\ down.field = top.field /\ down.next = top.next - 1
       /\ down.size = top.size /\ top.size \in Nat
  <2>1. top.next - 1 \in Nat
    BY <1>5
  <2> QED  BY <2>1, TurnTaken DEF Frame
<1>11. stack # <<>>
  BY <1>1 DEF IInv, ControlInv
<1> HIDE DEF down, shape
<1>12. /\ LoopsApart'
       /\ \A g : OnStack(g)' => OnStack(g) \/ g = fr \/ g = down
       /\ \A g : OnStack(g) => OnStack(g)' \/ g = top
  BY <1>2, <1>7, <1>10, <1>11, Stepped DEF CInv
<1>13. Bounded(fr)' /\ Bounded(down)'
  <2>1. top.next + CountOf(Field(top.at, top.field)) <= top.size /\ top.size <= MaxElements
    BY <1>2, <1>5 DEF CInv, LoopsBounded, Bounded
  <2>2. CountOf(Field(top.at, top.field)) \in Nat
    BY DEF IInv, CountInv, CountOf
  <2>3. /\ down.next + CountOf(Field(down.at, down.field)) <= down.size
        /\ down.size <= MaxElements
    BY <1>5, <1>10, <2>1, <2>2, BoundsAssumption
  <2> QED  BY <1>5, <1>7, <1>9, <1>10, <2>3, BoundsAssumption DEF Bounded
<1>14. LoopsBounded'
  BY <1>9, <1>12, <1>13, BoundsStay DEF CInv
<1>15. LeavesNothing(top)'
  BY <1>5 DEF LeavesNothing
<1>16. ElementsAccounted'
  BY <1>1, <1>9, <1>12, <1>15, AccountsStay DEF CInv, Ongoing
<1>17. ArraysCounted'
  BY <1>1, <1>9, CountsStay DEF CInv
<1> QED  BY <1>1, <1>12, <1>14, <1>16, <1>17, GoesOn DEF CInv, Types

\* A function returns: an object with everything it must have, a loop behind its
\* last element.
LEMMA ReturnCounted == ASSUME IInv, CInv, Return PROVE CInv'
<1>1. /\ pc = "parsing" /\ stack' = Rest
      /\ pc' = (IF Rest = <<>> THEN "fixup" ELSE "parsing")
      /\ UNCHANGED <<lost, count, flags, result, oom>>
      /\ heap' = heap \ {TokensPlace} \/ heap' = heap
  BY DEF Return
<1>2. PICK top \in Frame : top = Top /\ OnStack(top) /\ FrameOK(top)
  BY <1>1, TopFrame
<1>3. \/ /\ top.kind = "object"
         /\ top.type \in Fixed \ {"mapping"} =>
              \A f \in DOMAIN Parses[top.type] : Field(top.at, f) \in heap
      \/ top.kind = "array" /\ top.next > CountOf(Field(top.at, top.field))
      \/ top.kind = "entries"
  BY <1>2 DEF Return
<1>4. Blocks' = Blocks /\ \A r : CountOf(r)' = CountOf(r)
  BY <1>1 DEF Blocks, CountOf
<1>5. Grows
  <2>1. \A r : CountOf(r) \in Nat
    BY DEF IInv, CountInv, CountOf
  <2> QED  BY <1>1, <1>4, <2>1 DEF Grows
<1>6. stack # <<>>
  BY <1>1 DEF IInv, ControlInv
<1>7. /\ LoopsApart'
      /\ \A g : OnStack(g)' => OnStack(g)
      /\ \A g : OnStack(g) => OnStack(g)' \/ g = top
  BY <1>1, <1>2, <1>6, Returned DEF CInv
<1>8. LoopsBounded'
  BY <1>4, <1>7, BoundsStay DEF CInv
<1>9. LeavesNothing(top)'
  <2>1. CASE /\ top.kind = "object"
             /\ top.type \in Fixed \ {"mapping"} =>
                  \A f \in DOMAIN Parses[top.type] : Field(top.at, f) \in heap
    <3>1. SUFFICES ASSUME top.type \in MustHave, NEW f \in DOMAIN Parses[top.type]
                   PROVE  Field(top.at, f) \in Blocks'
      BY <2>1 DEF LeavesNothing
    <3>2. Field(top.at, f) \in heap
      BY <2>1, <3>1 DEF MustHave
    <3>3. Field(top.at, f) # TokensPlace
      BY <1>2, <2>1, <3>1, KeyFits
    <3> QED  BY <1>4, <3>2, <3>3 DEF Blocks
  <2>2. CASE top.kind = "array" /\ top.next > CountOf(Field(top.at, top.field))
    <3>1. top.next \in Nat /\ CountOf(Field(top.at, top.field)) \in Nat
      BY <1>2 DEF Frame, IInv, CountInv, CountOf
    <3>2. ASSUME NEW k \in Nat, top.next <= k, Elemental(top.at, top.field, k)'
          PROVE  FALSE
      BY <1>4, <2>2, <3>1, <3>2 DEF Elemental
    <3> QED  BY <2>2, <3>2 DEF LeavesNothing
  <2>3. CASE top.kind = "entries"
    BY <2>3 DEF LeavesNothing
  <2> QED  BY <1>3, <2>1, <2>2, <2>3
<1>10. \A o \in Place, g \in Fields, k \in Nat :
          Elemental(o, g, k)' => Elemental(o, g, k)
  BY <1>4 DEF Elemental
<1>11. ElementsAccounted'
  BY <1>1, <1>5, <1>7, <1>9, <1>10, AccountsStay DEF CInv, Ongoing
<1>12. ArraysCounted'
  BY <1>1, <1>5, CountsStay DEF CInv
<1> QED  BY <1>1, <1>7, <1>8, <1>11, <1>12, GoesOn DEF CInv, Types

\* The start of a parse.
LEMMA BeginCounted == ASSUME IInv, CInv, Begin PROVE CInv'
<1>1. /\ pc = "start" /\ DOMAIN count = {} /\ UNCHANGED <<lost, count, flags>> /\ stack = <<>>
      /\ ~oom /\ result \in Results
  BY DEF Begin, CInv, EndInv, Types, IInv, ControlInv
<1>2. \A r : CountOf(r)' = 0
  BY <1>1 DEF CountOf
<1>3. ArraysCounted' /\ ElementsAccounted'
  BY <1>1, <1>2 DEF ArraysCounted, ElementsAccounted, Elemental
<1>4. CASE /\ heap' = {TokensPlace, DataPlace} /\ pc' = "parsing"
           /\ stack' = <<Object(DataPlace, "data")>> /\ UNCHANGED <<result, oom>>
  <2> DEFINE fr == Object(DataPlace, "data")
  <2>1. fr.kind = "object" /\ fr.next = 0 /\ fr.size = 0
    BY DEF Object
  <2> HIDE DEF fr
  <2>2. stack' = <<fr>>
    BY <1>4 DEF fr
  <2>3. \A g : OnStack(g)' => g = fr
    BY <2>2 DEF OnStack
  <2>4. LoopsBounded'
    BY <2>1, <2>3, BoundsAssumption DEF LoopsBounded, Bounded
  <2>5. LoopsApart'
    BY <2>2 DEF LoopsApart
  <2>6. Types' /\ EndInv' /\ Noticed'
    BY <1>1, <1>4 DEF CInv, Types, Pcs, EndInv, Noticed
  <2> QED  BY <1>3, <2>4, <2>5, <2>6 DEF CInv
<1>5. CASE /\ oom' = TRUE /\ result' = "out_of_memory" /\ pc' = "freed"
           /\ UNCHANGED <<heap, stack>>
  <2>1. \A g : ~OnStack(g)'
    BY <1>1, <1>5 DEF OnStack
  <2>2. LoopsBounded' /\ LoopsApart'
    BY <1>1, <1>5, <2>1 DEF LoopsBounded, LoopsApart
  <2>3. Types' /\ EndInv' /\ ~Ongoing'
    BY <1>5 DEF Types, Pcs, Results, EndInv, Ongoing
  <2> QED  BY <1>3, <2>2, <2>3 DEF CInv, Noticed
<1> QED  BY <1>4, <1>5 DEF Begin

\* What does not look at the program counter or the result stays as it is.
LEMMA NothingMoves ==
    ASSUME UNCHANGED <<heap, count, flags, stack, oom>>
    PROVE  /\ ArraysCounted => ArraysCounted'
           /\ LoopsBounded => LoopsBounded'
           /\ LoopsApart => LoopsApart'
           /\ ElementsAccounted => ElementsAccounted'
           /\ NullArrays' = NullArrays
<1>1. Blocks' = Blocks /\ \A r : CountOf(r)' = CountOf(r)
  BY DEF Blocks, CountOf
<1>2. \A fr : OnStack(fr)' <=> OnStack(fr)
  BY DEF OnStack
<1>3. \A o, s : Walks(o, s)' <=> Walks(o, s)
  BY <1>1 DEF Walks
<1>4. ArraysCounted => ArraysCounted'
  <2>1. \A o : Good(o) => Good(o)'
    BY <1>1, <1>3 DEF Good
  <2>2. \A p : ArrayPlace(p) => ArrayPlace(p)'
    BY <2>1 DEF ArrayPlace
  <2> QED  BY <1>1, <2>2 DEF ArraysCounted
<1>5. LoopsBounded => LoopsBounded'
  BY <1>1, <1>2 DEF LoopsBounded, Bounded
<1>6. LoopsApart => LoopsApart'
  BY DEF LoopsApart
<1>7. ElementsAccounted => ElementsAccounted'
  <2>1. \A o, f, k : Accounted(o, f, k) => Accounted(o, f, k)'
    BY <1>1, <1>2 DEF Accounted, Filled, BeingFilled, Waiting
  <2> QED  BY <1>1, <2>1 DEF ElementsAccounted, Elemental
<1>8. NullArrays' = NullArrays
  BY <1>3 DEF NullArrays, Reaches
<1> QED  BY <1>4, <1>5, <1>6, <1>7, <1>8

\* Once the parser is done, nothing is counted any more.
LEMMA EndCounted ==
    ASSUME IInv, CInv, pc # "parsing", UNCHANGED <<heap, lost, count, flags, stack, oom>>,
           pc' \in Pcs \ {"parsing", "start"}, result' \in Results,
           Ongoing' => Ongoing, pc' = "held" => NullArrays = {}
    PROVE  CInv'
<1>1. Types'
  BY DEF CInv, Types
<1>2. /\ ArraysCounted' /\ LoopsBounded' /\ LoopsApart'
      /\ ElementsAccounted => ElementsAccounted'
  BY NothingMoves DEF CInv
<1>3. NullArrays' = NullArrays
  BY NothingMoves
<1>4. Noticed' /\ EndInv'
  BY <1>3 DEF CInv, Noticed, EndInv
<1> QED  BY <1>1, <1>2, <1>4 DEF CInv

\* The fixup hands out a document only if it has stepped through no null array.
LEMMA FixupCounted == ASSUME IInv, CInv, Fixup PROVE CInv'
<1>1. /\ pc = "fixup" /\ UNCHANGED <<heap, lost, count, flags, stack, oom>>
      /\ \/ NullArrays = {} /\ pc' = "held" /\ result' = "success"
         \/ pc' = "crashed" /\ UNCHANGED result
         \/ pc' = "failed" /\ result' = "invalid_gltf"
  BY DEF Fixup
<1>2. /\ pc' \in Pcs \ {"parsing", "start"} /\ result' \in Results
      /\ Ongoing /\ (pc' = "held" => NullArrays = {})
  BY <1>1 DEF CInv, Types, Pcs, Results, Ongoing
<1> QED  BY <1>1, <1>2, EndCounted

\* cgltf_free leaves no counts.
LEMMA FreeCounted == ASSUME IInv, CInv, Free PROVE CInv'
<1>1. /\ pc \in {"failed", "held"} /\ UNCHANGED <<lost, stack, result, oom>>
      /\ stack = <<>>
  BY DEF Free, IInv, ControlInv
<1>2. CASE pc' = "crashed" /\ UNCHANGED <<heap, count, flags>>
  <2>1. /\ pc' \in Pcs \ {"parsing", "start"} /\ result' \in Results
        /\ ~Ongoing' /\ pc' # "held"
    BY <1>1, <1>2 DEF CInv, Types, Pcs, Ongoing
  <2> QED  BY <1>1, <1>2, <2>1, EndCounted
<1>3. CASE pc' = "freed" /\ count' = [p \in {} |-> 0]
  <2>1. Types' /\ EndInv' /\ ~Ongoing'
    BY <1>1, <1>3 DEF CInv, Types, Pcs, EndInv, Ongoing
  <2>2. ArraysCounted'
    BY <1>3 DEF ArraysCounted
  <2>3. \A g : ~OnStack(g)'
    BY <1>1 DEF OnStack
  <2>4. LoopsBounded' /\ LoopsApart'
    BY <1>1, <2>3 DEF LoopsBounded, LoopsApart
  <2> QED  BY <2>1, <2>2, <2>4 DEF CInv, Noticed
<1> QED  BY <1>2, <1>3 DEF Free

\* At the start nothing is counted.
LEMMA InitCounted == ASSUME Init PROVE CInv
<1>1. Types /\ EndInv /\ Noticed
  BY DEF Init, Types, Pcs, Results, EndInv, Noticed
<1>2. \A g : ~OnStack(g)
  BY DEF Init, OnStack
<1>3. LoopsBounded /\ LoopsApart
  BY <1>2 DEF Init, LoopsBounded, LoopsApart
<1>4. ArraysCounted /\ ElementsAccounted
  BY DEF Init, ArraysCounted, ElementsAccounted, Elemental, CountOf
<1> QED  BY <1>1, <1>3, <1>4 DEF CInv

\* Every step keeps both invariants.
LEMMA StepCounted == ASSUME IInv, CInv, [Next]_vars PROVE CInv'
<1>1. CASE Begin                 BY <1>1, BeginCounted
<1>2. CASE Key                   BY <1>2, KeyCounted
<1>3. CASE NextElement           BY <1>3, NextElementCounted
<1>4. CASE UnprocessedExtension  BY <1>4, UnprocessedCounted
<1>5. CASE KnownExtension        BY <1>5, KnownCounted
<1>6. CASE Return                BY <1>6, ReturnCounted
<1>7. CASE Malformed \/ LegacyAsset
  <2>1. UNCHANGED <<heap, count, flags, oom>> /\ \E r \in Results : Fails(r)
    BY <1>7 DEF Malformed, LegacyAsset, Results
  <2> QED  BY <2>1, GivingUpCounted
<1>8. CASE Fixup                 BY <1>8, FixupCounted
<1>9. CASE Free                  BY <1>9, FreeCounted
<1>10. CASE UNCHANGED vars
  <2>1. Types'
    BY <1>10 DEF vars, CInv, Types
  <2>2. /\ ArraysCounted' /\ LoopsBounded' /\ LoopsApart'
        /\ ElementsAccounted => ElementsAccounted'
    BY <1>10, NothingMoves DEF vars, CInv
  <2>3. NullArrays' = NullArrays /\ Ongoing' = Ongoing
    BY <1>10, NothingMoves DEF vars, Ongoing
  <2>4. Noticed' /\ EndInv'
    BY <1>10, <2>3 DEF vars, CInv, Noticed, EndInv
  <2> QED  BY <2>1, <2>2, <2>3, <2>4 DEF CInv
<1> QED
  BY <1>1, <1>2, <1>3, <1>4, <1>5, <1>6, <1>7, <1>8, <1>9, <1>10 DEF Next

\* cgltf_free comes to the array of an object it comes to.
LEMMA FieldIsReached ==
    ASSUME NEW o \in Place, NEW f \in Fields, Good(o),
           f \in DOMAIN Frees[TypeOf(o)], Frees[TypeOf(o)][f].kind = "array"
    PROVE  Reaches(Field(o, f))
<1> DEFINE p == Field(o, f)
<1>1. 0 \in Nat /\ "block" \in Elements \cup {"block"} /\ Len(o) \in Nat
  BY DEF Place
<1>2. /\ Len(p) = Len(o) + 1 /\ p[Len(o) + 1] = <<f, 0, "block">>
      /\ SubSeq(p, 1, Len(o)) = o
      /\ \A i \in 1..Len(o) : p[i] = o[i] /\ SubSeq(p, 1, i - 1) = SubSeq(o, 1, i - 1)
  BY <1>1, Lengthen DEF Field
<1>3. Walks(o, <<f, 0, "block">>)
  BY DEF Walks
<1> HIDE DEF p
<1>4. SUFFICES ASSUME NEW i \in 1..Len(p) PROVE Walks(SubSeq(p, 1, i - 1), p[i])
  BY DEF Reaches, p
<1>5. CASE i \in 1..Len(o)
  BY <1>2, <1>5 DEF Good
<1>6. CASE i = Len(o) + 1
  <2>1. i - 1 = Len(o)
    BY <1>1, <1>6
  <2> QED  BY <1>2, <1>3, <1>6, <2>1
<1> QED  BY <1>1, <1>2, <1>5, <1>6

\* What both invariants say of a state.
LEMMA TypesFollow == ASSUME IInv, CInv PROVE TypeOK
<1>1. \A p \in DOMAIN count : count[p] \in 0..MaxElements
  BY DEF CInv, ArraysCounted
<1>2. ASSUME NEW i \in 1..Len(stack)
      PROVE  /\ stack[i].kind \in {"object", "array", "entries"}
             /\ stack[i].size \in 0..MaxElements
             /\ stack[i].next \in 0..(stack[i].size + 1)
             /\ stack[i].kind # "object" =>
                  CountOf(Field(stack[i].at, stack[i].field)) <= stack[i].size
  <2>1. PICK fr \in Frame : fr = stack[i]
    BY ElementOfSeq DEF IInv, StackInv
  <2>2. fr.kind \in {"object", "array", "entries"} /\ fr.next \in Nat /\ fr.size \in Nat
    BY DEF Frame
  <2>3. Bounded(fr)
    BY <2>1 DEF CInv, LoopsBounded, OnStack
  <2>4. CountOf(Field(fr.at, fr.field)) \in Nat
    BY DEF IInv, CountInv, CountOf
  <2>5. /\ fr.size <= MaxElements /\ fr.next <= fr.size + 1
        /\ fr.kind # "object" => CountOf(Field(fr.at, fr.field)) <= fr.size
    BY <2>2, <2>3, <2>4, BoundsAssumption DEF Bounded
  <2> QED  BY <2>1, <2>2, <2>5, BoundsAssumption
<1> QED  BY <1>1, <1>2 DEF TypeOK, CInv, Types, IInv, HeapInv

\* An array that is counted and not there is one of the two, after a failure.
LEMMA NullArraysAreTwo == ASSUME CInv PROVE OnlyTwoCountFirst
BY DEF CInv, ArraysCounted, NullArrays, OnlyTwoCountFirst, Blocks, FieldOf

\* A failure that was not noticed left a count of mappings.
LEMMA FailureFollows == ASSUME IInv, CInv PROVE FailureShows
<1>1. pc = "held" => Ongoing
  BY DEF Ongoing
<1> QED  BY <1>1, NullArraysAreTwo DEF FailureShows, CInv, Noticed, FieldOf

\* A document that is handed out has no null arrays, and no loop is left that an
\* element could be waiting for.
LEMMA CompleteFollows == ASSUME IInv, CInv PROVE HeldIsComplete
<1>1. SUFFICES ASSUME pc = "held", NEW p \in DOMAIN count
      PROVE LET o == SubSeq(p, 1, Len(p) - 1)
                f == p[Len(p)][1]
                t == Frees[TypeOf(o)][f].of
            IN /\ count[p] > 0 => p \in heap
               /\ t \in Fixed \ {"mapping"} =>
                    \A k \in 1..count[p], g \in DOMAIN Parses[t] :
                        Field(Element(o, f, k, t), g) \in heap
  BY DEF HeldIsComplete
<1>2. stack = <<>> /\ \A g : ~OnStack(g)
  BY <1>1 DEF IInv, ControlInv, OnStack
<1>3. ElementsAccounted /\ NullArrays = {}
  BY <1>1 DEF CInv, Ongoing, EndInv
<1>4. PICK o \in Place, f \in Fields :
        /\ p = Field(o, f) /\ Good(o)
        /\ f \in DOMAIN Frees[TypeOf(o)] /\ Frees[TypeOf(o)][f].kind = "array"
  BY DEF CInv, ArraysCounted, ArrayPlace
<1>5. SubSeq(p, 1, Len(p) - 1) = o /\ p[Len(p)][1] = f
  BY <1>4, FieldHas DEF FieldOf
<1>6. count[p] \in 0..MaxElements
  BY DEF CInv, ArraysCounted
<1>7. count[p] > 0 => p \in Blocks
  <2>1. SUFFICES ASSUME count[p] > 0, p \notin heap PROVE FALSE
    <3>1. FieldOf(TokensPlace) = "tokens"
      BY DEF FieldOf, TokensPlace
    <3>2. count[p] > 0 => p \in Blocks \/ FieldOf(p) \in {"attributes", "mappings"}
      BY DEF CInv, ArraysCounted
    <3> QED  BY <3>1, <3>2 DEF Blocks
  <2>2. Reaches(p)
    BY <1>4, FieldIsReached
  <2> QED  BY <1>3, <2>1, <2>2 DEF NullArrays
<1>8. ASSUME NEW k \in 1..count[p], ElementType(o, f) \in MustHave
      PROVE  Filled(o, f, k)
  <2>1. k \in Nat /\ Elemental(o, f, k)
    BY <1>4, <1>6, <1>7, <1>8, BoundsAssumption DEF Elemental, CountOf
  <2>2. Accounted(o, f, k)
    BY <1>3, <1>8, <2>1 DEF ElementsAccounted
  <2> QED  BY <1>2, <2>2 DEF Accounted, BeingFilled, Waiting
<1>9. count[p] > 0 => p \in heap
  BY <1>7 DEF Blocks
<1>10. ASSUME NEW k \in 1..count[p], ElementType(o, f) \in MustHave,
              NEW g \in DOMAIN Parses[ElementType(o, f)]
       PROVE  Field(Element(o, f, k, ElementType(o, f)), g) \in heap
  BY <1>8, <1>10 DEF Filled, Blocks
<1> QED
  BY <1>5, <1>9, <1>10 DEF ElementType, MustHave

\* While a loop fills an array, its count stays at or below the length the array was
\* allocated with, and the loop ends one step behind it: of the parser functions,
\* whatever the document.
THEOREM OwnershipTypes == Spec => []TypeOK
<1>1. Init => IInv /\ CInv
  BY InitEstablishes, InitCounted
<1>2. IInv /\ CInv /\ [Next]_vars => IInv' /\ CInv'
  BY StepKeeps, StepCounted
<1>3. IInv /\ CInv => TypeOK
  BY TypesFollow
<1> QED  BY <1>1, <1>2, <1>3, PTL DEF Spec

\* A failed allocation ends cgltf_parse_json with an error unless it was one of
\* variant mappings, and the only counts ever seen over a null pointer are those
\* of attribute lists and variant mappings after such a failure.
THEOREM FailuresShow == Spec => []FailureShows
<1>1. Init => IInv /\ CInv
  BY InitEstablishes, InitCounted
<1>2. IInv /\ CInv /\ [Next]_vars => IInv' /\ CInv'
  BY StepKeeps, StepCounted
<1>3. IInv /\ CInv => FailureShows
  BY FailureFollows
<1> QED  BY <1>1, <1>2, <1>3, PTL DEF Spec

\* A document that cgltf_parse_json hands out has every array its counts speak of,
\* and every string, attribute name and extension in them.
THEOREM HeldDocumentsAreComplete == Spec => []HeldIsComplete
<1>1. Init => IInv /\ CInv
  BY InitEstablishes, InitCounted
<1>2. IInv /\ CInv /\ [Next]_vars => IInv' /\ CInv'
  BY StepKeeps, StepCounted
<1>3. IInv /\ CInv => HeldIsComplete
  BY CompleteFollows
<1> QED  BY <1>1, <1>2, <1>3, PTL DEF Spec
=============================================================================
