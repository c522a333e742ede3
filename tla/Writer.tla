------------------------------- MODULE Writer -------------------------------
(***************************************************************************)
(* cgltf_write of src/libs/cgltf/cgltf_write.h: thirty functions that      *)
(* print a document, lexeme by lexeme, with a comma wherever the flag      *)
(* needs_comma says so, and note on the way which extensions the document  *)
(* will have to declare.                                                   *)
(*                                                                         *)
(* Each function is its sequence of steps here, and program is all of them *)
(* in line: what is printed always, what only when the document has it,    *)
(* what is repeated.  A document is the choices made on the way.  The text *)
(* is read as it comes by the automaton of module JsonText.  Line breaks   *)
(* and indentation (depth), names and numbers are left out, but for what   *)
(* of them is printed that is no JSON; so are the sizes of the two passes, *)
(* which print the same text.                                              *)
(***************************************************************************)
EXTENDS JsonText, Integers, FiniteSets

CONSTANT Features   \* what a document may have: extensions, and Unquoted

VARIABLES
    features,       \* what this document has
    has,            \* those of the object that is being written
    pc,             \* the next step of program
    needs_comma,    \* context->needs_comma
    text,           \* the text so far, as the automaton has it
    extension_flags, required_extension_flags,
    wrote,          \* history: the extensions that have an object in the text
    declared        \* history: "extensionsUsed" as written

writerVars == <<features, has, pc, needs_comma, text, extension_flags,
          required_extension_flags, wrote, declared>>

-----------------------------------------------------------------------------
(***************************************************************************)
(* Steps.                                                                  *)
(***************************************************************************)
Do(op, arg) == <<[op |-> op, arg |-> arg]>>

Flag(ext)    == Do("flag", ext)
Require(ext) == Do("require", ext)
Choose(exts) == Do("choose", exts)      \* which extensions an object has

\* A line, which may begin the object of an extension.
Begin(ext, lexemes) == <<[op |-> "line", arg |-> lexemes, name |-> ext]>>
Line(lexemes) == Begin("none", lexemes)

\* Any number of strprop, intprop, sizeprop, floatprop, boolprop_optional,
\* floatarrayprop, CGLTF_WRITE_IDXPROP, CGLTF_WRITE_IDXARRPROP and extras.
Props == Do("props", 0)

\* If the object has one of these; if the document has such a thing; the steps
\* once or more.
If(exts, steps) == <<[op |-> "if", arg |-> exts, skip |-> Len(steps)]>> \o steps
Maybe(steps)    == <<[op |-> "maybe", arg |-> "none", skip |-> Len(steps)]>> \o steps
MaybeExtension(ext, steps) ==
    <<[op |-> "maybe", arg |-> ext, skip |-> Len(steps)]>> \o steps
Some(steps)     == steps \o Do("again", Len(steps))

Key     == <<"string", ":">>
Object(steps)  == Line(Key \o <<"{">>) \o steps \o Line(<<"}">>)
Element(steps) == Line(<<"{">>) \o steps \o Line(<<"}">>)
Array(steps)   == Line(Key \o <<"[">>) \o steps \o Line(<<"]">>)
Extension(ext, steps) == Begin(ext, Key \o <<"{">>) \o steps \o Line(<<"}">>)

-----------------------------------------------------------------------------
(***************************************************************************)
(* The functions.                                                          *)
(***************************************************************************)
cgltf_write_texture_transform ==
    Object(Extension("KHR_texture_transform", Props))

\* CGLTF_WRITE_TEXTURE_INFO, and the macros for normal and occlusion textures.
TextureInfo ==
    Maybe(Object(Props \o MaybeExtension("KHR_texture_transform",
        Flag("KHR_texture_transform") \o cgltf_write_texture_transform)))

cgltf_write_asset == Object(Props)

cgltf_write_primitive ==
    Choose({"KHR_draco_mesh_compression", "KHR_materials_variants"})
    \o Props
    \o Object(Props)
    \o Maybe(Array(Some(Element(Props))))
    \o Props
    \o If({"KHR_draco_mesh_compression", "KHR_materials_variants"}, Object(
          If({"KHR_draco_mesh_compression"},
             Flag("KHR_draco_mesh_compression")
             \o Maybe(Require("KHR_draco_mesh_compression"))
             \o Extension("KHR_draco_mesh_compression", Props \o Object(Props)))
          \o If({"KHR_materials_variants"},
             Flag("KHR_materials_variants")
             \o Extension("KHR_materials_variants", Array(Some(Element(Props)))))))

cgltf_write_mesh ==
    Element(Props \o Array(Maybe(Some(Element(cgltf_write_primitive)))) \o Props)

cgltf_write_buffer_view == Element(Props)
cgltf_write_buffer      == Element(Props)
cgltf_write_image       == Element(Props)
cgltf_write_sampler     == Element(Props)
cgltf_write_skin        == Element(Props)
cgltf_write_scene       == Element(Props)

\* The extensions of a material in the order in which their objects come.
WithTextures == {"KHR_materials_clearcoat", "KHR_materials_specular",
    "KHR_materials_transmission", "KHR_materials_volume", "KHR_materials_sheen",
    "KHR_materials_pbrSpecularGlossiness"}

MaterialExtensions == WithTextures \union
    {"KHR_materials_ior", "KHR_materials_unlit", "KHR_materials_emissive_strength",
     "KHR_materials_iridescence", "KHR_materials_diffuse_transmission",
     "KHR_materials_anisotropy", "KHR_materials_dispersion"}

IfExtension(ext, steps) == If({ext}, Extension(ext, steps))

cgltf_write_material ==
    Element(
        Choose(MaterialExtensions)
        \o Props
        \o Do("flag_those", 0)
        \o Maybe(Object(TextureInfo \o TextureInfo \o Props))
        \o If(MaterialExtensions, Object(
              IfExtension("KHR_materials_clearcoat",
                          TextureInfo \o TextureInfo \o TextureInfo \o Props)
              \o IfExtension("KHR_materials_ior", Props)
              \o IfExtension("KHR_materials_specular", TextureInfo \o TextureInfo \o Props)
              \o IfExtension("KHR_materials_transmission", TextureInfo \o Props)
              \o IfExtension("KHR_materials_volume", TextureInfo \o Props)
              \o IfExtension("KHR_materials_sheen", TextureInfo \o TextureInfo \o Props)
              \o IfExtension("KHR_materials_pbrSpecularGlossiness",
                             TextureInfo \o TextureInfo \o Props)
              \o If({"KHR_materials_unlit"}, Begin("KHR_materials_unlit", Key \o <<"{", "}">>))
              \o IfExtension("KHR_materials_emissive_strength", Props)
              \o IfExtension("KHR_materials_iridescence",
                             Props \o TextureInfo \o Props \o TextureInfo)
              \o IfExtension("KHR_materials_diffuse_transmission",
                             TextureInfo \o Props \o TextureInfo)
              \o IfExtension("KHR_materials_anisotropy", Props \o TextureInfo)
              \o IfExtension("KHR_materials_dispersion", Props)))
        \o TextureInfo \o TextureInfo \o TextureInfo
        \o Props)

cgltf_write_texture ==
    LET exts == {"KHR_texture_basisu", "EXT_texture_webp"}
    IN  Element(
            Choose(exts) \o Props
            \o If(exts, Object(
                  If({"KHR_texture_basisu"},
                     Flag("KHR_texture_basisu") \o Extension("KHR_texture_basisu", Props))
                  \o If({"EXT_texture_webp"},
                     Flag("EXT_texture_webp") \o Extension("EXT_texture_webp", Props))))
            \o Props)

cgltf_write_animation_sampler == Element(Props)
cgltf_write_animation_channel == Element(Props \o Object(Props) \o Props)

cgltf_write_animation ==
    Element(Props
            \o Maybe(Array(Some(cgltf_write_animation_sampler)))
            \o Maybe(Array(Some(cgltf_write_animation_channel)))
            \o Props)

cgltf_write_node ==
    LET exts == {"KHR_lights_punctual", "EXT_mesh_gpu_instancing"}
    IN  Element(
            Choose(exts) \o Props
            \o If(exts, Line(Key \o <<"{">>))
            \o If({"KHR_lights_punctual"},
                  Flag("KHR_lights_punctual") \o Extension("KHR_lights_punctual", Props))
            \o If({"EXT_mesh_gpu_instancing"},
                  Flag("EXT_mesh_gpu_instancing") \o Require("EXT_mesh_gpu_instancing")
                  \o Extension("EXT_mesh_gpu_instancing", Object(Props)))
            \o If(exts, Line(<<"}">>))
            \o Props)

cgltf_write_accessor ==
    Element(Props
            \o Maybe(Object(Props \o Object(Props) \o Object(Props)))
            \o Props)

cgltf_write_camera == Element(Props \o Maybe(Object(Props)) \o Props)

\* A mutant: a light does not say that it is one.
UnflaggedLight == Element(Props \o Maybe(Object(Props)) \o Props)

cgltf_write_light ==
    Flag("KHR_lights_punctual") \o Element(Props \o Maybe(Object(Props)) \o Props)

cgltf_write_variant == Flag("KHR_materials_variants") \o Element(Props)

ArrayOf(element) == Maybe(Array(Some(element)))

program ==
    ArrayOf(cgltf_write_accessor)
    \o cgltf_write_asset
    \o ArrayOf(cgltf_write_buffer_view)
    \o ArrayOf(cgltf_write_buffer)
    \o ArrayOf(cgltf_write_image)
    \o ArrayOf(cgltf_write_mesh)
    \o ArrayOf(cgltf_write_material)
    \o ArrayOf(cgltf_write_node)
    \o ArrayOf(cgltf_write_sampler)
    \o Props
    \o ArrayOf(cgltf_write_scene)
    \o ArrayOf(cgltf_write_texture)
    \o ArrayOf(cgltf_write_skin)
    \o ArrayOf(cgltf_write_animation)
    \o ArrayOf(cgltf_write_camera)
    \o Do("lists", {"KHR_lights_punctual", "KHR_materials_variants"})
    \o If({"KHR_lights_punctual", "KHR_materials_variants"}, Object(
          IfExtension("KHR_lights_punctual", Array(Some(cgltf_write_light)))
          \o IfExtension("KHR_materials_variants", Array(Some(cgltf_write_variant)))))
    \o Do("extensionsUsed", 0)
    \o Do("extensionsRequired", 0)
    \o Props
    \o Do("end", 0)

-----------------------------------------------------------------------------
(***************************************************************************)
(* Printing.                                                               *)
(***************************************************************************)
PrintInit ==
    /\ features \in Features
    /\ has = {} /\ pc = 1
    /\ needs_comma = FALSE /\ text = Read(StartOfText, "{")
    /\ extension_flags = {} /\ required_extension_flags = {}
    /\ wrote = {} /\ declared = {}

Step == program[pc]
On(op) == pc <= Len(program) /\ Step.op = op
Next1 == pc' = pc + 1

flags == <<extension_flags, required_extension_flags>>

\* cgltf_write_indent, then the lexemes.
Indented(lexemes) == ReadAll(text, (IF needs_comma THEN <<",">> ELSE << >>) \o lexemes)

Closing(lexemes) == Head(lexemes) \in {"}", "]"}
Opening(lexemes) == Last(lexemes) \in {"{", "["}

\* A mutant: a comma is due before a closing bracket too.
LineAfterComma ==
    /\ On("line")
    /\ text' = Indented(Step.arg)
    /\ needs_comma' = Closing(Step.arg)
    /\ wrote' = (wrote \union {Step.name}) \ {"none"}
    /\ Next1 /\ UNCHANGED <<features, has, flags, declared>>

\* cgltf_write_line: a comma is due after a line that closes something, and not
\* before it, nor after one that opens something; the indentation has cleared
\* the flag for any other line.
cgltf_write_line ==
    /\ On("line")
    /\ text' = IF Closing(Step.arg) THEN ReadAll(text, Step.arg) ELSE Indented(Step.arg)
    /\ needs_comma' = (Closing(Step.arg) /\ ~Opening(Step.arg))
    /\ wrote' = (wrote \union {Step.name}) \ {"none"}
    /\ Next1 /\ UNCHANGED <<features, has, flags, declared>>

\* What a property may have as its value.
JsonValues == {<<"primitive">>, <<"string">>, <<"[", "]">>,
               <<"[", "primitive", ",", "primitive", "]">>, <<"{", "}">>}

\* What a document may have that is printed as a word that JSON has no place for:
\* extras that are a string, which cgltf_parse_json_extras keeps without its quotes,
\* and a number of the file that is too large for a cgltf_float and becomes "inf".
Unquoted == {"string_extras", "infinite_number"}

\* A string of no characters leaves nothing behind the colon.
BareValues(those) ==
    UNION {CASE f = "string_extras"   -> {<<"bad">>, << >>}
             [] f = "infinite_number" -> {<<"bad">>, <<"[", "bad", "]">>} :
           f \in those \intersect Unquoted}

Values(those) == JsonValues \union BareValues(those)

Property ==
    /\ On("props")
    /\ \E value \in Values(features) : text' = Indented(Key \o value)
    /\ needs_comma' = TRUE
    /\ UNCHANGED <<features, has, pc, flags, wrote, declared>>

NoMoreProperties ==
    On("props") /\ Next1 /\ UNCHANGED <<features, has, needs_comma, text, flags, wrote, declared>>

Extensions ==
    /\ \/ /\ On("choose")
          /\ has' \in SUBSET (Step.arg \intersect features)
       \/ /\ On("lists")             \* a node's light is one of the document's
          /\ has' \in SUBSET (Step.arg \intersect features)
          /\ extension_flags \intersect {"KHR_lights_punctual"} \subseteq has'
    /\ Next1 /\ UNCHANGED <<features, needs_comma, text, flags, wrote, declared>>

SetFlag ==
    /\ \/ On("flag") /\ extension_flags' = extension_flags \union {Step.arg}
       \/ On("flag_those") /\ extension_flags' = extension_flags \union has
    /\ Next1
    /\ UNCHANGED <<features, has, needs_comma, text, required_extension_flags, wrote, declared>>

SetRequired ==
    /\ On("require")
    /\ required_extension_flags' = required_extension_flags \union {Step.arg}
    /\ Next1
    /\ UNCHANGED <<features, has, needs_comma, text, extension_flags, wrote, declared>>

\* An if on what the object has, an if or a loop on what the document has.
Branch ==
    /\ \/ On("if") /\ pc' = pc + 1 + (IF has \intersect Step.arg # {} THEN 0 ELSE Step.skip)
       \/ On("maybe") /\ pc' = pc + 1 + Step.skip
       \/ On("maybe") /\ Step.arg \in features \union {"none"} /\ Next1
       \/ On("again") /\ (pc' = pc - Step.arg \/ Next1)
    /\ UNCHANGED <<features, has, needs_comma, text, flags, wrote, declared>>

\* cgltf_write_extensions: the flags it knows.
Listed == MaterialExtensions \union
    {"KHR_texture_transform", "KHR_lights_punctual", "KHR_draco_mesh_compression",
     "KHR_materials_variants", "KHR_texture_basisu", "EXT_texture_webp",
     "EXT_mesh_gpu_instancing"}

Names(n) == [k \in 1 .. 2 * n - 1 |-> IF k % 2 = 1 THEN "string" ELSE ","]

WriteExtensions(exts) ==
    IF exts = {} THEN UNCHANGED <<needs_comma, text>>
    ELSE /\ text' = Indented(Key \o <<"[">> \o Names(Cardinality(exts \intersect Listed))
                                 \o <<"]">>)
         /\ needs_comma' = TRUE

ExtensionsUsed ==
    /\ On("extensionsUsed")
    /\ WriteExtensions(extension_flags)
    /\ declared' = extension_flags \intersect Listed
    /\ Next1 /\ UNCHANGED <<features, has, flags, wrote>>

ExtensionsRequired ==
    /\ On("extensionsRequired")
    /\ WriteExtensions(required_extension_flags)
    /\ Next1 /\ UNCHANGED <<features, has, flags, wrote, declared>>

\* The brace of the document itself, which is printed without cgltf_write_line.
End ==
    /\ On("end")
    /\ text' = Read(text, "}")
    /\ Next1 /\ UNCHANGED <<features, has, needs_comma, flags, wrote, declared>>

Written == pc = Len(program) + 1

cgltf_write ==
    \/ cgltf_write_line \/ Property \/ NoMoreProperties \/ Extensions \/ SetFlag
    \/ SetRequired \/ Branch \/ ExtensionsUsed \/ ExtensionsRequired \/ End

-----------------------------------------------------------------------------
\* The text is JSON as far as it goes, and at the end it is all there.
WellFormed == text # Malformed /\ (Written => text = EndOfText)

\* No extension of a material comes after the unlit one.
UnlitIsLast ==
    "KHR_materials_unlit" \in features =>
        features \intersect {"KHR_materials_emissive_strength", "KHR_materials_iridescence",
            "KHR_materials_diffuse_transmission", "KHR_materials_anisotropy",
            "KHR_materials_dispersion"} = {}

\* Every value is printed as one.
AllIsQuoted == features \intersect Unquoted = {}

\* Whatever a document has and leaves out, the one flag that thirty functions set
\* and clear puts a comma between any two members and elements, and nowhere else;
\* but for the object of KHR_materials_unlit, behind which it is not set, and as
\* long as what stands between the commas is JSON.
JsonIsWritten == UnlitIsLast /\ AllIsQuoted => WellFormed

\* "`cgltf_write` ... writes JSON into the given memory buffer"
\* (cgltf_write.h:24-26), of any document, whose extras "can be arbitrary JSON data"
\* (cgltf.h:90).
TextIsJson == WellFormed

\* A glTF file must list the extensions it uses.  Flags are set far from where
\* the objects are printed, and the list far from both: the written list names
\* exactly the extensions that have an object somewhere in the text, and none is
\* required that is not listed.
ExtensionsDeclared ==
    Written => declared = wrote /\ required_extension_flags \subseteq declared
=============================================================================
