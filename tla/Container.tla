----------------------------- MODULE Container -----------------------------
(***************************************************************************)
(* cgltf_write_file of src/libs/cgltf/cgltf_write.h with the GLB container *)
(* it makes, and the part of cgltf_parse in src/libs/cgltf/cgltf.h that    *)
(* takes a container apart, composed: what Writer has printed is written   *)
(* to a file, and a file, this one or any other, is parsed.                *)
(*                                                                         *)
(* A file has a size and 32-bit words at some offsets; the other bytes are *)
(* payload.  Magic numbers, versions and chunk types are words as well.    *)
(* What is written may be cut short: no result of fwrite is looked at.     *)
(***************************************************************************)
EXTENDS Writer

CONSTANTS
    Uint32,         \* one more than the largest 32-bit number
    Lengths,        \* the sizes of a JSON text and of a bin chunk
    Foreign         \* files that something else has written: [size, words]

ASSUME Uint32Assumption == Uint32 \in Nat \ {0} /\ Lengths \subseteq Nat

ASSUME ForeignAssumption ==
    \A f \in Foreign : f.size \in Nat /\ \A o \in DOMAIN f.words : f.words[o] \in Nat

VARIABLES
    stage,          \* where the write, and then the parse, is
    buffer,         \* the text of the second pass is allocated
    content,        \* what is to be written: JSON size, data->bin or not, bin_size
    file,           \* the file
    type,           \* fixed_options.type
    reads,          \* the offsets of the words cgltf_parse has read
    json_length,
    chunks,         \* the chunks found: <<offset, length>>, or none
    result          \* what cgltf_write_file, then cgltf_parse, has returned

fileVars == <<stage, buffer, content, file, type, reads, json_length, chunks, result>>
vars == <<writerVars, fileVars>>

GlbHeaderSize == 12
GlbChunkHeaderSize == 8
GlbVersion == 2
GlbMagic          == 1179937895    \* 0x46546C67
GlbMagicJsonChunk == 1313821514    \* 0x4E4F534A
GlbMagicBinChunk  == 5130562       \* 0x004E4942

NoChunk == <<0, 0>>
NoFile  == [size |-> 0, words |-> << >>]

Init ==
    /\ PrintInit
    /\ stage = "print" /\ buffer = FALSE
    /\ content = [json |-> 0, has_bin |-> FALSE, bin |-> 0]
    /\ file = NoFile /\ type = "invalid" /\ reads = {} /\ json_length = 0
    /\ chunks = [json |-> NoChunk, bin |-> NoChunk] /\ result = "none"

cgltf_write_prints == stage = "print" /\ cgltf_write /\ UNCHANGED fileVars

-----------------------------------------------------------------------------
\* The context of cgltf_write is a local variable.
Forgotten ==
    /\ features' = {} /\ has' = {} /\ pc' = 0 /\ needs_comma' = FALSE
    /\ text' = StartOfText /\ extension_flags' = {} /\ required_extension_flags' = {}
    /\ wrote' = {} /\ declared' = {}

(***************************************************************************)
(* cgltf_write_file.  Its first pass has measured the text when it         *)
(* allocates the buffer, and the second has printed it; nobody checks      *)
(* whether there is a buffer, and without one the program ends.            *)
(***************************************************************************)
AllocateText ==
    /\ stage = "print" /\ Written /\ Forgotten
    /\ \/ stage' = "open" /\ buffer' = TRUE /\ UNCHANGED result
       \/ stage' = "aborted" /\ result' = "aborted" /\ UNCHANGED buffer
    /\ UNCHANGED <<content, file, type, reads, json_length, chunks>>

\* When the file cannot be created the buffer is kept.
OpenFails ==
    /\ stage = "open"
    /\ stage' = "aborted" /\ result' = "file_not_found"
    /\ UNCHANGED <<writerVars, buffer, content, file, type, reads, json_length, chunks>>

Padded(n) == n + (IF n % 4 # 0 THEN 4 - (n % 4) ELSE 0)

\* A mutant: the length of the first chunk is that of the text alone.
UnpaddedLength(c) == c.json % Uint32

JsonChunkLength(c) == Padded(c.json) % Uint32

HasBinChunk(c) == c.has_bin /\ c.bin > 0

BinOffset(c) == GlbHeaderSize + GlbChunkHeaderSize + Padded(c.json)

TotalSize(c) ==
    BinOffset(c) + (IF HasBinChunk(c) THEN GlbChunkHeaderSize + Padded(c.bin) ELSE 0)

cgltf_write_glb(c) ==
    LET bin == IF HasBinChunk(c) THEN {BinOffset(c), BinOffset(c) + 4} ELSE {}
    IN  [size  |-> TotalSize(c),
         words |-> [o \in {0, 4, 8, 12, 16} \union bin |->
            CASE o = 0  -> GlbMagic
              [] o = 4  -> GlbVersion
              [] o = 8  -> TotalSize(c) % Uint32
              [] o = 12 -> JsonChunkLength(c)
              [] o = 16 -> GlbMagicJsonChunk
              [] o = BinOffset(c) -> Padded(c.bin) % Uint32
              [] OTHER  -> GlbMagicBinChunk]]

\* A text file has no words; what is in front of a text is no magic.
PlainFile(c) == [size |-> c.json, words |-> << >>]

\* The file is created and written, all of it or not, closed, the buffer freed.
WriteFile ==
    /\ stage = "open"
    /\ \E json \in Lengths \ {0}, bin \in Lengths, has_bin \in BOOLEAN, glb \in BOOLEAN :
          LET c == [json |-> json, has_bin |-> has_bin, bin |-> bin]
              whole == IF glb THEN cgltf_write_glb(c) ELSE PlainFile(c)
          IN  /\ content' = c
              /\ \E size \in {whole.size} \union {n \in Lengths : n < whole.size} :
                    file' = [whole EXCEPT !.size = size]
    /\ stage' = "file" /\ buffer' = FALSE /\ result' = "success"
    /\ UNCHANGED <<writerVars, type, reads, json_length, chunks>>

\* A file from elsewhere.
ForeignFile ==
    /\ stage = "print" /\ pc = 1 /\ features = {}
    /\ file' \in Foreign /\ stage' = "file"
    /\ UNCHANGED <<writerVars, buffer, content, type, reads, json_length, chunks, result>>

-----------------------------------------------------------------------------
(***************************************************************************)
(* cgltf_parse, up to cgltf_parse_json.                                    *)
(***************************************************************************)
\* The word at an offset; where the file has none, some bytes of a payload.
Word(o) == IF o \in DOMAIN file.words THEN file.words[o] ELSE 0

Returns(r) ==
    /\ stage' = "returned" /\ result' = r
    /\ UNCHANGED <<writerVars, buffer, content, file, type, json_length, chunks>>

cgltf_parse ==
    /\ stage = "file"
    /\ \E given \in {"invalid", "gltf", "glb"} :
          IF file.size < GlbHeaderSize
            THEN Returns("data_too_short") /\ UNCHANGED reads
          ELSE IF Word(0) # GlbMagic /\ given = "glb"
            THEN Returns("unknown_format") /\ reads' = {0}
          ELSE /\ reads' = {0}
               /\ type' = IF Word(0) # GlbMagic THEN "gltf" ELSE given
               /\ stage' = IF type' = "gltf" THEN "text" ELSE "header"
               /\ UNCHANGED <<writerVars, buffer, content, file, json_length, chunks, result>>

\* A text goes to cgltf_parse_json as it is.
ParseText ==
    /\ stage = "text"
    /\ chunks' = [chunks EXCEPT !.json = <<0, file.size>>]
    /\ stage' = "returned" /\ result' = "success"
    /\ UNCHANGED <<writerVars, buffer, content, file, type, reads, json_length>>

Reads(offsets) == reads' = reads \union offsets

ParseHeader ==
    /\ stage = "header"
    /\ IF Word(4) # GlbVersion
         THEN Reads({4}) /\ Returns(IF Word(4) < GlbVersion THEN "legacy_gltf" ELSE "unknown_format")
       ELSE IF Word(8) > file.size
                  \/ GlbHeaderSize + GlbChunkHeaderSize > file.size
         THEN Reads({4, 8}) /\ Returns("data_too_short")
       ELSE /\ Reads({4, 8}) /\ stage' = "json_chunk"
            /\ UNCHANGED <<writerVars, buffer, content, file, type, json_length, chunks, result>>

ParseJsonChunk ==
    /\ stage = "json_chunk"
    /\ IF Word(12) > file.size - GlbHeaderSize - GlbChunkHeaderSize
         THEN Reads({12}) /\ Returns("data_too_short")
       ELSE IF Word(16) # GlbMagicJsonChunk
         THEN Reads({12, 16}) /\ Returns("unknown_format")
       ELSE /\ Reads({12, 16}) /\ stage' = "bin_chunk"
            /\ json_length' = Word(12)
            /\ chunks' = [chunks EXCEPT !.json = <<GlbHeaderSize + GlbChunkHeaderSize, Word(12)>>]
            /\ UNCHANGED <<writerVars, buffer, content, file, type, result>>

\* What is left of the file behind the first chunk.
Left == file.size - GlbHeaderSize - GlbChunkHeaderSize - json_length

\* A second chunk is there when its header is; if not, the document has no bin.
ParseBinChunk ==
    LET bin_chunk == GlbHeaderSize + GlbChunkHeaderSize + json_length
    IN  /\ stage = "bin_chunk"
        /\ IF GlbChunkHeaderSize > Left
             THEN UNCHANGED reads /\ Returns("success")
           ELSE IF Word(bin_chunk) > Left - GlbChunkHeaderSize
             THEN Reads({bin_chunk}) /\ Returns("data_too_short")
           ELSE IF Word(bin_chunk + 4) # GlbMagicBinChunk
             THEN Reads({bin_chunk, bin_chunk + 4}) /\ Returns("unknown_format")
           ELSE /\ Reads({bin_chunk, bin_chunk + 4})
                /\ chunks' = [chunks EXCEPT !.bin =
                                 <<bin_chunk + GlbChunkHeaderSize, Word(bin_chunk)>>]
                /\ stage' = "returned" /\ result' = "success"
                /\ UNCHANGED <<writerVars, buffer, content, file, type, json_length>>

Next ==
    \/ cgltf_write_prints \/ AllocateText \/ OpenFails \/ WriteFile \/ ForeignFile
    \/ cgltf_parse \/ ParseText \/ ParseHeader \/ ParseJsonChunk \/ ParseBinChunk

Spec == Init /\ [][Next]_vars
-----------------------------------------------------------------------------
\* Whatever lengths a file names, no word is read behind its end, and the chunks
\* that the document is made of lie in it, one behind the other.
ChunksInside ==
    /\ \A o \in reads : o + 4 <= file.size
    /\ stage = "returned" /\ result = "success" =>
          /\ chunks.json[1] + chunks.json[2] <= file.size
          /\ chunks.bin # NoChunk =>
                /\ chunks.json[1] + chunks.json[2] <= chunks.bin[1]
                /\ chunks.bin[1] + chunks.bin[2] <= file.size

\* What cgltf_write_glb has made of a text and a bin chunk comes back as the text
\* and its spaces, and the bin chunk and its zeros, at the places they were
\* written to; and when the file has been cut short, it is not taken for another
\* one.  (As long as the sizes fit into the words of a GLB, and cgltf_parse is not
\* told that the file is a text.)
GlbComesBack ==
    stage = "returned" /\ content.json > 0 /\ file.words # << >>
    /\ TotalSize(content) < Uint32 /\ type # "gltf" =>
        IF file.size < TotalSize(content)
          THEN result # "success"
          ELSE /\ result = "success"
               /\ chunks.json = <<GlbHeaderSize + GlbChunkHeaderSize, Padded(content.json)>>
               /\ chunks.bin = IF HasBinChunk(content)
                                 THEN <<BinOffset(content) + GlbChunkHeaderSize,
                                        Padded(content.bin)>>
                                 ELSE NoChunk

\* Both: what is read lies in the file, and what was written is what is read.
ContainerIsRight == ChunksInside /\ GlbComesBack
=============================================================================
