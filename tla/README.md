# A TLA+ verification of zcgltf

zcgltf is a Zig binding of cgltf 1.15, a single-header C library that parses,
loads, validates, reads and writes glTF 2.0 documents. The C code
(`libs/cgltf/cgltf.h`, `libs/cgltf/cgltf_write.h`) is vendored verbatim and
does the work; the Zig code (`src/*.zig`) supplies memory and file hooks,
wraps the entry points in error unions and slices, and checks that the layout
of the C structs is the one it declares.

This directory holds TLA+ modules translated from that code, the TLC
configurations that check them on small instances, and TLAPS proofs of the
properties that matter most, for every value of the constants. Paths below are
relative to the repository; `cgltf.h:n` is `libs/cgltf/cgltf.h`, line n.

    tlc -config MCDocument.cfg Document.tla      (likewise for the other runs)
    tlapm DocumentProofs.tla                     (likewise for the other proofs)

## 1. The system

Nothing in it runs concurrently: the library has no threads, locks or global
state, and every entry point runs to its return. What makes it hard is
elsewhere. Memory comes and goes through callbacks that can fail at every
call; a failure in the middle of a parse leaves a half-built graph that one
function, `cgltf_free`, must take apart; a block is freed in another call than
the one that allocated it, through a hook picked by a recorded method; indices
of an untrusted file become pointers; and the loops over that graph must end
whatever the file says.

| Component | Source | State | Operations | What makes it correct |
|---|---|---|---|---|
| memory adapter | `src/memory.zig` | lent slices, a length word in front of each | `memoryOptions`, `zigAlloc`, `zigFree`, `freeThrough` | malloc and free to cgltf; every slice back to the Zig allocator with its exact length |
| file readers | `src/file.zig`, cgltf.h:1039-1107 | open file, buffer, two outputs | `zigRead`, `zigRelease`, `cgltf_default_file_read` | a complete buffer or nothing, nothing left open or allocated |
| document lifecycle | `src/document.zig`, cgltf.h:1111-1546, 1846-2130, 6543-6620 | `cgltf_data`, the blocks it owns, `data_free_method` | `parse`, `parseFile`, `loadBuffers`, `free` | no leak, each block freed once by the right hook, data that a user reaches is there |
| node hierarchy | cgltf.h:1747-1768, 2175-2210, 6750-6791 | children, parents, scene roots | fixup of the node pointers, `validate`, `nodeTransformWorld` | one tree seen from both directions; cycles found; walks that end |
| JSON tokenizer | cgltf.h:6840-7175 (jsmn) | token array, cursor, super token | count pass, fill pass | both passes see the same tokens; the sentinel has room |
| JSON object parser | cgltf.h:2703-6541 | the objects under `cgltf_data` | one `cgltf_parse_json_*` per object | whatever fails, `cgltf_free` reaches what was allocated and nothing else |
| GLB container | cgltf.h:1111-1241, cgltf_write.h:1204-1243 | header and chunk cursors | read, write | no read past the end; what is written is read back |
| other pointer fixup | cgltf.h:6624-6748, 6793-6806 | references between objects | `cgltf_fixup_pointers` | every reference in range or an error |
| other validation | cgltf.h:1592-1745, 1770-1798 | none | `validate` | after success the readers stay inside the buffers |
| accessor readers | cgltf.h:2212-2689, `src/access.zig` | none | `readFloat`, `readUint`, `readIndex`, `unpackFloats`, `unpackIndices` | inside the view and inside `out`, sparse elements included |
| decoders | cgltf.h:1320-1476 | a buffer rewritten in place | `decodeString`, `decodeUri`, base64 | output never overtakes input |
| writer | `cgltf_write.h`, `src/writer.zig` | output cursor, indentation | `writeAlloc`, `writeFile` | the size of the first pass is what the second one needs |
| node transforms | cgltf.h:2132-2210 | none | `nodeTransformLocal`, `nodeTransformWorld` | products of matrices |
| ABI checks, declarations | `src/abi_check.zig`, `src/c/` | none | compile time | the two layouts agree |
| build, CI, tests | `build.zig`, `ci/`, `tests/` | none | | |

How they interact: `src/document.zig` calls the C entry points. These call
back `alloc_func`/`free_func` (the memory adapter, or malloc) and
`file.read`/`file.release` (the file readers, which allocate through the same
memory options, or the user's own). The parser runs the container, the
tokenizer twice, the object parser, then the pointer fixup; every failure
after the `cgltf_data` exists goes through `cgltf_free`. `loadBuffers` reuses
the options it is given, which need not be those of the parse, while `free`
uses those recorded in the document. Between calls the user may change the
document: decode a compressed view and store the bytes in `view.data` (the
pairing of README.md:289-315), fill a buffer, or set a node's parent.

## 2. The modules

| Module | Models | Checked by | Proved in |
|---|---|---|---|
| `Malloc` | what cgltf expects of `alloc_func` and `free_func` | | |
| `MemoryAdapter` | `src/memory.zig` and the C allocator behind the same options | run `memory` | `MemoryAdapterProofs` |
| `MCMemoryAdapter` | the sizes of that run | | |
| `FileReader` | one call of either read hook | run `filereader` | `LoadBufferProofs` |
| `Strings` | the scan of JSON strings, the decoders, paths and base64 | | `LoadBufferProofs` |
| `LoadBuffer` | the calls that use them, `cgltf_load_buffer_file` over `FileReader` among them | run `filereader` | `LoadBufferProofs` |
| `DocumentContract` | what a user relies on in parse, load and free | | |
| `Document` | the calls themselves, step by step | run `document` | `DocumentProofs` |
| `NodeGraph` | node fixup, the checks of validate on nodes and scenes, the walk | run `nodes` | `NodeGraphProofs` |
| `Ownership` | the object parser as it stores memory, and `cgltf_free` | runs `ownership`, `ownership_free` | `OwnershipProofs` |
| `JsonText` | what JSON is, the reference of the next two and of `Writer` | | |
| `Jsmn` | the tokenizer | | |
| `ParseJson` | `cgltf_parse_json`: both passes of `Jsmn`, and the object parser as it walks over the tokens | run `parse_json` | `ParseJsonProofs` |
| `Accessor` | the accessor readers, and `cgltf_validate` as far as they rely on it | runs `accessor`, `accessor_prefix`, `accessor_sparse` | `AccessorProofs` |
| `Writer` | `cgltf_write` | runs `writer`, `writer_json` | `ContainerProofs` |
| `Container` | `cgltf_write_file` over `Writer`, and the container part of `cgltf_parse` | run `writer` | `ContainerProofs` |
| `MCLoadBuffer`, `MCParseJson`, `MCAccessor`, `MCContainer` | the texts, documents and files of those runs | | |

### MemoryAdapter

`zigAlloc` puts a header in front of each block and stores the block's length
in the header's first word; `zigFree` has only a pointer, and reads that word
back. State: the slices the Zig allocator has lent (`blocks`), the words that
addresses hold (`word`, where any write that overlaps a word leaves
`Garbage`), and the regions cgltf holds (`handed`). `hooked` chooses, once,
between the adapter and options without hooks (malloc). The allocator may
place a block anywhere it fits, or fail; `UserWrite` is cgltf writing any byte
of a region it holds. The allocator's lack of memory and an addition that
overflows are both a null return, which changes nothing and is not a step.

`MallocContract` is the refinement: through the mapping `handed`, the adapter
is `Malloc`, whose regions are fresh, aligned and share no byte.

### FileReader

One call, by `zigRead` or by `cgltf_default_file_read` (`reader`), with a
requested size or 0 for the whole file. Each step that can fail does, and each
failing path of the code has its own closing and freeing, so that one of them
could forget it: `cMeasure`, `cAlloc` and `cCompare` call `fclose` or `free`
themselves, `zigReadLoop` and `zigCompare` free and leave the closing to the
`defer` that ends the function (`zigClose`). `files` and `buffers` count what is
held, so that closing twice shows as well. `Resize`
is another process changing the file's length at any moment. The Zig loop
reads one to all of the bytes that are there (`zigReadLoop`); the C reader
calls `fread` once (`cRead`). The comment at `src/file.zig:49` calls a
non-null size a cap; the code asks for exactly that many bytes, and so does
the model.

### Strings and LoadBuffer

`Strings` has characters as codes, any byte but NUL, and a string as what lies in
memory from its first byte to its NUL. The decoders make one step for each round of
their loops (`DecodeEscape`, `DecodeCharacter`) in the string they still read; base64
makes one for each character it reads (`ReadCharacter`) and each byte it writes
(`WriteByte`), over an unsigned int of any width that keeps the bits (`Uint`). What
has no state is an operator: `jsmn_parse_string`, which decides what may come to
`cgltf_decode_string` at all, and `cgltf_combine_paths`.

`LoadBuffer` has the calls: `decodeString` and `decodeUri` of `src/document.zig`,
`loadBufferBase64`, and `cgltf_load_buffer_file`, which allocates a path, combines
it, decodes its tail, runs a reader of `FileReader` to its end and frees the path.
The reader's steps are those of `FileReader`, another process's included.

### Document and DocumentContract

`Document` has one action per place of the code where something is allocated,
read, checked or freed, in the code's order. `heap` keeps for each block the
hook that allocated it; `Release` compares it with the hook the code calls and
records a difference in `misfree`. `input` fixes what the file contains (the
kind of each buffer's uri, whether there is a bin chunk and how long) and how
it is opened. A call ends in `Return`. What the object parser allocates is one
block, `Objects`, and every error of the parser, of the fixup and of the
container is one choice of its result: which inputs lead to which is the
subject of other modules.

`CallLoad` may be given other options than the parse (`mixed`): the code
allows it, and then frees blocks through the wrong hook. `NoMisfree` is stated
for documents whose loads had the document's options; that is the condition under
which the code is right, and the repository's documentation does not state it.

`DocumentContract` is the promise: parse makes a document or leaves nothing,
load fills buffers and empties none, free leaves nothing. `Contract` is the
refinement with `doc <- handle`, `filled` the buffers with data and `holds`
whether any block is allocated.

### NodeGraph

Nodes are 1..N, NULL is 0, as `CGLTF_PTRINDEX` stores it. The indices of a
file are chosen as the fixup meets them (missing, any node, too large), so
that `children` and `roots` hold the entries that are pointers already. Each
step is one entry, one node or one step of a while loop. `UserSetsParent` gives
one node any parent, which makes `validate` meet parents that no parse sets.
Failures of the other references, of the other checks of `validate`, and
everything before and after are one choice each.

### Ownership

What `Document` calls the block `Objects`, taken apart. The parser is some
forty recursive functions that store what they allocate straight into the
half-built graph, and `cgltf_free` is one long walk written by hand against the
same structs. Each is a table here, translated from its own code: `Parses` (with
`Knows`, the extensions an object recognises by name) says what each
`cgltf_parse_json_*` stores and with which helper; `Frees` says what
`cgltf_free` releases of each struct. One machine runs the first: `stack` holds
the functions that have not returned, `Key`, `NextElement`,
`UnprocessedExtension` and `KnownExtension` are their loops, and the helpers
(`ParseString`, `ParseArray`, `ParseAttributeList`, ...) keep the order in which
the code checks, counts, allocates and stores. A place names a pointer by the path
to it, and `Reaches` is the walk of `cgltf_free` over the counts and flags as
they are. Any function may give up at any moment (`Malformed`).

Keys that store no memory are left out, and with them the extensions of materials
and textures that hold only numbers and texture views: they change nothing but by
failing.

### JsonText, Jsmn and ParseJson

`Jsmn` is the tokenizer over a text of lexemes: a bracket, a colon, a comma, a
whole string or primitive, or `bad`, which both passes refuse. `CountLexeme` is
the pass without tokens, which looks at no bracket; the other actions are the pass
that fills them, with the search for what a closing bracket closes one step at a
time (`CloseBracket`, `CloseParent`, `CloseOpen`, `CloseNothing`). jsmn accepts
much that is not JSON, so `JsonText`, a pushdown automaton, says independently what
is.

`ParseJson` runs it as `cgltf_parse_json` does, with a count of the caller's or its
own, and then walks. The forty `cgltf_parse_json_*` functions move one index over
the tokens in a few shapes: a loop over so many keys, the value of a key, a loop
over elements that are checked, a loop over scalars that are not, a value to skip.
`frames` is the stack of those loops. Which function is called for which value is
left open, so that the model walks any text with any functions, in more ways than
the code can. What they store is `Ownership`.

### Accessor

A document of one primitive with an attribute, which may be sparse, and indices;
four views, each loaded, decoded by the user, or neither. `cgltf_validate` is
there with the checks of accessors, views and indices in their order, and with
what each reads on the way (`ValidateReads`). The readers compute addresses; what
a call leaves in `call` is the addresses it has read and, for each place of `out`
it has written, the address the value came from. `size_t` wraps at `Usize`. Which
component types a reader converts is part of it (`ReadsAsFloat`, `ReadsAsUint`): the
others become 0 and nothing is read for them (`From`). What number comes of a component that is
converted is not.

### Writer and Container

`Writer` has the thirty functions of `cgltf_write` as sequences of steps, each a
line with its lexemes, a property, an extension flag, a condition or a repetition;
`program` is all of them in line, and the actions run it over any document that
uses the extensions in `features`. A property has any JSON value, and what the code
prints without making it one (`Unquoted`): extras that were a string, which the parser
keeps without its quotes, and a number of the file, such as 1e39, that is infinite as a
`cgltf_float`. `needs_comma` and the two flag words are those
of the code.

`Container` composes it with `cgltf_write_file`: the text is printed, measured
and written, as it is or in a GLB, all of it or only a beginning, because no
result of `fwrite` is looked at. `cgltf_parse` then takes that file, or one from
elsewhere with any words, apart. Both run in one state space, the second after
the first.

## 3. What the runs check

| Run | Module, constants | Distinct states | Properties |
|---|---|---|---|
| `memory` | `MCMemoryAdapter`, heap of 13, header 2, usize up to 17 | 1 977 | `TypeOK`, `LentIsHanded`, `HeaderIntact`, `NoBadFree`, `MallocContract` |
| `filereader` | `MCLoadBuffer`, files up to 4, usize up to 3, 2 resizes, texts of 5 characters and all escapes around the limits of UTF-8 | 74 431 | `TypeOK`, `NothingLeftBehind`, `OnlyCompleteReads`, `DecodersAreRight`, `CallsComeBack` |
| `document` | `Document`, 2 buffers, 1 decoded view | 921 012 | `TypeOK`, `NoLeak`, `NoMisfree`, `DataIsThere`, `FreeReadsTheDocument`, `LoadFillsUris`, `LoadedStays`, `CallsReturn`, `Contract` |
| `nodes` | `NodeGraph`, 4 nodes, 2 roots | 1 826 884 | `TypeOK`, `Hierarchy`, `ScenesReachNoCycle`, `ValidateIsRight`, `CallsReturn` |
| `ownership` | `Ownership`, 7 blocks, arrays of 2, 2 fields an object | 1 625 709 | `TypeOK`, `Owned`, `NothingLeaks`, `HeldIsComplete`, `FailureShows` |
| `ownership_free` | `Ownership`, the same | (violation) | `FreeCompletes` |
| `parse_json` | `MCParseJson`, JSON of 11 lexemes and one off | 756 975 | `TypeOK`, `PassesAgree`, `WalkStaysInside`, `JsonIsWalkedInStep`, `ParseReturns` |
| `accessor` | `MCAccessor`, usize of 128 | 2 669 018 | `ReadsInside`, `ReadersAreRight`, `IndicesNameVertices` |
| `accessor_prefix` | `MCAccessor`, the same | (violation) | `OnlyThePrefixIsWritten` |
| `accessor_sparse` | `MCAccessor`, the same | (violation) | `SparseValuesArePacked` |
| `writer` | `MCContainer`, any two extensions or one of what is unquoted, 32-bit numbers of 64 | 496 753 | `JsonIsWritten`, `ExtensionsDeclared`, `ContainerIsRight` |
| `writer_json` | `MCContainer`, any two extensions | (violation) | `TextIsJson` |

What the less obvious ones say:

- `HeaderIntact` and `NoBadFree`: the word `zigFree` trusts survives every
  write and every coming and going of other blocks, and the slice given back is
  one that was lent, whole.
- `NothingLeftBehind`: by whichever of its paths a reader returns, it has closed the
  file once, and freed the buffer unless it returns it.
- `OnlyCompleteReads`: no byte of a returned buffer is uninitialised, although
  reads are short and the file changes after it was measured.
- `DecodersAreRight`: no decoder writes over what it has still to read or goes behind
  the NUL (`InPlace`), and what it leaves stands for the same characters, by a
  reference that reads the UTF-8 back; only the tail of a path is decoded, not the
  directory (`DecodedIsGiven`); base64 is refused exactly when the text has too little
  of it, and each byte loaded is the right one (`BytesAreGiven`). It rests on `jsmn_parse_string`: a JSON string with an escape
  cut short by its quote would be read past its end.
- `NoLeak`, `FreeReadsTheDocument`: a parse that fails at any of its steps
  gives back the tokens, the objects, the `cgltf_data` and the file's bytes, in
  an order in which nothing is read after it is freed.
- `LoadedStays`, `LoadFillsUris`: a load that fails halfway and is retried, with
  the user filling buffers between, neither reloads nor re-marks a buffer, and a
  success leaves no buffer with a uri empty.
- `Hierarchy`: the lists of children and the parents describe one tree, and no
  node is listed twice, whatever a file lists.
- `ScenesReachNoCycle`: a parsed document may hold a cycle of nodes, but no
  scene leads to one, because roots are checked after all parents are set. A
  traversal of the scenes ends without `validate`.
- `ValidateIsRight`: the two-pointer loop succeeds only without a cycle and
  reports only a cycle that is there, for any parents.
- `CallsReturn` of `NodeGraph`: the parse and `validate` return on any parents,
  cycles included; the walk of `nodeTransformWorld` does on a document that
  `validate` accepted. On a cycle it does not end; nothing in the repository says
  it would.
- `Owned`: at every moment of a parse, and so wherever it gives up,
  `cgltf_free` would come to every block stored so far, through counts that are
  already large enough and flags that are already up; and no pointer to a live
  block was overwritten. `NothingLeaks` is what follows when it runs.
- `HeldIsComplete`: a document handed to the user has every array its counts
  speak of, and its attributes, strings and extensions have their names.
- `FailureShows`: a failed allocation ends the parse with an error, except that of
  variant mappings, whose result nobody checks. When the extension is read again
  under a second "mappings" key, or the array has no elements, the parse succeeds.
  And a count over a null pointer exists only after a failed allocation of an
  attribute list or of variant mappings: every other function sets the count with
  the array (`OnlyTwoCountFirst`).
- `PassesAgree`: the pass that fills tokens needs those that the pass without
  tokens has counted, although only one of them looks at brackets, and one of them
  sees errors the other does not.
- `WalkStaysInside`: none of the parse functions compares its index with the
  number of tokens. They stay inside on any text, brackets closed wrongly, keys
  without values and counts of the caller's included, because a size counts tokens
  that are there and because one token of no type stands behind the last.
- `JsonIsWalkedInStep`: on JSON, whatever is called for whatever value and however
  deep `cgltf_skip_json` goes, the next token belongs to the loop that reads it,
  and at the end none is left. The exception is a scalar read where the text has an
  object or an array (`strayed`): the code moves on by one token, into it.
- `ReadsInside`: after `cgltf_validate` has succeeded no reader, and no second
  validate, reads outside of a view or of the buffer it lies in, be it sparse,
  strided, decoded or without a view. It is stated where the sums and
  products of the file's numbers do not wrap (`NothingWraps`), and where the values of a sparse part have
  the stride the reader takes for them (`ValuesArePacked`): the code checks
  neither.
- `ReadersAreRight`: whichever function reads, each place of `out` has the
  component the glTF layout puts there. It is stated under the same two conditions, and
  for component types the reader has a conversion for (`HasConversion`): not for
  floats read by `readUint`, nor for normalized 32-bit integers, for which "glTF spec doesn't
  currently define normalized conversions" (cgltf.h:2257) and 0 is written.
- `IndicesNameVertices`: the indices of a validated primitive are below the count
  of its vertices, if they were loaded at the time and not decoded since.
- `JsonIsWritten`: one flag, which thirty functions set and clear, puts commas
  where JSON has them, whatever a document has and leaves out, but for what follows the object of the unlit
  extension (`UnlitIsLast`) and what is printed unquoted (`AllIsQuoted`).
- `ExtensionsDeclared`: `extensionsUsed` lists the extensions that have an object
  in the text, and what is required is listed.
- `ContainerIsRight`: whatever lengths a GLB names, no word is read behind the end
  of the file and no chunk leaves it (`ChunksInside`); and what was written is read
  back at the places it was written to, or refused when the file was cut short
  (`GlbComesBack`).

### The findings

`ownership_free` is violated. cgltf.h:34-35 says that "`cgltf_free` frees the
allocated `cgltf_data` variable". `cgltf_parse_json_attribute_list` stores
`attributes_count` before it allocates (cgltf.h:2928-2934), and
`cgltf_parse_json_material_mappings` stores `mappings_count` likewise and does
not check the answer (3228-3232). When that allocation fails, `cgltf_parse_json`
calls `cgltf_free`, whose loop over the count reads elements of a null array, and
the program ends before the memory is freed. The shortest behaviour is a mesh
with one primitive with one attribute, and an allocator that refuses the array.

`accessor_prefix` is violated. `src/access.zig:97-98` says of `unpackIndices` that
it "Unpacks single-component values into `out` (`T` one of u8/u16/u32/u64);
returns the written prefix." `cgltf_accessor_unpack_indices` widens into elements
of two and of four bytes; for one and for eight bytes, with indices of another
size, the default branch of its switch (cgltf.h:2684) leaves `out` alone, and the
count is returned all the same. The shortest behaviour loads two byte indices and
unpacks them as u64.

`accessor_sparse` is violated. `cgltf_validate` takes the values of a sparse part to lie
one after the other: "`values_req_size = sparse->values_byte_offset + element_size *
sparse->count`" (cgltf.h:1616). The sparse pass of `cgltf_accessor_unpack_floats` steps
through them with the stride of the base view (cgltf.h:2436). When that is not the size
of an element, from the second value on it takes others than those that were checked.
`ValuesArePacked` is the condition under which both agree. The shortest behaviour unpacks
two elements of two bytes whose base view has a stride of three; the second value is taken
one byte too far on, and ends behind what was checked.

`writer_json` is violated. cgltf_write.h:24-26 says of `cgltf_write` that it "writes
JSON". The object of `KHR_materials_unlit` is printed as one line
(cgltf_write.h:780), which begins with a quote and ends with a brace, so
`cgltf_write_line` leaves `needs_comma` at 0 and the next extension of the same
material follows without a comma. The shortest behaviour is an unlit material with
an emissive strength.

### Other places where code and words differ

Met on the way and not the subject of a run:

- extras that are a string lose their quotes. cgltf.h:90 says that extras "can be
  arbitrary JSON data"; `cgltf_parse_json_extras` copies the bytes of their token
  (cgltf.h:2964-2975), for a string those between the quotes (cgltf.h:6940), and `cgltf_write_extras`
  prints them behind the colon as they are (cgltf_write.h:246, and 256-257 when only the
  offsets are known). A document the parser accepts is then written as one it refuses.
  `TextIsJson` is violated this way too, when `MCContainerJson.cfg` has
  `Features = {{"string_extras"}}`; the proof of `JsonIsWritten` excludes it by
  `AllIsQuoted`. A number that overflowed to infinity is printed as "inf", which
  `Features = {{"infinite_number"}}` shows.
- `readUint` of an accessor of floats returns true with zeros in `out`:
  `cgltf_component_read_uint` has no case for floats, and its default gives 0
  (cgltf.h:2470). `src/access.zig:50-51` says that "float-sourced accessors are
  refused". Only matrices and sparse accessors are. `HasConversion` excludes it.
- `src/document.zig:59-61` says that `loadBuffers` "Resolves every buffer ... Fills each
  `Buffer.data`". cgltf.h:1505-1508 passes over a buffer without a uri; unless it is the
  first of a GLB with a bin chunk, `loadBuffers` returns success and its data is null. The
  promise that does hold is `LoadFillsUris`.
- the sparse pass of `cgltf_accessor_unpack_floats` writes where the indices say, whatever the length of `out`
  (`src/access.zig:39` speaks of clamping); after a validate that has read the
  indices `out` of `count` elements is enough.
- `cgltf_calc_index_bound` reads the buffer also where `view.data` is set
  (cgltf.h:1550), which the readers prefer.
- a value wider than the elements of `unpackIndices` is refused (cgltf.h:2655), not
  "truncated" (`src/access.zig:98`).
- the writer prints "min_version" into the asset, and the parser looks for
  "minVersion".
- `cgltf_write_file` uses `fopen` and `malloc` whatever the options
  (`src/writer.zig:11` speaks of `options.file`), keeps the buffer when `fopen` fails,
  and checks neither `malloc` nor `fwrite`.

### The mutants

A definition whose comment begins "A mutant" is a wrong version of the
definition after it: a guard dropped, a step in the wrong order, something not
freed. No action uses it. `PROJECT.json` pairs each property with one of them,
and TLC finds the property violated when the wrong version takes the right
one's place, so that no property holds whatever the code does.

### The bounds

- Memory: thirteen addresses hold two blocks of different sizes, or six empty
  ones, so that blocks are reused, adjacent, and separated by gaps. Size 13 is
  refused by the allocator and 16 and 17 by the addition.
- File: a file of four with a usize up to three reaches the cast that fails; two
  resizes give shrinking then growing. Three short reads fit.
- Strings: all texts of up to five characters over quote, backslash, u, n and a
  digit, and for uris over %, two digits and a letter, hold every escape whole, cut
  short and next to another; all `\uXXXX` of the digits 0, 7, 8 and F lie on both
  sides of one, two and three bytes. Base64 of three bytes from four characters
  meets every remainder of bits.
- Document: two buffers are the first (which may be the bin chunk) and one that
  is not; a load can fail before, at and after a success. One view decides
  between decoded and not.
- Ownership: below the tokens and the `cgltf_data`, five more blocks hold the
  deepest chain of the tables: meshes, primitives, targets, attributes, a name.
  Two elements tell the first from the rest and show a count that is ahead of what
  is filled; two fields an object show one stored before and one after the
  other. One field of the root is enough, because objects of different root
  arrays share no memory; `asset` and the extensions of the root are among them.
- Parse: every JSON object of up to eleven lexemes, and each of them with one
  lexeme removed, replaced or put in: nesting of five, three members, keys without
  values, brackets that close the wrong thing or nothing. A count of the caller's of
  4 is too small for some texts, right for some and too large for others.
- Accessor: one kind of variation at a time of a small document: each type with
  each component size; the base view one byte around its limits, with strides and
  offsets that wrap; the sparse part around its own; the indices around theirs.
  Outputs of 0 to 18 elements end in, before and behind an element.
- Writer: commas depend on what two neighbours are, so any two extensions
  together meet every order of two objects. Sixty-four is small enough for the
  lengths of a GLB to wrap, and the files from elsewhere have every size around
  what their words say.
- Nodes: four nodes hold a cycle of one to four with tails of up to three, a
  scene with and without, and two entries of the scenes may be the same node.

The proofs remove the bounds of `MemoryAdapter`, `FileReader`, `LoadBuffer`, `Document`,
`NodeGraph`, `Ownership`, `ParseJson`, `Writer`, `Container` and `Accessor` for the safety
properties they cover.

### Fairness

Calls are sequential code that nothing suspends, so each specification assumes
weak fairness of the library's steps as a whole (`Library`, `CallStep`) and nothing
of the user, the file or the allocator. With it, `CallsReturn` and `CallsComeBack` say
that loops end, not that they are scheduled. `ParseReturns` needs the same for the steps of
`ParseJson`: that the search for a bracket goes down and the walk goes on.
`MemoryAdapter`, `Ownership`, `Accessor` and `Container` have no liveness: an adapter
call and a read are one step, and the objects of a document are finitely many.
Deadlock is not checked where the system really stops: a read that has returned,
a document that failed to parse.

## 4. What is proved

tlapm checks these for every value of the constants that the named assumptions
allow (`MemoryAssumption`: the comptime assertions of `src/memory.zig:26-33` and
a heap that fits a usize; `DocumentAssumption`, `NodeAssumption`: the counts are
natural numbers; `BoundsAssumption`: the bounds of `Ownership` are too, like those
of `FileReader` in `ReaderAssumption`; `LoadAssumption`: texts are of bytes other than
NUL; `UintAssumption`: an unsigned int has at least 14 bits; `TextsAssumption` and `GivenAssumption`:
texts are sequences of lexemes, and a count the caller gives is a natural number;
`Uint32Assumption`, `ForeignAssumption`: so are the sizes and the words of files;
`UsizeAssumption`, `DocumentsAssumption`, `OutsAssumption`: the fields of accessors
and views are of the types of their structs, a `cgltf_size` below `Usize`).

| Module | Theorems |
|---|---|
| `MemoryAdapterProofs` | `TypeCorrect`, `HeaderStaysIntact`, `FreeIsExact`, `LentStaysHanded`, `ImplementsMalloc` |
| `DocumentProofs` | `DocumentTypes`, `NothingLeaks`, `NothingMisfreed`, `DataStaysThere`, `FreeHasDocument`, `DataIsKept`, `UrisAreFilled`, `KeepsContract` |
| `LoadBufferProofs` | `ReaderTypes`, `FailuresLeaveNothing`, `ReadsAreComplete`, `DecodersInductive`, `DecodingIsCorrect` |
| `NodeGraphProofs` | `NodeTypes`, `HierarchyAgrees`, `ScenesAreTrees`, `VerdictIsRight` |
| `OwnershipProofs` | `OwnershipTypes`, `EveryBlockIsOwned`, `NothingIsLeaked`, `FailuresShow`, `HeldDocumentsAreComplete` |
| `ParseJsonProofs` | `ParserTypes`, `TokensSuffice`, `WalkIsInside`, `JsonInductive`, `JsonIsRead` |
| `ContainerProofs` | `TextStaysJson`, `ExtensionsStayDeclared`, `ContainersComeBack` |
| `AccessorProofs` | `DocumentsStaySound`, `ReadersStayInside`, `ValidatedIndicesNameVertices`, `ReadersFollowTheLayout` |

Each module states an inductive invariant (`IInv`; in `AccessorProofs` `Sound`, for the decoders `Decoding`), proves that the initial states
have it and, action by action, that steps keep it, and derives the rest from it.

- *MemoryAdapter.* That a free is exact needs the header to be intact, which
  needs regions not to overlap another block's header, which needs the lent
  slices to be those behind the regions and apart. All of it is one invariant.
  `ImplementsMalloc` then maps each step: placing a block clear of the lent
  slices gives a region clear of the others.
- *Document.* No property is inductive alone: that nothing leaks needs to know at
  every step which blocks are held (`SingleBlocks`, `BufferBlocks`,
  `ViewBlocks`); that a release names the right hook needs each buffer's
  method to agree with the hook its data came from, which a load keeps because
  it fills only empty buffers (`Loop`) and a parse because its document is
  blank (`Blank`).
- *NodeGraph.* Both halves of the verdict are proved with sets instead of paths.
  A trap is a set of nodes that walking up never leaves. p1 and p2 stay in every
  trap the node is in (`Pointers`), so a loop that ends at NULL shows the node
  is in none. p2 stays above p1 (`Above`: in every set that holds p1's parent and
  is closed upwards), so when they meet a node is above itself, and the nodes
  it is above are a trap (`AboveItself`). `ScenesAreTrees` needs no invariant of
  its own: outside a trap are all roots, and every child of a node outside it.
- *Ownership.* `Tables` compares the two tables row by row: what a parser
  function stores, `cgltf_free` looks for in the object it is stored in, in the
  shape it was given (`KnownTables` for the extensions). The invariant adds where
  the parser stands: every frame of the stack is at an object `cgltf_free`
  comes to, of a type whose rows agree, and a loop has its array below it
  (`FrameOK`). A new block is then one step further on a walk that exists
  (`GoodStep`), and the old walks remain because counts and flags of live arrays
  only grow (`GoodStays`). A parser function whose field `cgltf_free` does not
  know fails in `Tables`.
  A second invariant, `CInv`, over the first, says what the counts promise. An
  element of an array that is counted is filled, is being filled by a function on
  the stack, or waits for the loop over its array (`ElementsAccounted`); when the
  stack is empty only the first is left, which is `HeldIsComplete`. The steps that
  could break it are those which count an element before it is there, the two
  loops over entries: they need that no two loops run over the same array
  (`LoopsApart`) and that what they will still count fits into the length the array
  was allocated with, which each loop carries as `size` (`Bounded`). Both also give
  `TypeOK` its bound of the counts. A count
  over a null pointer is one of the two arrays that are counted first, after a
  refusal (`ArraysCounted`, `Noticed`).
- *FileReader.* What a reader holds at each step is known (`Holds`), and with which
  result it may be on its way out (`ReadyToReturn`); so every path behind the
  allocation has a free of its own before it, and every path behind the open a close, or the
  proof of its action fails. The buffer's length follows from what was asked for. The theorems are about `LoadSpec`: a
  step of a call is a step of its reader, or none of it (`CallsReader`).
- *LoadBuffer.* The decoders write from the left, and what a string stands for is
  defined from the right. `Decoding` joins the two at the place a decoder is at. Of
  `cgltf_decode_string` it says (`InString`) that the rest is unread and begins where
  a piece does, a character or an escape whole (`Begins`, which is what
  `jsmn_parse_string` has made sure of, `AcceptedIs`); and (`WrittenIs`) that whatever
  begins with what is written and then stands for the rest of the string stands for
  all of it. An escape is longer than its bytes (`EscapeIs`), so `write` stays at or
  before `last` and `memmove` and the bytes behind it leave the rest alone. Of
  `cgltf_decode_uri` it says (`InUri`) that what is written and the bytes of the rest
  are the path. Of base64 (`InBase64`): the characters read are the bytes written and
  the bits held (`Held`), and a character is read only when the next byte needs it
  (`MoreIsNeeded`), so that refusing one means that the text has too little. The
  recursive functions of the reference are shown to exist, and then used one round at
  a time.
- *ParseJson.* A token begins at a lexeme, and at each position both passes have met
  as many beginnings as stand before it (`Starting`); so the array that the first
  has counted is large enough for the second. The sizes of the tokens fit into what
  is left of the array (`SizesFit`): each is the number of later tokens that name it
  as their parent. That is what the walk relies on, since its loops take the size
  for the number of values and no function compares its index with the count: each
  loop on the stack stays below the last token (`StaysBelow`).
  `JsonIsRead` is about texts that are JSON, and has an invariant of its own over that
  one (`JInv`). The place of a text (`Reading`, module `JsonText`) says which brackets
  are open and what may come next; a place that is malformed stays so, which is why
  every lexeme of JSON is one its place allows. The tokens filled so far fit that place
  (`Fits`): they are a tree (`Rooted`, `Nested`, `Sized`, `Shaped`), those without an
  end are its open brackets, the innermost last (`Chain`), and `toksuper` is where
  the place wants the next token (`Cursor`). So a closing bracket finds the one it
  closes and no check of `jsmn_parse` refuses anything (`Accepted`). What is left is
  the walk (`InStep`): what each loop on the stack has left is the number of children
  of its token that it has not come to, all of them behind its index, and what a skip has left is
  the number of tokens it has counted and not met (`Pending`), all below the value it
  was called for; so a skip ends exactly behind that value, where the loop below it goes on.
- *Writer.* Each step of `program` gets an assertion, and the invariant is that the
  one at `pc` is true (`Printing`). The assertions are made as `program` is: a
  `Triple(P, steps, Q)` says that some lead from P through the steps to Q, and is
  proved of a line, of two pieces in a row (`InSequence`), of an if and of a loop, and
  then, function by function, of the thirty (`Writes...`). They say two things. Where
  the text is (`At`): inside known brackets, with a comma due exactly when the flag
  says so; between the object of the unlit extension and the next bracket the flag may
  be wrong (`AtUnlit`), which only an extension behind it would notice. And what is
  owed (`Owing`): all that is flagged has been written, but for what the object at
  hand will write. A material flags everything first, a light only after the
  object around it has begun (`Ahead`); in between the two sides differ, and behind
  each function they are equal again (`Clean`). Nothing is assumed about `Features`.
- *Container.* The checks of the parser are added up as they are made (`Checked`):
  when it comes to the second chunk, the first one ends inside the file and what is
  left is the difference. Of a file of `cgltf_write_glb` the invariant knows the
  words and that it has not grown (`FromWriter`); as long as no word has wrapped,
  the same checks leave no other chunks than those written.
- *Accessor.* `Sound` keeps what `cgltf_validate` has found: that the elements of
  an accessor fit into their view, those of the sparse part into theirs, and the
  indices below what they index. None of the steps that may follow (readers, loads,
  decodes) changes what these are about, but a decode replaces the bytes, after
  which the bound of the indices is no longer claimed. From it follows that no address
  of an element wraps, by adding up sizes below `Usize`, and so that each read is
  inside. That the sparse pass leaves the right value in each place needs the last of
  the elements that name it; it exists because a set of numbers below the count has a
  largest one (`Largest`).

Every safety invariant and every refinement that a passing run checks is stated by a
theorem. Only model-checked is liveness (`CallsReturn`, `ParseReturns`,
`CallsComeBack`): it and `ENABLED` are beyond the prover. So are induction theorems
that take a predicate; an induction over numbers is had from the smallest element of a
set instead (`LessIsWellFounded`, `CountsThroughNat`), as `AccessorProofs`,
`ContainerProofs` and `LoadBufferProofs` do.

## 5. Hazards

`PROJECT.json` lists, line by line, what in this code is hard to test, with the
properties that would catch it and the hazards that no module reaches yet.

## 6. Plan

Written, in this order: `MemoryAdapter`, `FileReader`, `Document` and its
contract, `NodeGraph`, `Ownership`, with their proofs; then `Jsmn` and `ParseJson`,
`Accessor`, `Writer` and `Container`, `Strings` and `LoadBuffer`, and the proofs of
`FileReader`, `ParseJson`, `Container`, `Accessor`, `Writer` and the decoders. Next:

1. `Document` over `Ownership`: the first with its block `Objects` as what the
   second holds, so that one parse is refined by the other.
2. The remaining comparisons of `cgltf_validate` (counts of targets and weights,
   meshopt parameters, animation channels).

## 7. Not modelled

- Values of JSON numbers, enums, and of material and compression parameters: they
  are stored where the parser finds them, and nothing else reads them.
- The pointer fixups outside the node hierarchy and the accessors: the same two
  macros over other fields. The comparisons of section 6, item 2.
- Of the writer, names, numbers but infinite ones, indentation and the size the first pass returns:
  both passes run the same code over the same document.
- Conversion of components to floats and matrix products (floating point).
- The compile-time ABI comparison, declarations, build, CI and tests: no state.
- Threads: the library has none.
