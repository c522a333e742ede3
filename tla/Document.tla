------------------------------ MODULE Document ------------------------------
(***************************************************************************)
(* The life of a document: parse or parseFile, loadBuffers any number of   *)
(* times, free (src/src/document.zig over src/libs/cgltf/cgltf.h), and the *)
(* memory it owns on the way.                                              *)
(*                                                                         *)
(* The library is sequential, but every allocation, read and syntax check  *)
(* can fail, each at a place where other things are already held, and what *)
(* a failed call leaves behind is the starting point of the user's next    *)
(* one.  A block is freed by another function than the one that allocated  *)
(* it, often in another call, through a hook picked from what was recorded *)
(* about it (data_free_method).  The model keeps, for every block, the     *)
(* hook that allocated it, and watches the hook that releases it.          *)
(*                                                                         *)
(* Left to other modules: what the JSON objects of a document own (here    *)
(* one block, `Objects`), the bytes of the container and of the tokens,    *)
(* and the steps of a read hook (FileReader).                              *)
(***************************************************************************)
EXTENDS Integers

CONSTANTS
  N,          (* the buffers of the document                               *)
  V           (* its buffer views that the user decodes (meshopt)          *)

ASSUME DocumentAssumption == N \in Nat /\ V \in Nat

Buffers == 1 .. N
Views   == 1 .. V

-----------------------------------------------------------------------------
(* Blocks and hooks.                                                       *)

Block ==
  [kind : {"file", "tokens", "data", "objects", "path"}, ix : {0}]
    \cup [kind : {"buffer"}, ix : Buffers]
    \cup [kind : {"view"}, ix : Views]

One(kind)      == [kind |-> kind, ix |-> 0]
File           == One("file")        (* the bytes parseFile has read       *)
Tokens         == One("tokens")      (* the token array of cgltf_parse_json *)
Data           == One("data")        (* the cgltf_data                     *)
Objects        == One("objects")     (* everything its parser allocated    *)
Path           == One("path")        (* the path of a buffer's file        *)
BufferBlock(i) == [kind |-> "buffer", ix |-> i]
ViewBlock(v)   == [kind |-> "view", ix |-> v]

(* The hooks of the options the document was parsed with ("doc"), and of   *)
(* other options loadBuffers can be given.                                 *)
Origin  == {"doc", "other"}
Hooks   == {"doc.memory", "doc.file", "other.memory", "other.file"}
Memory(o) == IF o = "doc" THEN "doc.memory" ELSE "other.memory"

VARIABLES
  input,      (* how the document is parsed, and what is in it             *)
  pc,         (* the next step; "idle" when the user is in control         *)
  call,       (* the user's call in progress, or "none"                    *)
  options,    (* the options of a loadBuffers: their origin                *)
  gltf_path,  (* whether loadBuffers was given the document's path         *)
  i,          (* the index of the loop of cgltf_load_buffers               *)
  result,     (* the result of the last call, or of the call so far        *)
  handle,     (* the user has the document                                 *)
  heap,       (* for every block the hook that allocated it, or "free"     *)
  file_data,  (* data->file_data is set                                    *)
  buffer,     (* data->buffers[i]: where its data points, and its method   *)
  view,       (* data->buffer_views[v].data is set                         *)
  misfree,    (* a block was released twice, or through another hook       *)
  mixed       (* some loadBuffers used other options than the parse        *)

locals == << options, gltf_path, i >>
vars   == << input, pc, call, locals, result, handle, heap, file_data, buffer, view,
             misfree, mixed >>

(* file.read and file.release of the options: their own hooks, which own   *)
(* what they return; or functions that allocate and free through the       *)
(* memory hooks (the defaults of cgltf.h, zigRead and zigRelease).         *)
ReadHook(o) ==
  IF ~input.file_hooks THEN Memory(o)
  ELSE IF o = "doc" THEN "doc.file" ELSE "other.file"

UriKinds  == {"none", "base64", "bad base64", "file", "unknown"}
Inputs    ==
  [ entry      : {"parse", "parseFile"},
    file_hooks : BOOLEAN,
    bin        : {"none", "short", "enough"},   (* the bin chunk, for buffers[0] *)
    uri        : [Buffers -> UriKinds] ]

NoBuffer  == [data |-> "null", method |-> "none"]
BufferSet == [data : {"null", "bin", "block", "lent"}, method : {"none", "memory", "file"}]

ReadErrors == {"file_not_found", "io_error", "out_of_memory"}
Results    == {"none", "success", "data_too_short", "unknown_format", "invalid_json",
               "invalid_gltf", "legacy_gltf"} \cup ReadErrors

ParseSteps == {"read", "container", "count", "tokens", "tokenize", "alloc", "root",
               "fixup", "publish", "release"}
FreeSteps  == {"free views", "free buffers", "free objects", "free file", "free data"}
LoadSteps  == {"bin", "loop", "decode", "read buffer"}
Steps      == {"idle"} \cup ParseSteps \cup FreeSteps \cup LoadSteps

Goto(step)  == pc' = step

(* alloc_func (or file.read) of a hook gives block b.                      *)
Allocate(b, hook) == heap' = [heap EXCEPT ![b] = hook] /\ UNCHANGED misfree

(* free_func (or file.release) of a hook is given block b.                 *)
Release(b, hook) ==
  /\ heap' = [heap EXCEPT ![b] = "free"]
  /\ misfree' = (misfree \/ heap[b] # hook)

(* The call returns r to the user, and its locals end with it.             *)
Return(r) ==
  /\ Goto("idle") /\ call' = "none" /\ result' = r
  /\ options' = "doc" /\ gltf_path' = FALSE /\ i' = 1

(* The call goes on.                                                       *)
Continue(step) == Goto(step) /\ UNCHANGED << call, result, locals >>

(* The loop of cgltf_load_buffers goes on, to its next buffer.             *)
NextBuffer ==
  /\ Goto("loop") /\ i' = i + 1
  /\ UNCHANGED << call, result, options, gltf_path >>

-----------------------------------------------------------------------------
Init ==
  /\ input \in Inputs
  /\ pc = "idle" /\ call = "none" /\ result = "none"
  /\ options = "doc" /\ gltf_path = FALSE /\ i = 1
  /\ handle = FALSE /\ misfree = FALSE /\ mixed = FALSE /\ file_data = FALSE
  /\ heap = [b \in Block |-> "free"]
  /\ buffer = [b \in Buffers |-> NoBuffer]
  /\ view = [v \in Views |-> FALSE]

-----------------------------------------------------------------------------
(* parse and parseFile: cgltf_parse_file around cgltf_parse around         *)
(* cgltf_parse_json.                                                       *)

CallParse ==
  /\ call = "none" /\ ~handle
  /\ call' = "parse" /\ result' = "none"
  /\ Goto(IF input.entry = "parseFile" THEN "read" ELSE "container")
  /\ UNCHANGED << input, locals, handle, heap, file_data, buffer, view, misfree, mixed >>

(* A mutant: the file's bytes are forgotten when they do not parse.        *)
ParseFailsKeepingFile(r) == Return(r)

(* cgltf_parse returns r # success: cgltf_parse_file gives the bytes it    *)
(* has read back before it returns r.                                      *)
ParseFails(r) ==
  IF input.entry = "parseFile"
    THEN Goto("release") /\ result' = r /\ UNCHANGED << call, locals >>
    ELSE Return(r)

ReadFile ==
  /\ pc = "read"
  /\ \/ \E r \in ReadErrors : Return(r) /\ UNCHANGED << heap, misfree >>
     \/ Allocate(File, ReadHook("doc")) /\ Continue("container")
  /\ UNCHANGED << input, handle, file_data, buffer, view, mixed >>

(* cgltf_parse checks the container around the JSON text, which it does    *)
(* not copy; nothing is held yet.                                          *)
Container ==
  /\ pc = "container"
  /\ \/ \E r \in {"data_too_short", "unknown_format", "legacy_gltf"} : ParseFails(r)
     \/ Continue("count")
  /\ UNCHANGED << input, handle, heap, file_data, buffer, view, misfree, mixed >>

(* The first jsmn_parse, which counts the tokens.                          *)
CountTokens ==
  /\ pc = "count"
  /\ \/ ParseFails("invalid_json")
     \/ Continue("tokens")
  /\ UNCHANGED << input, handle, heap, file_data, buffer, view, misfree, mixed >>

AllocTokens ==
  /\ pc = "tokens"
  /\ \/ ParseFails("out_of_memory") /\ UNCHANGED << heap, misfree >>
     \/ Allocate(Tokens, "doc.memory") /\ Continue("tokenize")
  /\ UNCHANGED << input, handle, file_data, buffer, view, mixed >>

(* The second jsmn_parse, into the tokens.                                 *)
Tokenize ==
  /\ pc = "tokenize"
  /\ \/ ParseFails("invalid_json") /\ Release(Tokens, "doc.memory")
     \/ Continue("alloc") /\ UNCHANGED << heap, misfree >>
  /\ UNCHANGED << input, handle, file_data, buffer, view, mixed >>

(* The cgltf_data, zeroed: no buffer has data, and none a free method.     *)
AllocData ==
  /\ pc = "alloc"
  /\ \/ ParseFails("out_of_memory") /\ Release(Tokens, "doc.memory")
        /\ UNCHANGED << file_data, buffer, view >>
     \/ /\ Allocate(Data, "doc.memory") /\ Continue("root")
        /\ file_data' = FALSE
        /\ buffer' = [b \in Buffers |-> NoBuffer]
        /\ view' = [v \in Views |-> FALSE]
  /\ UNCHANGED << input, handle, mixed >>

(* cgltf_parse_json_root: allocates objects, until it succeeds or fails.   *)
(* The tokens are freed either way, and cgltf_free frees what was built.   *)
ParseRoot ==
  /\ pc = "root"
  /\ \E objects \in {"doc.memory", "free"} :
       heap' = [heap EXCEPT ![Tokens] = "free", ![Objects] = objects]
  /\ misfree' = (misfree \/ heap[Tokens] # "doc.memory")
  /\ \/ Goto("fixup") /\ UNCHANGED result
     \/ /\ Goto("free views")
        /\ result' \in {"out_of_memory", "legacy_gltf", "invalid_gltf"}
  /\ UNCHANGED << input, call, locals, handle, file_data, buffer, view, mixed >>

(* cgltf_fixup_pointers: an index out of range frees the document.         *)
Fixup ==
  /\ pc = "fixup"
  /\ \/ Goto("publish") /\ UNCHANGED result
     \/ Goto("free views") /\ result' = "invalid_gltf"
  /\ UNCHANGED << input, call, locals, handle, heap, file_data, buffer, view, misfree, mixed >>

(* *out_data is set, and cgltf_parse_file hands its bytes to the document. *)
Publish ==
  /\ pc = "publish"
  /\ Return("success")
  /\ handle' = TRUE
  /\ file_data' = (input.entry = "parseFile")
  /\ UNCHANGED << input, heap, buffer, view, misfree, mixed >>

(* cgltf_parse_file, after a failure: file_release(file_data).             *)
ReleaseFile ==
  /\ pc = "release"
  /\ Release(File, ReadHook("doc"))
  /\ Return(result)
  /\ UNCHANGED << input, handle, file_data, buffer, view, mixed >>

-----------------------------------------------------------------------------
(* cgltf_free: called by the user, and by a parse that fails late.         *)

CallFree ==
  /\ call = "none" /\ handle
  /\ call' = "free" /\ result' = "none"
  /\ Goto("free views")
  /\ UNCHANGED << input, locals, handle, heap, file_data, buffer, view, misfree, mixed >>

(* Every non-null data of a buffer view goes through memory.free_func.     *)
FreeViews ==
  /\ pc = "free views"
  /\ heap' = [b \in Block |-> IF b.kind = "view" /\ view[b.ix] THEN "free" ELSE heap[b]]
  /\ misfree' = (misfree \/ \E v \in Views : view[v] /\ heap[ViewBlock(v)] # "doc.memory")
  /\ Goto("free buffers")
  /\ UNCHANGED << input, call, locals, result, handle, file_data, buffer, view, mixed >>

(* A buffer whose data cgltf_free passes to a hook that does not ignore it *)
(* (the hooks ignore null), and the hook its free method names.            *)
Freed(b)       == buffer[b].data # "null" /\ buffer[b].method # "none"
FreeHook(b)    == IF buffer[b].method = "file" THEN ReadHook("doc") ELSE "doc.memory"

FreeBuffers ==
  /\ pc = "free buffers"
  /\ heap' = [b \in Block |-> IF b.kind = "buffer" /\ Freed(b.ix) THEN "free" ELSE heap[b]]
  /\ misfree' = (misfree \/ \E b \in Buffers :
                   Freed(b) /\ (buffer[b].data # "block" \/ heap[BufferBlock(b)] # FreeHook(b)))
  /\ Goto("free objects")
  /\ UNCHANGED << input, call, locals, result, handle, file_data, buffer, view, mixed >>

(* A mutant: the cgltf_data goes with the objects.                         *)
FreeObjectsAndData ==
  /\ pc = "free objects"
  /\ heap' = [heap EXCEPT ![Objects] = "free", ![Data] = "free"]
  /\ Goto("free file")
  /\ UNCHANGED << input, call, locals, result, handle, file_data, buffer, view, misfree, mixed >>

(* Everything the JSON parser allocated: names, arrays, extras, uris.      *)
FreeObjects ==
  /\ pc = "free objects"
  /\ IF heap[Objects] = "free" THEN UNCHANGED << heap, misfree >>
                               ELSE Release(Objects, "doc.memory")
  /\ Goto("free file")
  /\ UNCHANGED << input, call, locals, result, handle, file_data, buffer, view, mixed >>

(* file_release(file_data), which ignores the null of a document that owns *)
(* no file: parsed from memory, or not yet given one.                      *)
FreeFile ==
  /\ pc = "free file"
  /\ IF file_data THEN Release(File, ReadHook("doc")) ELSE UNCHANGED << heap, misfree >>
  /\ Goto("free data")
  /\ UNCHANGED << input, call, locals, result, handle, file_data, buffer, view, mixed >>

(* The cgltf_data itself.  The user's free returns; a failed parse returns *)
(* the error it had found.                                                 *)
FreeData ==
  /\ pc = "free data"
  /\ Release(Data, "doc.memory")
  /\ buffer' = [b \in Buffers |-> NoBuffer]
  /\ view' = [v \in Views |-> FALSE]
  /\ file_data' = FALSE
  /\ handle' = FALSE
  /\ IF call = "free" THEN Return("none") ELSE ParseFails(result)
  /\ UNCHANGED << input, mixed >>

-----------------------------------------------------------------------------
(* loadBuffers: cgltf_load_buffers.                                        *)

CallLoad(o, path) ==
  /\ call = "none" /\ handle
  /\ call' = "load" /\ result' = "none"
  /\ options' = o /\ gltf_path' = path /\ i' = 1
  /\ mixed' = (mixed \/ o = "other")
  /\ Goto("bin")
  /\ UNCHANGED << input, handle, heap, file_data, buffer, view, misfree >>

(* buffers[0] without data and without a uri is the bin chunk of a GLB,    *)
(* which the document does not own separately.                             *)
LoadBin ==
  /\ pc = "bin"
  /\ IF N > 0 /\ buffer[1].data = "null" /\ input.uri[1] = "none" /\ input.bin # "none"
       THEN IF input.bin = "short"
              THEN Return("data_too_short") /\ UNCHANGED buffer
              ELSE /\ buffer' = [buffer EXCEPT ![1] = [data |-> "bin", method |-> "none"]]
                   /\ Continue("loop")
       ELSE Continue("loop") /\ UNCHANGED buffer
  /\ UNCHANGED << input, handle, heap, file_data, view, misfree, mixed >>

SetBuffer(data, method) == buffer' = [buffer EXCEPT ![i] = [data |-> data, method |-> method]]
SetMethod(method)       == buffer' = [buffer EXCEPT ![i].method = method]

(* A mutant: data that is there is not looked for.                         *)
AtUnloadedOrLoaded ==
  /\ pc = "loop" /\ i <= N
  /\ input.uri[i] # "none"

(* The loop is at a buffer that needs loading.                             *)
AtUnloaded ==
  /\ pc = "loop" /\ i <= N
  /\ buffer[i].data = "null" /\ input.uri[i] # "none"

(* A mutant: a buffer that has data is skipped without counting it.        *)
LoadSkipStays ==
  /\ pc = "loop"
  /\ IF i > N THEN Return("success")
     ELSE /\ ~AtUnloaded
          /\ IF buffer[i].data = "null" THEN NextBuffer ELSE Continue("loop")
  /\ UNCHANGED << input, handle, heap, file_data, buffer, view, misfree, mixed >>

(* A buffer that has data, or no uri, is skipped; the loop ends after the  *)
(* last.                                                                   *)
LoadSkip ==
  /\ pc = "loop"
  /\ IF i > N THEN Return("success")
     ELSE ~AtUnloaded /\ NextBuffer
  /\ UNCHANGED << input, handle, heap, file_data, buffer, view, misfree, mixed >>

(* A mutant: a data uri that is not base64, a remote uri, or a file        *)
(* without a gltf_path to find it by, is passed over.                      *)
LoadUnknownGoesOn ==
  /\ AtUnloaded
  /\ input.uri[i] = "unknown" \/ (input.uri[i] = "file" /\ ~gltf_path)
  /\ NextBuffer
  /\ UNCHANGED << input, handle, heap, file_data, buffer, view, misfree, mixed >>

(* A data uri that is not base64, a remote uri, or a file without a        *)
(* gltf_path to find it by.                                                *)
LoadUnknown ==
  /\ AtUnloaded
  /\ input.uri[i] = "unknown" \/ (input.uri[i] = "file" /\ ~gltf_path)
  /\ Return("unknown_format")
  /\ UNCHANGED << input, handle, heap, file_data, buffer, view, misfree, mixed >>

(* cgltf_load_buffer_base64 allocates the buffer.  The free method is set  *)
(* whatever the outcome, the data only on success.                         *)
LoadBase64 ==
  /\ AtUnloaded
  /\ input.uri[i] \in {"base64", "bad base64"}
  /\ \/ /\ Return("out_of_memory") /\ SetMethod("memory")
        /\ UNCHANGED << heap, misfree >>
     \/ /\ Allocate(BufferBlock(i), Memory(options))
        /\ Continue("decode") /\ UNCHANGED buffer
  /\ UNCHANGED << input, handle, file_data, view, mixed >>

(* A mutant: *out_data is set before the text is decoded.                  *)
DecodeSetsFirst ==
  /\ pc = "decode"
  /\ SetBuffer("block", "memory")
  /\ IF input.uri[i] = "base64"
       THEN NextBuffer /\ UNCHANGED << heap, misfree >>
       ELSE Return("io_error") /\ Release(BufferBlock(i), Memory(options))
  /\ UNCHANGED << input, handle, file_data, view, mixed >>

(* It decodes, and on a character that is not base64 frees what it had     *)
(* allocated.                                                              *)
Decode ==
  /\ pc = "decode"
  /\ IF input.uri[i] = "base64"
       THEN /\ SetBuffer("block", "memory")
            /\ NextBuffer /\ UNCHANGED << heap, misfree >>
       ELSE /\ SetMethod("memory")
            /\ Return("io_error") /\ Release(BufferBlock(i), Memory(options))
  /\ UNCHANGED << input, handle, file_data, view, mixed >>

(* cgltf_load_buffer_file builds the path of the file.                     *)
LoadFile ==
  /\ AtUnloaded
  /\ input.uri[i] = "file" /\ gltf_path
  /\ \/ /\ Return("out_of_memory") /\ SetMethod("file")
        /\ UNCHANGED << heap, misfree >>
     \/ /\ Allocate(Path, Memory(options))
        /\ Continue("read buffer") /\ UNCHANGED buffer
  /\ UNCHANGED << input, handle, file_data, view, mixed >>

(* A mutant: every kind of data is marked to be freed as memory.           *)
ReadBufferAsMemory ==
  /\ pc = "read buffer"
  /\ \/ /\ \E r \in ReadErrors : Return(r)
        /\ SetMethod("memory") /\ Release(Path, Memory(options))
     \/ /\ heap' = [heap EXCEPT ![Path] = "free", ![BufferBlock(i)] = ReadHook(options)]
        /\ SetBuffer("block", "memory")
        /\ NextBuffer /\ UNCHANGED misfree
  /\ UNCHANGED << input, handle, file_data, view, mixed >>

(* A mutant: a failed read leaves what *out_data was.                      *)
ReadBufferNoClear ==
  /\ pc = "read buffer"
  /\ \/ /\ \E r \in ReadErrors : Return(r)
        /\ SetBuffer("uninitialised", "file") /\ Release(Path, Memory(options))
     \/ /\ heap' = [heap EXCEPT ![Path] = "free", ![BufferBlock(i)] = ReadHook(options)]
        /\ SetBuffer("block", "file")
        /\ NextBuffer /\ UNCHANGED misfree
  /\ UNCHANGED << input, handle, file_data, view, mixed >>

(* It reads the file and frees the path, in success and in failure.  The   *)
(* free method is set in both, the data only in success.                   *)
ReadBuffer ==
  /\ pc = "read buffer"
  /\ \/ /\ \E r \in ReadErrors : Return(r)
        /\ SetMethod("file") /\ Release(Path, Memory(options))
     \/ /\ heap' = [heap EXCEPT ![Path] = "free", ![BufferBlock(i)] = ReadHook(options)]
        /\ misfree' = (misfree \/ heap[Path] # Memory(options))
        /\ SetBuffer("block", "file")
        /\ NextBuffer
  /\ UNCHANGED << input, handle, file_data, view, mixed >>

-----------------------------------------------------------------------------
(* What the user may do with a document between calls.                     *)

(* The pairing the README describes: bytes decoded by another library, in  *)
(* memory of the document's own options, become the data of a view.        *)
DecodeView(v) ==
  /\ call = "none" /\ handle /\ ~view[v]
  /\ view' = [view EXCEPT ![v] = TRUE]
  /\ Allocate(ViewBlock(v), "doc.memory")
  /\ UNCHANGED << input, pc, call, locals, result, handle, file_data, buffer, mixed >>

(* The user fills a buffer: with memory that stays the user's, or with     *)
(* memory of the document's options, marked memory_free.                   *)
FillBuffer(b) ==
  /\ call = "none" /\ handle /\ buffer[b].data = "null"
  /\ \/ /\ buffer' = [buffer EXCEPT ![b] = [data |-> "lent", method |-> "none"]]
        /\ UNCHANGED << heap, misfree >>
     \/ /\ buffer' = [buffer EXCEPT ![b] = [data |-> "block", method |-> "memory"]]
        /\ Allocate(BufferBlock(b), "doc.memory")
  /\ UNCHANGED << input, pc, call, locals, result, handle, file_data, view, mixed >>

-----------------------------------------------------------------------------
ParseStep == \/ ReadFile \/ Container \/ CountTokens \/ AllocTokens \/ Tokenize
             \/ AllocData \/ ParseRoot \/ Fixup \/ Publish \/ ReleaseFile
FreeStep  == FreeViews \/ FreeBuffers \/ FreeObjects \/ FreeFile \/ FreeData
LoadStep  == LoadBin \/ LoadSkip \/ LoadUnknown \/ LoadBase64 \/ Decode \/ LoadFile
             \/ ReadBuffer
Library   == ParseStep \/ FreeStep \/ LoadStep

User ==
  \/ CallParse
  \/ \E o \in Origin, path \in BOOLEAN : CallLoad(o, path)
  \/ CallFree
  \/ \E v \in Views : DecodeView(v)
  \/ \E b \in Buffers : FillBuffer(b)

Next == Library \/ User

(* A call runs until it returns; the user need not call.                   *)
Spec == Init /\ [][Next]_vars /\ WF_vars(Library)

-----------------------------------------------------------------------------
(* Which call a step belongs to.                                           *)
StepOfCall ==
  /\ call = "none" <=> pc = "idle"
  /\ call = "parse" => pc \in ParseSteps \cup FreeSteps
  /\ call = "load" => pc \in LoadSteps
  /\ call = "free" => pc \in FreeSteps

(* Every variable has its type, and every step its call.                   *)
TypeOK ==
  /\ input \in Inputs /\ pc \in Steps /\ result \in Results
  /\ call \in {"none", "parse", "load", "free"} /\ StepOfCall
  /\ options \in Origin /\ gltf_path \in BOOLEAN /\ i \in 1 .. (N + 1)
  /\ handle \in BOOLEAN /\ misfree \in BOOLEAN /\ mixed \in BOOLEAN
  /\ file_data \in BOOLEAN
  /\ heap \in [Block -> Hooks \cup {"free"}]
  /\ buffer \in [Buffers -> BufferSet] /\ view \in [Views -> BOOLEAN]

(* When no call is in progress and the user has no document, nothing is    *)
(* allocated: a parse that failed at any step, and a free after any        *)
(* sequence of loads that failed at any step, have given everything back.  *)
NoLeak == call = "none" /\ ~handle => \A b \in Block : heap[b] = "free"

(* Every block is released once, through the hook that allocated it, as    *)
(* long as loadBuffers gets the options the document was parsed with.      *)
NoMisfree == ~mixed => ~misfree

(* What the user can reach through the document is there: a buffer's own   *)
(* data, a view's decoded data, and the file a bin chunk points into.      *)
DataIsThere ==
  call = "none" /\ handle =>
    /\ \A b \in Buffers : buffer[b].data = "block" => heap[BufferBlock(b)] # "free"
    /\ \A v \in Views : view[v] => heap[ViewBlock(v)] # "free"
    /\ input.entry = "parseFile" => heap[File] # "free"

(* cgltf_free reads its hooks and its counts from the cgltf_data: that is  *)
(* there until its last step, also after a parse that failed.              *)
FreeReadsTheDocument == pc \in FreeSteps => heap[Data] # "free"

(* When loadBuffers returns success, every buffer with a uri has data,     *)
(* whatever earlier loads that failed, and the user, had filled before.    *)
LoadFillsUris ==
  [][call = "load" /\ call' = "none" /\ result' = "success" =>
       \A b \in Buffers : input.uri[b] # "none" => buffer'[b].data # "null"]_vars

(* While the user has the document, a buffer that has data keeps it, and   *)
(* the method by which it will be freed, whatever later loads do: a retry  *)
(* after a failure neither reloads nor re-marks it.                        *)
LoadedStays ==
  [][handle /\ handle' => \A b \in Buffers :
       buffer[b].data # "null" => buffer'[b] = buffer[b]]_vars

(* Every call returns.                                                     *)
CallsReturn == call # "none" ~> call = "none"

(* The library keeps the promise a user relies on.                         *)
C == INSTANCE DocumentContract WITH
       doc    <- handle,
       filled <- { b \in Buffers : handle /\ buffer[b].data # "null" },
       holds  <- \E b \in Block : heap[b] # "free"
Contract == C!Spec
=============================================================================
