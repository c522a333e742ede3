--------------------------- MODULE DocumentProofs ---------------------------
(***************************************************************************)
(* What Document.tla says of the life of a document holds for any number   *)
(* of buffers and of decoded views, and for any sequence of calls.         *)
(*                                                                         *)
(* None of the properties is inductive alone.  That nothing leaks needs to *)
(* know, at every step, which blocks are held (SingleBlocks, BufferBlocks, *)
(* ViewBlocks); that a release names the right hook needs the method       *)
(* recorded with a buffer to agree with the hook its data came from        *)
(* (BufferBlocks), which a load keeps because it fills only buffers that   *)
(* are empty (Loop), and a parse because its document is blank (Blank).    *)
(* The conjunction IInv is inductive.                                      *)
(***************************************************************************)
EXTENDS Document, TLAPS

(* The steps of cgltf_free after the buffers' data has been released.      *)
AfterBuffers == {"free objects", "free file", "free data"}

(* Which call a step, and a user's document, belong to.                    *)
InCall ==
  /\ call = "parse" => ~handle
  /\ call \in {"load", "free"} => handle
  /\ ~mixed => options = "doc"
  /\ call # "load" => options = "doc"
  /\ pc \in {"read", "release"} => input.entry = "parseFile"

(* When the tokens, the cgltf_data, its objects, the file's bytes and the  *)
(* path are held, and through which hook they were got.                    *)
TokensHeld  == pc \in {"tokenize", "alloc", "root"}
DataHeld    == handle \/ pc \in {"root", "fixup", "publish"} \cup FreeSteps
ObjectsMay  == \/ pc \in {"fixup", "publish", "free views", "free buffers", "free objects"}
               \/ handle /\ pc \notin {"free file", "free data"}
FileHeld    == /\ input.entry = "parseFile"
               /\ \/ call = "parse" /\ pc # "read"
                  \/ handle /\ pc # "free data"

SingleBlocks ==
  /\ heap[Tokens] = IF TokensHeld THEN "doc.memory" ELSE "free"
  /\ heap[Data] = IF DataHeld THEN "doc.memory" ELSE "free"
  /\ heap[Objects] \in {"free", "doc.memory"}
  /\ heap[Objects] = "doc.memory" => ObjectsMay
  /\ heap[File] = IF FileHeld THEN ReadHook("doc") ELSE "free"
  /\ heap[Path] = IF pc = "read buffer" THEN Memory(options) ELSE "free"
  /\ file_data = (handle /\ input.entry = "parseFile")

(* When the data of a buffer is held, and through which hook it was got:   *)
(* the one its method names, if every load had the document's options.     *)
BufferOK(b) ==
  /\ buffer[b].data = "block" => buffer[b].method # "none"
  /\ buffer[b].data \in {"bin", "lent"} => buffer[b].method = "none"
  /\ heap[BufferBlock(b)] # "free" =>
       \/ pc = "decode" /\ b = i
       \/ buffer[b].data = "block" /\ pc \notin AfterBuffers
  /\ buffer[b].data = "block" /\ pc \notin AfterBuffers =>
       /\ heap[BufferBlock(b)] # "free"
       /\ ~mixed => heap[BufferBlock(b)] = FreeHook(b)

BufferBlocks == \A b \in Buffers : BufferOK(b)

ViewBlocks ==
  \A v \in Views :
    heap[ViewBlock(v)] = IF view[v] /\ pc \notin {"free buffers"} \cup AfterBuffers
                           THEN "doc.memory" ELSE "free"

(* The loop of cgltf_load_buffers: what is before it has been filled, and  *)
(* the buffer being filled is empty.                                       *)
Loop ==
  /\ pc \in {"decode", "read buffer"} =>
       i <= N /\ buffer[i].data = "null"
  /\ pc = "decode" => heap[BufferBlock(i)] = Memory(options)
  /\ call = "load" => \A b \in 1 .. (i - 1) : input.uri[b] # "none" => buffer[b].data # "null"

(* A user without a document has none of it.                               *)
Blank ==
  ~handle =>
    /\ \A b \in Buffers : buffer[b].data = "null" /\ buffer[b].method = "none"
    /\ \A v \in Views : view[v] = FALSE

IInv == /\ TypeOK /\ InCall /\ SingleBlocks /\ BufferBlocks /\ ViewBlocks /\ Loop /\ Blank
        /\ NoMisfree


-----------------------------------------------------------------------------
(* The blocks are pairwise different.                                      *)
LEMMA BlockFacts ==
  /\ File \in Block /\ Tokens \in Block /\ Data \in Block
  /\ Objects \in Block /\ Path \in Block
  /\ \A b \in Buffers : /\ BufferBlock(b) \in Block
                        /\ BufferBlock(b) \notin {File, Tokens, Data, Objects, Path}
  /\ \A v \in Views : /\ ViewBlock(v) \in Block
                      /\ ViewBlock(v) \notin {File, Tokens, Data, Objects, Path}
  /\ \A b \in Buffers, v \in Views : BufferBlock(b) # ViewBlock(v)
  /\ \A b \in Buffers, c \in Buffers : BufferBlock(b) = BufferBlock(c) => b = c
  /\ \A v \in Views, w \in Views : ViewBlock(v) = ViewBlock(w) => v = w
  /\ File # Tokens /\ File # Data /\ File # Objects /\ File # Path
  /\ Tokens # Data /\ Tokens # Objects /\ Tokens # Path
  /\ Data # Objects /\ Data # Path /\ Objects # Path
BY DEF Block, One, File, Tokens, Data, Objects, Path, BufferBlock, ViewBlock

(* and there are no others.                                                *)
LEMMA BlockCases ==
  ASSUME NEW x \in Block
  PROVE  \/ x \in {File, Tokens, Data, Objects, Path}
         \/ \E b \in Buffers : x = BufferBlock(b)
         \/ \E v \in Views : x = ViewBlock(v)
BY DEF Block, One, File, Tokens, Data, Objects, Path, BufferBlock, ViewBlock

(* What the kind and the index of a block tell.                            *)
LEMMA BlockKinds ==
  /\ \A b \in Buffers : BufferBlock(b).kind = "buffer" /\ BufferBlock(b).ix = b
  /\ \A v \in Views : ViewBlock(v).kind = "view" /\ ViewBlock(v).ix = v
  /\ \A x \in {File, Tokens, Data, Objects, Path} : x.kind \notin {"buffer", "view"}
BY DEF One, File, Tokens, Data, Objects, Path, BufferBlock, ViewBlock

(* The initial states satisfy the invariant.                               *)
LEMMA InitIInv == Init => IInv
<1> SUFFICES ASSUME Init PROVE IInv
  OBVIOUS
<1>1. TypeOK
  <2>1. /\ input \in Inputs /\ pc \in Steps /\ result \in Results
        /\ call \in {"none", "parse", "load", "free"} /\ StepOfCall
    BY DEF Init, Steps, Results, StepOfCall
  <2>2. options \in Origin /\ i \in 1 .. (N + 1)
    BY DocumentAssumption DEF Init, Origin
  <2>3. /\ gltf_path \in BOOLEAN /\ file_data \in BOOLEAN
        /\ handle \in BOOLEAN /\ misfree \in BOOLEAN /\ mixed \in BOOLEAN
    BY DEF Init
  <2>4. /\ heap \in [Block -> Hooks \cup {"free"}]
        /\ buffer \in [Buffers -> BufferSet] /\ view \in [Views -> BOOLEAN]
    BY DEF Init, NoBuffer, BufferSet
  <2>. QED
    BY <2>1, <2>2, <2>3, <2>4 DEF TypeOK
<1>2. InCall /\ Loop /\ NoMisfree
  BY DEF Init, InCall, Loop, NoMisfree
<1>3. SingleBlocks
  BY BlockFacts DEF Init, SingleBlocks, TokensHeld, DataHeld, FileHeld, ParseSteps, FreeSteps
<1>4. BufferBlocks
  BY BlockFacts DEF Init, BufferBlocks, BufferOK, NoBuffer
<1>5. ViewBlocks /\ Blank
  BY BlockFacts DEF Init, ViewBlocks, Blank, NoBuffer
<1>. QED
  BY <1>1, <1>2, <1>3, <1>4, <1>5 DEF IInv

-----------------------------------------------------------------------------
(* What alloc_func and free_func do to the blocks.                         *)
LEMMA AllocateIs ==
  ASSUME TypeOK, NEW x \in Block, NEW hook, Allocate(x, hook)
  PROVE  /\ heap'[x] = hook /\ misfree' = misfree
         /\ \A y \in Block : y # x => heap'[y] = heap[y]
BY DEF Allocate, TypeOK

(* and what free_func, or file.release, does.                              *)
LEMMA ReleaseIs ==
  ASSUME TypeOK, NEW x \in Block, NEW hook, Release(x, hook)
  PROVE  /\ heap'[x] = "free"
         /\ \A y \in Block : y # x => heap'[y] = heap[y]
BY DEF Release, TypeOK

(* A step that leaves a buffer and its block alone.                        *)
LEMMA BufferKept ==
  ASSUME NEW b \in Buffers, BufferOK(b), input' = input, mixed => mixed',
         buffer'[b] = buffer[b], heap'[BufferBlock(b)] = heap[BufferBlock(b)],
         pc \in AfterBuffers <=> pc' \in AfterBuffers,
         ~(pc = "decode" /\ b = i)
  PROVE  BufferOK(b)'
<1>1. FreeHook(b)' = FreeHook(b)
  BY DEF FreeHook, ReadHook, Memory
<1>. QED
  BY <1>1 DEF BufferOK

(* A step that leaves the decoded data of the views alone.                 *)
LEMMA ViewsKept ==
  ASSUME ViewBlocks, UNCHANGED view,
         \A v \in Views : heap'[ViewBlock(v)] = heap[ViewBlock(v)],
         pc \in {"free buffers"} \cup AfterBuffers <=> pc' \in {"free buffers"} \cup AfterBuffers
  PROVE  ViewBlocks'
BY DEF ViewBlocks

-----------------------------------------------------------------------------
(* Types.                                                                  *)

(* The steps stay in the call they belong to.                              *)
LEMMA ControlType ==
  ASSUME TypeOK, Next
  PROVE  /\ input' \in Inputs /\ pc' \in Steps /\ result' \in Results
         /\ call' \in {"none", "parse", "load", "free"} /\ StepOfCall'
<1>. USE DEF TypeOK, Next, Library, ParseStep, FreeStep, LoadStep, User, ReadFile,
       Container, CountTokens, AllocTokens, Tokenize, AllocData, ParseRoot, Fixup,
       Publish, ReleaseFile, FreeViews, FreeBuffers, FreeObjects, FreeFile, FreeData,
       LoadBin, LoadSkip, LoadUnknown, LoadBase64, Decode, LoadFile, ReadBuffer,
       CallParse, CallLoad, CallFree, DecodeView, FillBuffer,
       Goto, Return, Continue, NextBuffer, ParseFails, AtUnloaded
<1>1. input' \in Inputs
  OBVIOUS
<1>2. pc' \in Steps
  BY DEF Steps, ParseSteps, FreeSteps, LoadSteps
<1>3. result' \in Results
  BY DEF Results, ReadErrors
<1>4. call' \in {"none", "parse", "load", "free"} /\ StepOfCall'
  BY DEF StepOfCall, Steps, ParseSteps, FreeSteps, LoadSteps
<1>. QED
  BY <1>1, <1>2, <1>3, <1>4

(* The flags stay flags.                                                   *)
LEMMA FlagType ==
  ASSUME TypeOK, Next
  PROVE  /\ options' \in Origin /\ gltf_path' \in BOOLEAN
         /\ handle' \in BOOLEAN /\ misfree' \in BOOLEAN /\ mixed' \in BOOLEAN
         /\ file_data' \in BOOLEAN
<1>. USE DEF TypeOK, Next, Library, ParseStep, FreeStep, LoadStep, User, ReadFile,
       Container, CountTokens, AllocTokens, Tokenize, AllocData, ParseRoot, Fixup,
       Publish, ReleaseFile, FreeViews, FreeBuffers, FreeObjects, FreeFile, FreeData,
       LoadBin, LoadSkip, LoadUnknown, LoadBase64, Decode, LoadFile, ReadBuffer,
       CallParse, CallLoad, CallFree, DecodeView, FillBuffer,
       Goto, Return, Continue, NextBuffer, ParseFails, AtUnloaded, locals
<1>1. options' \in Origin /\ gltf_path' \in BOOLEAN
  BY DEF Origin
<1>2. handle' \in BOOLEAN /\ mixed' \in BOOLEAN /\ file_data' \in BOOLEAN
  OBVIOUS
<1>3. misfree' \in BOOLEAN
  BY DEF Allocate, Release
<1>. QED
  BY <1>1, <1>2, <1>3

(* The index of the loop moves only below N.                               *)
LEMMA LoopIndexType ==
  ASSUME TypeOK, Loop, Next
  PROVE  i' \in 1 .. (N + 1)
<1>0. i \in 1 .. (N + 1) /\ N \in Nat
  BY DocumentAssumption DEF TypeOK
<1>1. CASE LoadSkip \/ LoadUnknown \/ Decode \/ ReadBuffer
  <2>1. \/ i' = 1
        \/ i' = i + 1 /\ i <= N
    <3>1. CASE LoadSkip
      <4>1. CASE i > N
        BY <3>1, <4>1 DEF LoadSkip, Return
      <4>2. CASE ~(i > N)
        BY <3>1, <4>2, <1>0 DEF LoadSkip, NextBuffer
      <4>. QED
        BY <4>1, <4>2
    <3>2. CASE LoadUnknown
      BY <3>2 DEF LoadUnknown, Return
    <3>3. CASE Decode \/ ReadBuffer
      BY <3>3 DEF Decode, ReadBuffer, Loop, Return, NextBuffer
    <3>. QED
      BY <1>1, <3>1, <3>2, <3>3
  <2>. QED
    BY <2>1, <1>0
<1>2. CASE LoadBin \/ LoadBase64 \/ LoadFile
  <2>1. i' = i \/ i' = 1
    BY <1>2 DEF LoadBin, LoadBase64, LoadFile, Return, Continue, locals
  <2>. QED
    BY <2>1, <1>0
<1>3. CASE ParseStep \/ FreeStep
  <2>1. i' = i \/ i' = 1
    BY <1>3 DEF ParseStep, FreeStep, ReadFile, Container, CountTokens, AllocTokens, Tokenize,
         AllocData, ParseRoot, Fixup, Publish, ReleaseFile, FreeViews, FreeBuffers,
         FreeObjects, FreeFile, FreeData, ParseFails, Return, Continue, locals
  <2>. QED
    BY <2>1, <1>0
<1>4. CASE User
  <2>1. i' = i \/ i' = 1
    BY <1>4 DEF User, CallParse, CallLoad, CallFree, DecodeView, FillBuffer, locals
  <2>. QED
    BY <2>1, <1>0
<1>. QED
  BY <1>1, <1>2, <1>3, <1>4 DEF Next, Library, LoadStep

(* Every block is free or comes from a hook.                               *)
LEMMA HeapType ==
  ASSUME TypeOK, Next
  PROVE  heap' \in [Block -> Hooks \cup {"free"}]
BY BlockFacts DEF TypeOK, Next, Library, ParseStep, FreeStep, LoadStep, User,
     ReadFile, Container, CountTokens, AllocTokens, Tokenize, AllocData, ParseRoot,
     Fixup, Publish, ReleaseFile, FreeViews, FreeBuffers, FreeObjects, FreeFile,
     FreeData, LoadBin, LoadSkip, LoadUnknown, LoadBase64, Decode, LoadFile, ReadBuffer,
     CallParse, CallLoad, CallFree, DecodeView, FillBuffer,
     Allocate, Release, Hooks, Memory, ReadHook

(* A view has decoded data or has not.                                     *)
LEMMA ViewType ==
  ASSUME TypeOK, Next
  PROVE  view' \in [Views -> BOOLEAN]
<1>1. \/ view' = view
      \/ view' = [v \in Views |-> FALSE]
      \/ \E v \in Views : view' = [view EXCEPT ![v] = TRUE]
  BY DEF Next, Library, ParseStep, FreeStep, LoadStep, User, ReadFile, Container,
       CountTokens, AllocTokens, Tokenize, AllocData, ParseRoot, Fixup, Publish,
       ReleaseFile, FreeViews, FreeBuffers, FreeObjects, FreeFile, FreeData, LoadBin,
       LoadSkip, LoadUnknown, LoadBase64, Decode, LoadFile, ReadBuffer, CallParse,
       CallLoad, CallFree, DecodeView, FillBuffer
<1>. QED
  BY <1>1 DEF TypeOK

(* Every step that changes a buffer makes it a buffer.                     *)
LEMMA BufferSteps ==
  ASSUME Next
  PROVE  \/ buffer' = buffer
         \/ buffer' = [b \in Buffers |-> NoBuffer]
         \/ \E b \in Buffers, r \in BufferSet : buffer' = [buffer EXCEPT ![b] = r]
         \/ \E m \in {"memory", "file"} : SetMethod(m)
         \/ SetBuffer("block", "memory") \/ SetBuffer("block", "file")
<1>1. CASE LoadBin
  <2>1. N > 0 => 1 \in Buffers
    BY DocumentAssumption DEF Buffers
  <2>2. [data |-> "bin", method |-> "none"] \in BufferSet
    BY DEF BufferSet
  <2>. QED
    BY <1>1, <2>1, <2>2 DEF LoadBin
<1>2. CASE \E b \in Buffers : FillBuffer(b)
  BY <1>2 DEF FillBuffer, BufferSet
<1>3. CASE LoadBase64 \/ LoadFile \/ Decode \/ ReadBuffer
  BY <1>3 DEF LoadBase64, LoadFile, Decode, ReadBuffer
<1>4. CASE ParseStep \/ FreeStep \/ LoadSkip \/ LoadUnknown
  BY <1>4 DEF ParseStep, FreeStep, LoadSkip, LoadUnknown, ReadFile, Container,
       CountTokens, AllocTokens, Tokenize, AllocData, ParseRoot, Fixup, Publish,
       ReleaseFile, FreeViews, FreeBuffers, FreeObjects, FreeFile, FreeData
<1>5. CASE \/ CallParse \/ CallFree
           \/ \E o \in Origin, path \in BOOLEAN : CallLoad(o, path)
           \/ \E v \in Views : DecodeView(v)
  BY <1>5 DEF CallParse, CallFree, CallLoad, DecodeView
<1>. QED
  BY <1>1, <1>2, <1>3, <1>4, <1>5 DEF Next, Library, LoadStep, User

(* So a buffer stays a buffer, whatever a load does to it.                 *)
LEMMA BufferType ==
  ASSUME TypeOK, Next
  PROVE  buffer' \in [Buffers -> BufferSet]
<1>1. CASE \E m \in {"memory", "file"} : SetMethod(m)
  <2>1. PICK m \in {"memory", "file"} : SetMethod(m)
    BY <1>1
  <2>2. CASE i \in Buffers
    <3>1. [buffer[i] EXCEPT !.method = m] \in BufferSet
      BY <2>2 DEF TypeOK, BufferSet
    <3>. QED
      BY <2>1, <2>2, <3>1 DEF SetMethod, TypeOK
  <2>3. CASE i \notin Buffers
    BY <2>1, <2>3 DEF SetMethod, TypeOK
  <2>. QED
    BY <2>2, <2>3
<1>2. CASE SetBuffer("block", "memory") \/ SetBuffer("block", "file")
  BY <1>2 DEF SetBuffer, BufferSet, TypeOK
<1>3. CASE \/ buffer' = buffer
           \/ buffer' = [b \in Buffers |-> NoBuffer]
           \/ \E b \in Buffers, r \in BufferSet : buffer' = [buffer EXCEPT ![b] = r]
  BY <1>3 DEF NoBuffer, BufferSet, TypeOK
<1>. QED
  BY <1>1, <1>2, <1>3, BufferSteps

(* Every step keeps the types.                                             *)
LEMMA TypeStep ==
  ASSUME TypeOK, Loop, [Next]_vars
  PROVE  TypeOK'
<1>1. CASE Next
  BY <1>1, ControlType, FlagType, LoopIndexType, HeapType, ViewType, BufferType DEF TypeOK
<1>2. CASE UNCHANGED vars
  BY <1>2 DEF TypeOK, StepOfCall, vars, locals
<1>. QED
  BY <1>1, <1>2

-----------------------------------------------------------------------------
(* Calls, and a user's document.                                           *)

(* Every step keeps the relation of calls and documents.                   *)
LEMMA InCallStep ==
  ASSUME TypeOK, InCall, [Next]_vars
  PROVE  InCall'
<1>0. /\ call \in {"none", "parse", "load", "free"} /\ StepOfCall
      /\ handle \in BOOLEAN /\ mixed \in BOOLEAN
  BY DEF TypeOK
<1>. USE DEF StepOfCall, InCall, Goto, Return, Continue, NextBuffer, ParseFails,
       ParseSteps, FreeSteps, LoadSteps, locals
<1>1. CASE ParseStep
  <2>1. CASE ReadFile
    BY <1>0, <2>1 DEF ReadFile
  <2>2. CASE Container
    BY <1>0, <2>2 DEF Container
  <2>3. CASE CountTokens
    BY <1>0, <2>3 DEF CountTokens
  <2>4. CASE AllocTokens
    BY <1>0, <2>4 DEF AllocTokens
  <2>5. CASE Tokenize
    BY <1>0, <2>5 DEF Tokenize
  <2>6. CASE AllocData
    BY <1>0, <2>6 DEF AllocData
  <2>7. CASE ParseRoot
    BY <1>0, <2>7 DEF ParseRoot
  <2>8. CASE Fixup
    BY <1>0, <2>8 DEF Fixup
  <2>9. CASE Publish
    BY <1>0, <2>9 DEF Publish
  <2>10. CASE ReleaseFile
    BY <1>0, <2>10 DEF ReleaseFile
  <2>. QED
    BY <1>1, <2>1, <2>2, <2>3, <2>4, <2>5, <2>6, <2>7, <2>8, <2>9, <2>10 DEF ParseStep
<1>2. CASE FreeStep
  <2>1. CASE FreeViews
    BY <1>0, <2>1 DEF FreeViews
  <2>2. CASE FreeBuffers
    BY <1>0, <2>2 DEF FreeBuffers
  <2>3. CASE FreeObjects
    BY <1>0, <2>3 DEF FreeObjects
  <2>4. CASE FreeFile
    BY <1>0, <2>4 DEF FreeFile
  <2>5. CASE FreeData
    BY <1>0, <2>5 DEF FreeData
  <2>. QED
    BY <1>2, <2>1, <2>2, <2>3, <2>4, <2>5 DEF FreeStep
<1>3. CASE LoadStep
  BY <1>0, <1>3 DEF LoadStep, LoadBin, LoadSkip, LoadUnknown, LoadBase64, Decode, LoadFile,
       ReadBuffer, AtUnloaded
<1>4. CASE CallParse \/ CallFree \/ \E v \in Views : DecodeView(v)
  <2>1. CASE CallParse
    BY <1>0, <2>1 DEF CallParse
  <2>2. CASE CallFree
    BY <1>0, <2>2 DEF CallFree
  <2>3. CASE \E v \in Views : DecodeView(v)
    BY <1>0, <2>3 DEF DecodeView
  <2>. QED
    BY <1>4, <2>1, <2>2, <2>3
<1>5. CASE \E b \in Buffers : FillBuffer(b)
  BY <1>0, <1>5 DEF FillBuffer
<1>6. CASE \E o \in Origin, path \in BOOLEAN : CallLoad(o, path)
  <2>1. PICK o \in Origin, path \in BOOLEAN : CallLoad(o, path)
    BY <1>6
  <2>2. /\ call' = "load" /\ options' = o /\ pc' = "bin"
        /\ handle /\ UNCHANGED << handle, input >>
    BY <2>1 DEF CallLoad
  <2>3. ~mixed' => o = "doc"
    BY <2>1 DEF CallLoad, Origin
  <2>. QED
    BY <2>2, <2>3
<1>7. CASE UNCHANGED vars
  BY <1>7 DEF vars
<1>. QED
  BY <1>1, <1>2, <1>3, <1>4, <1>5, <1>6, <1>7 DEF Next, Library, User

(* Every step leaves a user without a document nothing of one.             *)
LEMMA BlankStep ==
  ASSUME TypeOK, InCall, Blank, [Next]_vars
  PROVE  Blank'
<1>0. /\ call \in {"none", "parse", "load", "free"} /\ StepOfCall
      /\ handle \in BOOLEAN
  BY DEF TypeOK
<1>. USE DEF StepOfCall, InCall, Blank, Goto, Return, Continue, NextBuffer,
       ParseFails, ParseSteps, FreeSteps, LoadSteps, NoBuffer
<1>1. CASE ParseStep
  <2>1. CASE ReadFile
    BY <1>0, <2>1 DEF ReadFile
  <2>2. CASE Container
    BY <1>0, <2>2 DEF Container
  <2>3. CASE CountTokens
    BY <1>0, <2>3 DEF CountTokens
  <2>4. CASE AllocTokens
    BY <1>0, <2>4 DEF AllocTokens
  <2>5. CASE Tokenize
    BY <1>0, <2>5 DEF Tokenize
  <2>6. CASE AllocData
    BY <1>0, <2>6 DEF AllocData
  <2>7. CASE ParseRoot
    BY <1>0, <2>7 DEF ParseRoot
  <2>8. CASE Fixup
    BY <1>0, <2>8 DEF Fixup
  <2>9. CASE Publish
    BY <1>0, <2>9 DEF Publish
  <2>10. CASE ReleaseFile
    BY <1>0, <2>10 DEF ReleaseFile
  <2>. QED
    BY <1>1, <2>1, <2>2, <2>3, <2>4, <2>5, <2>6, <2>7, <2>8, <2>9, <2>10 DEF ParseStep
<1>2. CASE FreeStep
  <2>1. CASE FreeViews
    BY <1>0, <2>1 DEF FreeViews
  <2>2. CASE FreeBuffers
    BY <1>0, <2>2 DEF FreeBuffers
  <2>3. CASE FreeObjects
    BY <1>0, <2>3 DEF FreeObjects
  <2>4. CASE FreeFile
    BY <1>0, <2>4 DEF FreeFile
  <2>5. CASE FreeData
    BY <1>0, <2>5 DEF FreeData
  <2>. QED
    BY <1>2, <2>1, <2>2, <2>3, <2>4, <2>5 DEF FreeStep
<1>3. CASE LoadStep
  <2>1. handle' = handle /\ call = "load"
    BY <1>0, <1>3 DEF LoadStep, LoadBin, LoadSkip, LoadUnknown, LoadBase64, Decode, LoadFile,
         ReadBuffer, AtUnloaded
  <2>. QED
    BY <2>1
<1>4. CASE User
  BY <1>0, <1>4 DEF User, CallParse, CallLoad, CallFree, DecodeView, FillBuffer
<1>5. CASE UNCHANGED vars
  BY <1>0, <1>5 DEF vars
<1>. QED
  BY <1>1, <1>2, <1>3, <1>4, <1>5 DEF Next, Library

-----------------------------------------------------------------------------
(* The loop of loadBuffers.                                                *)

(* SetMethod and SetBuffer, at a buffer.                                   *)
LEMMA SetIs ==
  ASSUME TypeOK, i \in Buffers
  PROVE  /\ \A m : SetMethod(m) =>
              /\ buffer'[i].data = buffer[i].data /\ buffer'[i].method = m
              /\ \A b \in Buffers : b # i => buffer'[b] = buffer[b]
         /\ \A d, m : SetBuffer(d, m) =>
              /\ buffer'[i].data = d /\ buffer'[i].method = m
              /\ \A b \in Buffers : b # i => buffer'[b] = buffer[b]
BY DEF TypeOK, BufferSet, SetMethod, SetBuffer

(* The index of the loop, while the loop runs.                             *)
LEMMA BelowN ==
  ASSUME i \in 1 .. (N + 1), i <= N
  PROVE  i \in Buffers
BY DocumentAssumption DEF Buffers

(* Where a load fills a buffer, there is one.                              *)
LEMMA AtBuffer ==
  ASSUME TypeOK, Loop, pc \in {"decode", "read buffer"} \/ AtUnloaded
  PROVE  i \in Buffers
<1>1. i <= N
  BY DEF Loop, AtUnloaded
<1>2. i \in 1 .. (N + 1)
  BY DEF TypeOK
<1>. QED
  BY <1>1, <1>2, BelowN

(* A buffer with data keeps its record in every step of a load.            *)
LEMMA LoadKeepsData ==
  ASSUME TypeOK, Loop, LoadStep
  PROVE  \A b \in Buffers : buffer[b].data # "null" => buffer'[b] = buffer[b]
<1>1. CASE LoadBin
  BY <1>1 DEF LoadBin, TypeOK
<1>2. CASE LoadSkip \/ LoadUnknown
  BY <1>2 DEF LoadSkip, LoadUnknown
<1>3. CASE LoadBase64 \/ LoadFile
  BY <1>3, SetIs, AtBuffer DEF LoadBase64, LoadFile, AtUnloaded
<1>4. CASE Decode \/ ReadBuffer
  BY <1>4, SetIs, AtBuffer DEF Decode, ReadBuffer, Loop
<1>. QED
  BY <1>1, <1>2, <1>3, <1>4 DEF LoadStep

(* The buffers before the index of the loop.                               *)
LEMMA UpTo ==
  ASSUME i \in 1 .. (N + 1)
  PROVE  /\ \A b \in 1 .. (i - 1) : b \in Buffers /\ b # i
         /\ \A b \in 1 .. ((i + 1) - 1) : b \in 1 .. (i - 1) \/ b = i
         /\ 1 .. (1 - 1) = {}
BY DocumentAssumption DEF Buffers

(* The loop either has ended or is at a buffer,                            *)
LEMMA NotAbove ==
  ASSUME i \in 1 .. (N + 1), ~(i > N)
  PROVE  i <= N
BY DocumentAssumption

(* and when it has ended it has been at every buffer.                      *)
LEMMA AllBelow ==
  ASSUME i \in 1 .. (N + 1), i > N
  PROVE  \A b \in Buffers : b \in 1 .. (i - 1)
BY DocumentAssumption DEF Buffers

(* A load goes from one buffer to the next when the buffer has data, or    *)
(* needs none.                                                             *)
LEMMA LoadMoves ==
  ASSUME TypeOK, Loop, LoadStep, call' = "load"
  PROVE  \/ i' = i
         \/ i' = i + 1 /\ (input.uri[i] # "none" => buffer'[i].data # "null")
<1>1. CASE LoadBin \/ LoadUnknown \/ LoadBase64 \/ LoadFile
  BY <1>1 DEF LoadBin, LoadUnknown, LoadBase64, LoadFile, Return, Continue, locals
<1>2. CASE LoadSkip
  <2>1. ~(i > N) /\ ~AtUnloaded /\ i' = i + 1 /\ buffer' = buffer
    BY <1>2 DEF LoadSkip, Return, NextBuffer
  <2>2. i <= N
    <3>1. i \in 1 .. (N + 1)
      BY DEF TypeOK
    <3>2. ~(i > N)
      BY <2>1
    <3>. QED
      BY <3>1, <3>2, NotAbove
  <2>. QED
    BY <1>2, <2>1, <2>2 DEF LoadSkip, AtUnloaded
<1>3. CASE Decode \/ ReadBuffer
  <2>1. i \in Buffers
    BY <1>3, AtBuffer DEF Decode, ReadBuffer
  <2>2. i' = i + 1 /\ (SetBuffer("block", "memory") \/ SetBuffer("block", "file"))
    BY <1>3 DEF Decode, ReadBuffer, Return, NextBuffer
  <2>. QED
    BY <2>1, <2>2, SetIs
<1>. QED
  BY <1>1, <1>2, <1>3 DEF LoadStep

(* No other step goes on with a load, or goes to fill a buffer.            *)
LEMMA InLoad ==
  ASSUME TypeOK, ParseStep \/ FreeStep \/ CallParse \/ CallFree
                 \/ (\E v \in Views : DecodeView(v)) \/ (\E b \in Buffers : FillBuffer(b))
  PROVE  call' # "load" /\ pc' \notin {"decode", "read buffer"}
<1>0. StepOfCall /\ call \in {"none", "parse", "load", "free"}
  BY DEF TypeOK
<1>. USE DEF StepOfCall, Goto, Return, Continue, ParseFails, ParseSteps, FreeSteps, LoadSteps
<1>1. CASE ParseStep
  BY <1>0, <1>1 DEF ParseStep, ReadFile, Container, CountTokens, AllocTokens, Tokenize,
       AllocData, ParseRoot, Fixup, Publish, ReleaseFile
<1>2. CASE FreeStep
  BY <1>0, <1>2 DEF FreeStep, FreeViews, FreeBuffers, FreeObjects, FreeFile, FreeData
<1>3. CASE \/ CallParse \/ CallFree
           \/ (\E v \in Views : DecodeView(v)) \/ (\E b \in Buffers : FillBuffer(b))
  BY <1>0, <1>3 DEF CallParse, CallFree, DecodeView, FillBuffer
<1>. QED
  BY <1>1, <1>2, <1>3

(* Every step keeps what the loop has done.                                *)
LEMMA LoopStep ==
  ASSUME TypeOK, Loop, [Next]_vars
  PROVE  Loop'
<1>1. CASE LoadStep
  <2>1. input' = input
    BY <1>1 DEF LoadStep, LoadBin, LoadSkip, LoadUnknown, LoadBase64, Decode, LoadFile,
         ReadBuffer
  <2>2. ASSUME pc' \in {"decode", "read buffer"}
        PROVE  /\ i' <= N /\ buffer'[i'].data = "null"
               /\ pc' = "decode" => heap'[BufferBlock(i')] = Memory(options')
    <3>1. \/ LoadBase64 /\ Allocate(BufferBlock(i), Memory(options)) /\ Continue("decode")
             /\ buffer' = buffer
          \/ LoadFile /\ Continue("read buffer") /\ buffer' = buffer
      BY <1>1, <2>2 DEF LoadStep, LoadBin, LoadSkip, LoadUnknown, LoadBase64, Decode,
           LoadFile, ReadBuffer, Goto, Return, Continue, NextBuffer
    <3>2. AtUnloaded
      BY <3>1 DEF LoadBase64, LoadFile
    <3>3. BufferBlock(i) \in Block
      BY <3>2, AtBuffer, BlockFacts
    <3>4. i' = i /\ options' = options
      BY <3>1 DEF Continue, locals
    <3>5. pc' = "decode" => heap'[BufferBlock(i)] = Memory(options)
      BY <3>1, <3>3, AllocateIs DEF Continue, Goto
    <3>. QED
      BY <3>1, <3>2, <3>4, <3>5 DEF AtUnloaded
  <2>3. ASSUME call' = "load", NEW b \in 1 .. (i' - 1), input.uri[b] # "none"
        PROVE  buffer'[b].data # "null"
    <3>1. call = "load"
      BY <1>1 DEF LoadStep, LoadBin, LoadSkip, LoadUnknown, LoadBase64, Decode, LoadFile,
           ReadBuffer, AtUnloaded, TypeOK, StepOfCall, ParseSteps, FreeSteps, LoadSteps
    <3>2. i \in 1 .. (N + 1)
      BY DEF TypeOK
    <3>3. b \in 1 .. (i - 1) \/ b = i
      BY <1>1, <2>3, <3>2, LoadMoves, UpTo
    <3>4. CASE b \in 1 .. (i - 1)
      BY <1>1, <2>3, <3>1, <3>2, <3>4, UpTo, LoadKeepsData DEF Loop
    <3>5. CASE b = i /\ b \notin 1 .. (i - 1)
      BY <1>1, <2>3, <3>5, LoadMoves
    <3>. QED
      BY <3>3, <3>4, <3>5
  <2>. QED
    BY <2>1, <2>2, <2>3 DEF Loop
<1>2. CASE \E o \in Origin, path \in BOOLEAN : CallLoad(o, path)
  <2>1. pc' = "bin" /\ i' = 1
    BY <1>2 DEF CallLoad, Goto
  <2>2. 1 .. (i' - 1) = {}
    BY <2>1
  <2>. QED
    BY <2>1, <2>2 DEF Loop
<1>3. CASE \/ ParseStep \/ FreeStep \/ CallParse \/ CallFree
           \/ (\E v \in Views : DecodeView(v)) \/ (\E b \in Buffers : FillBuffer(b))
  BY <1>3, InLoad DEF Loop
<1>4. CASE UNCHANGED vars
  BY <1>4 DEF vars, locals, Loop, Memory
<1>. QED
  BY <1>1, <1>2, <1>3, <1>4 DEF Next, Library, User

-----------------------------------------------------------------------------
(* The blocks of the parser and of the document itself.                    *)

(* A parse holds what it should at every step, also when it fails.         *)
LEMMA SingleBlocksInParse ==
  ASSUME TypeOK, InCall, SingleBlocks, ParseStep
  PROVE  SingleBlocks'
<1>0. /\ call \in {"none", "parse", "load", "free"} /\ StepOfCall
      /\ handle \in BOOLEAN /\ file_data \in BOOLEAN
  BY DEF TypeOK
<1>. USE DEF StepOfCall, InCall, SingleBlocks, TokensHeld, DataHeld, ObjectsMay, FileHeld,
       ReadHook, Memory, Goto, Return, Continue, ParseFails, ParseSteps, FreeSteps, LoadSteps
<1>1. CASE ReadFile
  <2>1. CASE Allocate(File, ReadHook("doc")) /\ Continue("container")
    <3>1. heap'[File] = ReadHook("doc") /\ \A y \in Block : y # File => heap'[y] = heap[y]
      BY <2>1, AllocateIs, BlockFacts
    <3>. QED
      BY <1>0, <1>1, <2>1, <3>1, BlockFacts DEF ReadFile
  <2>2. CASE ~(Allocate(File, ReadHook("doc")) /\ Continue("container"))
    BY <1>0, <1>1, <2>2 DEF ReadFile
  <2>. QED
    BY <2>1, <2>2
<1>2. CASE Container
  BY <1>0, <1>2 DEF Container
<1>3. CASE CountTokens
  BY <1>0, <1>3 DEF CountTokens
<1>4. CASE AllocTokens
  <2>1. CASE Allocate(Tokens, "doc.memory") /\ Continue("tokenize")
    <3>1. heap'[Tokens] = "doc.memory" /\ \A y \in Block : y # Tokens => heap'[y] = heap[y]
      BY <2>1, AllocateIs, BlockFacts
    <3>. QED
      BY <1>0, <1>4, <2>1, <3>1, BlockFacts DEF AllocTokens
  <2>2. CASE ~(Allocate(Tokens, "doc.memory") /\ Continue("tokenize"))
    BY <1>0, <1>4, <2>2 DEF AllocTokens
  <2>. QED
    BY <2>1, <2>2
<1>5. CASE Tokenize
  <2>1. CASE ParseFails("invalid_json") /\ Release(Tokens, "doc.memory")
    <3>1. heap'[Tokens] = "free" /\ \A y \in Block : y # Tokens => heap'[y] = heap[y]
      BY <2>1, ReleaseIs, BlockFacts
    <3>. QED
      BY <1>0, <1>5, <2>1, <3>1, BlockFacts DEF Tokenize
  <2>2. CASE Continue("alloc") /\ UNCHANGED << heap, misfree >>
    BY <1>0, <1>5, <2>2 DEF Tokenize
  <2>. QED
    BY <1>5, <2>1, <2>2 DEF Tokenize
<1>6. CASE AllocData
  <2>1. CASE ParseFails("out_of_memory") /\ Release(Tokens, "doc.memory")
             /\ UNCHANGED << file_data, buffer, view >>
    <3>1. heap'[Tokens] = "free" /\ \A y \in Block : y # Tokens => heap'[y] = heap[y]
      BY <2>1, ReleaseIs, BlockFacts
    <3>. QED
      BY <1>0, <1>6, <2>1, <3>1, BlockFacts DEF AllocData
  <2>2. CASE Allocate(Data, "doc.memory") /\ Continue("root") /\ file_data' = FALSE
    <3>1. heap'[Data] = "doc.memory" /\ \A y \in Block : y # Data => heap'[y] = heap[y]
      BY <2>2, AllocateIs, BlockFacts
    <3>. QED
      BY <1>0, <1>6, <2>2, <3>1, BlockFacts DEF AllocData
  <2>. QED
    BY <1>6, <2>1, <2>2 DEF AllocData
<1>7. CASE ParseRoot
  <2>1. /\ heap'[Tokens] = "free" /\ heap'[Objects] \in {"free", "doc.memory"}
        /\ \A y \in Block : y # Tokens /\ y # Objects => heap'[y] = heap[y]
    BY <1>7, BlockFacts DEF ParseRoot, TypeOK
  <2>. QED
    BY <1>0, <1>7, <2>1, BlockFacts DEF ParseRoot, locals
<1>8. CASE Fixup
  BY <1>0, <1>8 DEF Fixup, locals
<1>9. CASE Publish
  BY <1>0, <1>9 DEF Publish
<1>10. CASE ReleaseFile
  <2>1. heap'[File] = "free" /\ \A y \in Block : y # File => heap'[y] = heap[y]
    BY <1>10, ReleaseIs, BlockFacts DEF ReleaseFile
  <2>. QED
    BY <1>0, <1>10, <2>1, BlockFacts DEF ReleaseFile
<1>. QED
  BY <1>1, <1>2, <1>3, <1>4, <1>5, <1>6, <1>7, <1>8, <1>9, <1>10 DEF ParseStep

(* A free gives each of these blocks back in its own step.                 *)
LEMMA SingleBlocksInFree ==
  ASSUME TypeOK, InCall, SingleBlocks, FreeStep
  PROVE  SingleBlocks'
<1>0. /\ call \in {"none", "parse", "load", "free"} /\ StepOfCall
      /\ handle \in BOOLEAN /\ file_data \in BOOLEAN
  BY DEF TypeOK
<1>. USE DEF StepOfCall, InCall, SingleBlocks, TokensHeld, DataHeld, ObjectsMay, FileHeld,
       ReadHook, Memory, Goto, Return, Continue, ParseFails, ParseSteps, FreeSteps, LoadSteps
<1>1. CASE FreeViews
  <2>1. \A x \in {Tokens, Data, Objects, File, Path} : heap'[x] = heap[x]
    BY <1>1, BlockFacts, BlockKinds DEF FreeViews
  <2>. QED
    BY <1>0, <1>1, <2>1 DEF FreeViews, locals
<1>2. CASE FreeBuffers
  <2>1. \A x \in {Tokens, Data, Objects, File, Path} : heap'[x] = heap[x]
    BY <1>2, BlockFacts, BlockKinds DEF FreeBuffers
  <2>. QED
    BY <1>0, <1>2, <2>1 DEF FreeBuffers, locals
<1>3. CASE FreeObjects
  <2>1. heap'[Objects] = "free" /\ \A y \in Block : y # Objects => heap'[y] = heap[y]
    BY <1>3, ReleaseIs, BlockFacts DEF FreeObjects
  <2>. QED
    BY <1>0, <1>3, <2>1, BlockFacts DEF FreeObjects, locals
<1>4. CASE FreeFile
  <2>1. CASE file_data
    <3>1. heap'[File] = "free" /\ \A y \in Block : y # File => heap'[y] = heap[y]
      BY <1>4, <2>1, ReleaseIs, BlockFacts DEF FreeFile
    <3>. QED
      BY <1>0, <1>4, <2>1, <3>1, BlockFacts DEF FreeFile, locals
  <2>2. CASE ~file_data
    BY <1>0, <1>4, <2>2 DEF FreeFile, locals
  <2>. QED
    BY <2>1, <2>2
<1>5. CASE FreeData
  <2>1. heap'[Data] = "free" /\ \A y \in Block : y # Data => heap'[y] = heap[y]
    BY <1>5, ReleaseIs, BlockFacts DEF FreeData
  <2>. QED
    BY <1>0, <1>5, <2>1, BlockFacts DEF FreeData
<1>. QED
  BY <1>1, <1>2, <1>3, <1>4, <1>5 DEF FreeStep

(* A load holds none of them but the path.                                 *)
LEMMA SingleBlocksInLoad ==
  ASSUME TypeOK, InCall, Loop, SingleBlocks, LoadStep
  PROVE  SingleBlocks'
<1>0. /\ call \in {"none", "parse", "load", "free"} /\ StepOfCall
      /\ handle \in BOOLEAN /\ file_data \in BOOLEAN
  BY DEF TypeOK
<1>1. /\ call = "load" /\ call' \in {"load", "none"} /\ handle
      /\ pc \in LoadSteps /\ pc' \in LoadSteps \cup {"idle"}
      /\ UNCHANGED << input, handle, file_data >>
  BY <1>0 DEF LoadStep, LoadBin, LoadSkip, LoadUnknown, LoadBase64, Decode, LoadFile, ReadBuffer,
       AtUnloaded, StepOfCall, InCall, Goto, Return, Continue, NextBuffer,
       ParseSteps, FreeSteps, LoadSteps
<1>2. /\ \A x \in {Tokens, Data, Objects, File} : heap'[x] = heap[x]
      /\ heap'[Path] = IF pc' = "read buffer" THEN Memory(options') ELSE "free"
  <2>1. CASE LoadBin \/ LoadSkip \/ LoadUnknown
    BY <2>1 DEF LoadBin, LoadSkip, LoadUnknown, SingleBlocks, AtUnloaded,
         Goto, Return, Continue, NextBuffer
  <2>2. CASE LoadBase64
    <3>1. BufferBlock(i) \in Block /\ BufferBlock(i) \notin {Tokens, Data, Objects, File, Path}
      BY <2>2, AtBuffer, BlockFacts DEF LoadBase64
    <3>2. \A y \in Block : y # BufferBlock(i) => heap'[y] = heap[y]
      BY <2>2, <3>1, AllocateIs DEF LoadBase64
    <3>3. pc = "loop" /\ pc' # "read buffer"
      BY <2>2 DEF LoadBase64, AtUnloaded, Goto, Return, Continue
    <3>. QED
      BY <3>1, <3>2, <3>3, BlockFacts DEF SingleBlocks
  <2>3. CASE Decode
    <3>1. BufferBlock(i) \in Block /\ BufferBlock(i) \notin {Tokens, Data, Objects, File, Path}
      BY <2>3, AtBuffer, BlockFacts DEF Decode
    <3>2. \A y \in Block : y # BufferBlock(i) => heap'[y] = heap[y]
      BY <2>3, <3>1, ReleaseIs DEF Decode
    <3>3. pc = "decode" /\ pc' # "read buffer"
      BY <2>3 DEF Decode, Goto, Return, NextBuffer
    <3>. QED
      BY <3>1, <3>2, <3>3, BlockFacts DEF SingleBlocks
  <2>4. CASE LoadFile
    <3>1. CASE Allocate(Path, Memory(options)) /\ Continue("read buffer")
      <4>1. heap'[Path] = Memory(options) /\ \A y \in Block : y # Path => heap'[y] = heap[y]
        BY <3>1, AllocateIs, BlockFacts
      <4>2. pc' = "read buffer" /\ options' = options
        BY <3>1 DEF Continue, Goto, locals
      <4>. QED
        BY <4>1, <4>2, BlockFacts DEF Memory
    <3>2. CASE Return("out_of_memory") /\ UNCHANGED << heap, misfree >>
      BY <2>4, <3>2 DEF LoadFile, AtUnloaded, SingleBlocks, Return, Goto
    <3>. QED
      BY <2>4, <3>1, <3>2 DEF LoadFile
  <2>5. CASE ReadBuffer
    <3>1. BufferBlock(i) \in Block /\ BufferBlock(i) \notin {Tokens, Data, Objects, File, Path}
      BY <2>5, AtBuffer, BlockFacts DEF ReadBuffer
    <3>2. pc' # "read buffer"
      BY <2>5 DEF ReadBuffer, Goto, Return, NextBuffer
    <3>3. CASE Release(Path, Memory(options))
      <4>1. heap'[Path] = "free" /\ \A y \in Block : y # Path => heap'[y] = heap[y]
        BY <3>3, ReleaseIs, BlockFacts
      <4>. QED
        BY <3>2, <4>1, BlockFacts
    <3>4. CASE heap' = [heap EXCEPT ![Path] = "free", ![BufferBlock(i)] = ReadHook(options)]
      <4>1. heap'[Path] = "free"
        BY <3>1, <3>4, BlockFacts DEF TypeOK
      <4>2. \A y \in Block : y # Path /\ y # BufferBlock(i) => heap'[y] = heap[y]
        BY <3>1, <3>4, BlockFacts DEF TypeOK
      <4>. QED
        BY <3>1, <3>2, <4>1, <4>2, BlockFacts
    <3>. QED
      BY <2>5, <3>3, <3>4 DEF ReadBuffer
  <2>. QED
    BY <2>1, <2>2, <2>3, <2>4, <2>5 DEF LoadStep
<1>. QED
  BY <1>0, <1>1, <1>2 DEF SingleBlocks, TokensHeld, DataHeld, ObjectsMay, FileHeld,
       ReadHook, Memory, ParseSteps, FreeSteps, LoadSteps

(* Every step keeps them as they should be.                                *)
LEMMA SingleBlocksStep ==
  ASSUME TypeOK, InCall, Loop, SingleBlocks, [Next]_vars
  PROVE  SingleBlocks'
<1>0. /\ call \in {"none", "parse", "load", "free"} /\ StepOfCall
      /\ handle \in BOOLEAN /\ file_data \in BOOLEAN
  BY DEF TypeOK
<1>. USE DEF StepOfCall, InCall, SingleBlocks, TokensHeld, DataHeld, ObjectsMay, FileHeld,
       ReadHook, Memory, Goto, ParseSteps, FreeSteps, LoadSteps
<1>1. CASE CallParse
  BY <1>0, <1>1 DEF CallParse
<1>2. CASE CallFree
  BY <1>0, <1>2 DEF CallFree
<1>3. CASE \E o \in Origin, path \in BOOLEAN : CallLoad(o, path)
  BY <1>0, <1>3 DEF CallLoad
<1>4. CASE \/ \E v \in Views : DecodeView(v)
           \/ \E b \in Buffers : FillBuffer(b)
  <2>1. \A x \in {Tokens, Data, Objects, File, Path} : heap'[x] = heap[x]
    <3>1. CASE \E v \in Views : DecodeView(v)
      <4>1. PICK v \in Views : Allocate(ViewBlock(v), "doc.memory")
        BY <3>1 DEF DecodeView
      <4>. QED
        BY <4>1, AllocateIs, BlockFacts
    <3>2. CASE \E b \in Buffers : FillBuffer(b)
      <4>1. PICK b \in Buffers : heap' = heap \/ Allocate(BufferBlock(b), "doc.memory")
        BY <3>2 DEF FillBuffer
      <4>. QED
        BY <4>1, AllocateIs, BlockFacts
    <3>. QED
      BY <1>4, <3>1, <3>2
  <2>2. UNCHANGED << input, pc, call, options, handle, file_data >>
    BY <1>4 DEF DecodeView, FillBuffer, locals
  <2>. QED
    BY <1>0, <2>1, <2>2
<1>5. CASE UNCHANGED vars
  BY <1>0, <1>5 DEF vars, locals
<1>. QED
  BY <1>1, <1>2, <1>3, <1>4, <1>5, SingleBlocksInParse, SingleBlocksInFree,
     SingleBlocksInLoad DEF Next, Library, User

-----------------------------------------------------------------------------
(* The data of the buffers.                                                *)

(* A parse has no data of a buffer.                                        *)
LEMMA BufferBlocksInParse ==
  ASSUME TypeOK, InCall, Blank, BufferBlocks, ParseStep
  PROVE  BufferBlocks'
<1>1. /\ input' = input /\ (mixed => mixed') /\ ~handle
      /\ pc \in ParseSteps /\ pc' \in ParseSteps \cup {"idle", "free views"}
  <2>1. /\ StepOfCall /\ call \in {"none", "parse", "load", "free"}
    BY DEF TypeOK
  <2>2. input' = input /\ mixed' = mixed
    BY DEF ParseStep, ReadFile, Container, CountTokens, AllocTokens, Tokenize, AllocData,
         ParseRoot, Fixup, Publish, ReleaseFile
  <2>3. pc \in ParseSteps /\ pc' \in ParseSteps \cup {"idle", "free views"}
    BY DEF ParseStep, ReadFile, Container, CountTokens, AllocTokens, Tokenize, AllocData,
         ParseRoot, Fixup, Publish, ReleaseFile, ParseSteps, ParseFails, Goto, Return, Continue
  <2>4. call = "parse"
    BY <2>1, <2>3 DEF StepOfCall, ParseSteps, FreeSteps, LoadSteps
  <2>. QED
    BY <2>2, <2>3, <2>4 DEF InCall
<1>2. \A b \in Buffers : heap'[BufferBlock(b)] = heap[BufferBlock(b)]
  <2>1. CASE ReadFile \/ ReleaseFile
    BY <2>1, AllocateIs, ReleaseIs, BlockFacts DEF ReadFile, ReleaseFile
  <2>2. CASE AllocTokens \/ Tokenize
    BY <2>2, AllocateIs, ReleaseIs, BlockFacts DEF AllocTokens, Tokenize
  <2>3. CASE AllocData
    BY <2>3, AllocateIs, ReleaseIs, BlockFacts DEF AllocData
  <2>4. CASE ParseRoot
    BY <2>4, BlockFacts DEF ParseRoot, TypeOK
  <2>5. CASE Container \/ CountTokens \/ Fixup \/ Publish
    BY <2>5 DEF Container, CountTokens, Fixup, Publish
  <2>. QED
    BY <2>1, <2>2, <2>3, <2>4, <2>5 DEF ParseStep
<1>3. buffer' = buffer \/ buffer' = [b \in Buffers |-> NoBuffer]
  BY DEF ParseStep, ReadFile, Container, CountTokens, AllocTokens, Tokenize, AllocData,
       ParseRoot, Fixup, Publish, ReleaseFile
<1>. SUFFICES ASSUME NEW b \in Buffers
              PROVE  BufferOK(b)'
  BY DEF BufferBlocks
<1>4. /\ buffer[b].data = "null" /\ buffer[b].method = "none"
      /\ buffer'[b].data = "null" /\ buffer'[b].method = "none"
  <2>1. buffer[b].data = "null" /\ buffer[b].method = "none"
    BY <1>1 DEF Blank
  <2>2. buffer'[b] = buffer[b] \/ buffer'[b] = NoBuffer
    BY <1>3
  <2>. QED
    BY <2>1, <2>2 DEF NoBuffer
<1>. QED
  BY <1>1, <1>2, <1>4 DEF BufferBlocks, BufferOK, ParseSteps

(* A free gives back the data of every buffer that owns it.                *)
LEMMA BufferBlocksInFree ==
  ASSUME TypeOK, BufferBlocks, FreeStep
  PROVE  BufferBlocks'
<1>. SUFFICES ASSUME NEW b \in Buffers
              PROVE  BufferOK(b)'
  BY DEF BufferBlocks
<1>0. BufferOK(b)
  BY DEF BufferBlocks
<1>1. CASE FreeViews
  <2>1. heap'[BufferBlock(b)] = heap[BufferBlock(b)]
    BY <1>1, BlockFacts, BlockKinds DEF FreeViews
  <2>. QED
    BY <1>0, <1>1, <2>1, BufferKept DEF FreeViews, Goto, AfterBuffers
<1>2. CASE FreeBuffers
  <2>1. heap'[BufferBlock(b)] = IF Freed(b) THEN "free" ELSE heap[BufferBlock(b)]
    BY <1>2, BlockFacts, BlockKinds DEF FreeBuffers
  <2>2. pc = "free buffers" /\ pc' = "free objects" /\ buffer' = buffer
    BY <1>2 DEF FreeBuffers, Goto
  <2>. QED
    BY <1>0, <2>1, <2>2 DEF BufferOK, Freed, AfterBuffers
<1>3. CASE FreeObjects \/ FreeFile
  <2>1. heap'[BufferBlock(b)] = heap[BufferBlock(b)]
    BY <1>3, ReleaseIs, BlockFacts DEF FreeObjects, FreeFile
  <2>2. pc \in AfterBuffers /\ pc' \in AfterBuffers /\ UNCHANGED << input, buffer, mixed >>
    BY <1>3 DEF FreeObjects, FreeFile, Goto, AfterBuffers
  <2>. QED
    BY <1>0, <2>1, <2>2, BufferKept DEF AfterBuffers
<1>4. CASE FreeData
  <2>1. heap'[BufferBlock(b)] = heap[BufferBlock(b)]
    BY <1>4, ReleaseIs, BlockFacts DEF FreeData
  <2>2. buffer'[b].data = "null" /\ buffer'[b].method = "none"
    BY <1>4 DEF FreeData, NoBuffer
  <2>3. heap[BufferBlock(b)] = "free"
    BY <1>0, <1>4 DEF FreeData, BufferOK, AfterBuffers
  <2>. QED
    BY <2>1, <2>2, <2>3 DEF BufferOK
<1>. QED
  BY <1>1, <1>2, <1>3, <1>4 DEF FreeStep

(* A load records the hook of every block it gives a buffer.               *)
LEMMA BufferBlocksInLoad ==
  ASSUME TypeOK, InCall, Loop, BufferBlocks, LoadStep
  PROVE  BufferBlocks'
<1>. SUFFICES ASSUME NEW b \in Buffers
              PROVE  BufferOK(b)'
  BY DEF BufferBlocks
<1>0. BufferOK(b)
  BY DEF BufferBlocks
<1>1. /\ input' = input /\ mixed' = mixed
      /\ pc \notin AfterBuffers /\ pc' \notin AfterBuffers
  BY DEF LoadStep, LoadBin, LoadSkip, LoadUnknown, LoadBase64, Decode, LoadFile, ReadBuffer,
       AtUnloaded, Goto, Return, Continue, NextBuffer, AfterBuffers
<1>2. CASE LoadBin
  <2>1. \/ buffer'[b] = buffer[b]
        \/ /\ buffer[b].data = "null"
           /\ buffer'[b].data = "bin" /\ buffer'[b].method = "none"
    BY <1>2 DEF LoadBin, TypeOK
  <2>2. heap' = heap /\ pc = "bin"
    BY <1>2 DEF LoadBin
  <2>. QED
    BY <1>0, <1>1, <2>1, <2>2, BufferKept DEF BufferOK
<1>3. CASE LoadSkip \/ LoadUnknown
  <2>1. heap' = heap /\ buffer' = buffer /\ pc = "loop"
    BY <1>3 DEF LoadSkip, LoadUnknown, AtUnloaded
  <2>. QED
    BY <1>0, <1>1, <2>1, BufferKept
<1>4. CASE LoadBase64
  <2>1. i \in Buffers /\ BufferBlock(i) \in Block /\ pc = "loop" /\ buffer[i].data = "null"
    BY <1>4, AtBuffer, BlockFacts DEF LoadBase64, AtUnloaded
  <2>2. CASE Return("out_of_memory") /\ SetMethod("memory") /\ UNCHANGED << heap, misfree >>
    <3>1. /\ b # i => buffer'[b] = buffer[b]
          /\ buffer'[i].data = "null"
      BY <2>1, <2>2, SetIs
    <3>. QED
      BY <1>0, <1>1, <2>1, <2>2, <3>1, BufferKept DEF BufferOK
  <2>3. CASE /\ Allocate(BufferBlock(i), Memory(options))
             /\ Continue("decode") /\ UNCHANGED buffer
    <3>1. b # i => heap'[BufferBlock(b)] = heap[BufferBlock(b)]
      BY <2>1, <2>3, AllocateIs, BlockFacts
    <3>2. pc' = "decode" /\ i' = i
      BY <2>3 DEF Continue, Goto, locals
    <3>. QED
      BY <1>0, <1>1, <2>1, <2>3, <3>1, <3>2, BufferKept DEF BufferOK
  <2>. QED
    BY <1>4, <2>2, <2>3 DEF LoadBase64
<1>5. CASE Decode
  <2>1. /\ i \in Buffers /\ BufferBlock(i) \in Block /\ pc = "decode"
        /\ buffer[i].data = "null" /\ heap[BufferBlock(i)] = Memory(options)
    BY <1>5, AtBuffer, BlockFacts DEF Decode, Loop
  <2>2. CASE SetBuffer("block", "memory") /\ UNCHANGED << heap, misfree >>
    <3>1. /\ b # i => buffer'[b] = buffer[b]
          /\ buffer'[i].data = "block" /\ buffer'[i].method = "memory"
      BY <2>1, <2>2, SetIs
    <3>2. b = i => FreeHook(b)' = "doc.memory"
      BY <3>1 DEF FreeHook
    <3>3. /\ ~mixed => heap[BufferBlock(i)] = "doc.memory"
          /\ heap[BufferBlock(i)] # "free"
      BY <2>1 DEF InCall, Memory
    <3>. QED
      <4>1. CASE b = i
        BY <1>1, <2>2, <3>1, <3>2, <3>3, <4>1 DEF BufferOK
      <4>2. CASE b # i
        BY <1>0, <1>1, <2>2, <3>1, <4>2, BufferKept
      <4>. QED
        BY <4>1, <4>2
  <2>3. CASE SetMethod("memory") /\ Release(BufferBlock(i), Memory(options))
    <3>1. /\ b # i => buffer'[b] = buffer[b]
          /\ buffer'[i].data = "null"
      BY <2>1, <2>3, SetIs
    <3>2. /\ b # i => heap'[BufferBlock(b)] = heap[BufferBlock(b)]
          /\ heap'[BufferBlock(i)] = "free"
      BY <2>1, <2>3, ReleaseIs, BlockFacts
    <3>. QED
      BY <1>0, <1>1, <2>1, <3>1, <3>2, BufferKept DEF BufferOK
  <2>. QED
    BY <1>5, <2>2, <2>3 DEF Decode
<1>6. CASE LoadFile
  <2>1. i \in Buffers /\ pc = "loop" /\ buffer[i].data = "null"
    BY <1>6, AtBuffer DEF LoadFile, AtUnloaded
  <2>2. heap'[BufferBlock(b)] = heap[BufferBlock(b)]
    BY <1>6, AllocateIs, BlockFacts DEF LoadFile
  <2>3. /\ b # i => buffer'[b] = buffer[b]
        /\ buffer'[b] = buffer[b] \/ buffer'[i].data = "null"
    BY <1>6, <2>1, SetIs DEF LoadFile
  <2>. QED
    BY <1>0, <1>1, <2>1, <2>2, <2>3, BufferKept DEF BufferOK
<1>7. CASE ReadBuffer
  <2>1. /\ i \in Buffers /\ BufferBlock(i) \in Block /\ Path \in Block
        /\ pc = "read buffer" /\ buffer[i].data = "null"
    BY <1>7, AtBuffer, BlockFacts DEF ReadBuffer, Loop
  <2>2. CASE SetMethod("file") /\ Release(Path, Memory(options))
    <3>1. /\ b # i => buffer'[b] = buffer[b]
          /\ buffer'[i].data = "null"
      BY <2>1, <2>2, SetIs
    <3>2. heap'[BufferBlock(b)] = heap[BufferBlock(b)]
      BY <2>2, ReleaseIs, BlockFacts
    <3>. QED
      BY <1>0, <1>1, <2>1, <3>1, <3>2, BufferKept DEF BufferOK
  <2>3. CASE /\ heap' = [heap EXCEPT ![Path] = "free", ![BufferBlock(i)] = ReadHook(options)]
             /\ SetBuffer("block", "file")
    <3>1. /\ b # i => buffer'[b] = buffer[b]
          /\ buffer'[i].data = "block" /\ buffer'[i].method = "file"
      BY <2>1, <2>3, SetIs
    <3>2. heap'[BufferBlock(i)] = ReadHook(options)
      BY <2>1, <2>3, BlockFacts DEF TypeOK
    <3>3. b # i => heap'[BufferBlock(b)] = heap[BufferBlock(b)]
      BY <2>1, <2>3, BlockFacts DEF TypeOK
    <3>4. b = i => FreeHook(b)' = ReadHook("doc")
      BY <1>1, <3>1 DEF FreeHook, ReadHook, Memory
    <3>5. ReadHook(options) # "free" /\ (~mixed => ReadHook(options) = ReadHook("doc"))
      BY DEF InCall, ReadHook, Memory
    <3>. QED
      <4>1. CASE b = i
        BY <1>1, <3>1, <3>2, <3>4, <3>5, <4>1 DEF BufferOK
      <4>2. CASE b # i
        BY <1>0, <1>1, <3>1, <3>3, <4>2, BufferKept
      <4>. QED
        BY <4>1, <4>2
  <2>. QED
    BY <1>7, <2>2, <2>3 DEF ReadBuffer
<1>. QED
  BY <1>2, <1>3, <1>4, <1>5, <1>6, <1>7 DEF LoadStep

(* Every step keeps methods and hooks in agreement.                        *)
LEMMA BufferBlocksStep ==
  ASSUME TypeOK, InCall, Loop, Blank, BufferBlocks, [Next]_vars
  PROVE  BufferBlocks'
<1>1. CASE User \/ UNCHANGED vars
  <2>. SUFFICES ASSUME NEW b \in Buffers
                PROVE  BufferOK(b)'
    BY DEF BufferBlocks
  <2>0. BufferOK(b)
    BY DEF BufferBlocks
  <2>1. StepOfCall
    BY DEF TypeOK
  <2>2. CASE \/ CallParse \/ CallFree
             \/ \E o \in Origin, path \in BOOLEAN : CallLoad(o, path)
    <3>1. /\ UNCHANGED << input, heap, buffer >> /\ (mixed => mixed')
          /\ pc = "idle" /\ pc' \notin AfterBuffers
      <4>1. CASE CallParse
        BY <2>1, <4>1 DEF CallParse, StepOfCall, Goto, AfterBuffers
      <4>3. CASE CallFree
        BY <2>1, <4>3 DEF CallFree, StepOfCall, Goto, AfterBuffers
      <4>2. CASE \E o \in Origin, path \in BOOLEAN : CallLoad(o, path)
        BY <2>1, <4>2 DEF CallLoad, StepOfCall, Goto, AfterBuffers
      <4>. QED
        BY <2>2, <4>1, <4>2, <4>3
    <3>. QED
      BY <2>0, <3>1, BufferKept DEF AfterBuffers
  <2>3. CASE \E v \in Views : DecodeView(v)
    <3>1. heap'[BufferBlock(b)] = heap[BufferBlock(b)]
      BY <2>3, AllocateIs, BlockFacts DEF DecodeView
    <3>2. UNCHANGED << input, buffer, pc, mixed >> /\ pc = "idle"
      BY <2>1, <2>3 DEF DecodeView, StepOfCall
    <3>. QED
      BY <2>0, <3>1, <3>2, BufferKept
  <2>4. CASE \E c \in Buffers : FillBuffer(c)
    <3>1. PICK c \in Buffers : FillBuffer(c)
      BY <2>4
    <3>2. UNCHANGED << input, pc, mixed >> /\ pc = "idle" /\ buffer[c].data = "null"
      BY <2>1, <3>1 DEF FillBuffer, StepOfCall
    <3>3. BufferBlock(c) \in Block
      BY BlockFacts
    <3>4. BufferOK(c)
      BY DEF BufferBlocks
    <3>5. CASE /\ buffer' = [buffer EXCEPT ![c] = [data |-> "lent", method |-> "none"]]
               /\ UNCHANGED << heap, misfree >>
      <4>1. /\ b # c => buffer'[b] = buffer[b]
            /\ buffer'[c].data = "lent" /\ buffer'[c].method = "none"
        BY <3>5 DEF TypeOK
      <4>. QED
        BY <2>0, <3>2, <3>4, <3>5, <4>1, BufferKept DEF BufferOK
    <3>6. CASE /\ buffer' = [buffer EXCEPT ![c] = [data |-> "block", method |-> "memory"]]
               /\ Allocate(BufferBlock(c), "doc.memory")
      <4>1. /\ b # c => buffer'[b] = buffer[b]
            /\ buffer'[c].data = "block" /\ buffer'[c].method = "memory"
        BY <3>6 DEF TypeOK
      <4>2. /\ b # c => heap'[BufferBlock(b)] = heap[BufferBlock(b)]
            /\ heap'[BufferBlock(c)] = "doc.memory"
        BY <3>3, <3>6, AllocateIs, BlockFacts
      <4>3. FreeHook(c)' = "doc.memory"
        BY <4>1 DEF FreeHook
      <4>. QED
        <5>1. CASE b = c
          BY <3>2, <4>1, <4>2, <4>3, <5>1 DEF BufferOK, AfterBuffers
        <5>2. CASE b # c
          BY <2>0, <3>2, <4>1, <4>2, <5>2, BufferKept
        <5>. QED
          BY <5>1, <5>2
    <3>. QED
      BY <3>1, <3>5, <3>6 DEF FillBuffer
  <2>5. CASE UNCHANGED vars
    BY <2>0, <2>5 DEF vars, locals, BufferOK, FreeHook, ReadHook, Memory
  <2>. QED
    BY <1>1, <2>2, <2>3, <2>4, <2>5 DEF User
<1>. QED
  BY <1>1, BufferBlocksInParse, BufferBlocksInFree, BufferBlocksInLoad DEF Next, Library

-----------------------------------------------------------------------------
(* The decoded data of the views.                                          *)

(* A parse has no decoded data of a view.                                  *)
LEMMA ViewBlocksInParse ==
  ASSUME TypeOK, InCall, Blank, ViewBlocks, ParseStep
  PROVE  ViewBlocks'
<1>1. /\ ~handle
      /\ pc \in ParseSteps /\ pc' \in ParseSteps \cup {"idle", "free views"}
  <2>1. StepOfCall /\ call \in {"none", "parse", "load", "free"}
    BY DEF TypeOK
  <2>2. pc \in ParseSteps /\ pc' \in ParseSteps \cup {"idle", "free views"}
    BY DEF ParseStep, ReadFile, Container, CountTokens, AllocTokens, Tokenize, AllocData,
         ParseRoot, Fixup, Publish, ReleaseFile, ParseSteps, ParseFails, Goto, Return, Continue
  <2>3. call = "parse"
    BY <2>1, <2>2 DEF StepOfCall, ParseSteps, FreeSteps, LoadSteps
  <2>. QED
    BY <2>2, <2>3 DEF InCall
<1>2. \A v \in Views : heap'[ViewBlock(v)] = heap[ViewBlock(v)]
  <2>1. CASE ReadFile \/ ReleaseFile
    BY <2>1, AllocateIs, ReleaseIs, BlockFacts DEF ReadFile, ReleaseFile
  <2>2. CASE AllocTokens \/ Tokenize
    BY <2>2, AllocateIs, ReleaseIs, BlockFacts DEF AllocTokens, Tokenize
  <2>3. CASE AllocData
    BY <2>3, AllocateIs, ReleaseIs, BlockFacts DEF AllocData
  <2>4. CASE ParseRoot
    BY <2>4, BlockFacts DEF ParseRoot, TypeOK
  <2>5. CASE Container \/ CountTokens \/ Fixup \/ Publish
    BY <2>5 DEF Container, CountTokens, Fixup, Publish
  <2>. QED
    BY <2>1, <2>2, <2>3, <2>4, <2>5 DEF ParseStep
<1>3. \A v \in Views : view[v] = FALSE /\ view'[v] = FALSE
  <2>1. view' = view \/ view' = [v \in Views |-> FALSE]
    BY DEF ParseStep, ReadFile, Container, CountTokens, AllocTokens, Tokenize, AllocData,
         ParseRoot, Fixup, Publish, ReleaseFile
  <2>. QED
    BY <1>1, <2>1 DEF Blank
<1>. QED
  BY <1>2, <1>3 DEF ViewBlocks

(* A free gives back the decoded data of every view.                       *)
LEMMA ViewBlocksInFree ==
  ASSUME TypeOK, ViewBlocks, FreeStep
  PROVE  ViewBlocks'
<1>1. CASE FreeViews
  <2>1. /\ pc = "free views" /\ pc' = "free buffers"
        /\ \A v \in Views :
             heap'[ViewBlock(v)] = IF view[v] THEN "free" ELSE heap[ViewBlock(v)]
    BY <1>1, BlockFacts, BlockKinds DEF FreeViews, Goto
  <2>. QED
    BY <2>1 DEF ViewBlocks, AfterBuffers
<1>2. CASE FreeBuffers
  <2>1. \A v \in Views : heap'[ViewBlock(v)] = heap[ViewBlock(v)]
    BY <1>2, BlockFacts, BlockKinds DEF FreeBuffers
  <2>2. pc = "free buffers" /\ pc' = "free objects" /\ view' = view
    BY <1>2 DEF FreeBuffers, Goto
  <2>. QED
    BY <2>1, <2>2, ViewsKept DEF AfterBuffers
<1>3. CASE FreeObjects \/ FreeFile
  <2>1. \A v \in Views : heap'[ViewBlock(v)] = heap[ViewBlock(v)]
    BY <1>3, ReleaseIs, BlockFacts DEF FreeObjects, FreeFile
  <2>2. pc \in AfterBuffers /\ pc' \in AfterBuffers /\ view' = view
    BY <1>3 DEF FreeObjects, FreeFile, Goto, AfterBuffers
  <2>. QED
    BY <2>1, <2>2, ViewsKept
<1>4. CASE FreeData
  <2>1. \A v \in Views : heap'[ViewBlock(v)] = heap[ViewBlock(v)]
    BY <1>4, ReleaseIs, BlockFacts DEF FreeData
  <2>2. pc = "free data" /\ \A v \in Views : view'[v] = FALSE
    BY <1>4 DEF FreeData
  <2>3. \A v \in Views : heap[ViewBlock(v)] = "free"
    BY <2>2 DEF ViewBlocks, AfterBuffers
  <2>. QED
    BY <2>1, <2>2, <2>3 DEF ViewBlocks
<1>. QED
  BY <1>1, <1>2, <1>3, <1>4 DEF FreeStep

(* A load does not touch it.                                               *)
LEMMA ViewBlocksInLoad ==
  ASSUME TypeOK, Loop, ViewBlocks, LoadStep
  PROVE  ViewBlocks'
<1>1. /\ view' = view
      /\ pc \in LoadSteps /\ pc' \in LoadSteps \cup {"idle"}
  BY DEF LoadStep, LoadBin, LoadSkip, LoadUnknown, LoadBase64, Decode, LoadFile, ReadBuffer,
       AtUnloaded, Goto, Return, Continue, NextBuffer, LoadSteps
<1>2. \A v \in Views : heap'[ViewBlock(v)] = heap[ViewBlock(v)]
  <2>1. CASE LoadBin \/ LoadSkip \/ LoadUnknown
    BY <2>1 DEF LoadBin, LoadSkip, LoadUnknown
  <2>2. CASE LoadBase64 \/ Decode
    <3>1. i \in Buffers /\ BufferBlock(i) \in Block
      BY <2>2, AtBuffer, BlockFacts DEF LoadBase64, Decode
    <3>. QED
      BY <2>2, <3>1, AllocateIs, ReleaseIs, BlockFacts DEF LoadBase64, Decode
  <2>3. CASE LoadFile
    BY <2>3, AllocateIs, BlockFacts DEF LoadFile
  <2>4. CASE ReadBuffer
    <3>1. i \in Buffers /\ BufferBlock(i) \in Block
      BY <2>4, AtBuffer, BlockFacts DEF ReadBuffer
    <3>2. CASE Release(Path, Memory(options))
      BY <3>2, ReleaseIs, BlockFacts
    <3>3. CASE heap' = [heap EXCEPT ![Path] = "free", ![BufferBlock(i)] = ReadHook(options)]
      BY <3>1, <3>3, BlockFacts DEF TypeOK
    <3>. QED
      BY <2>4, <3>2, <3>3 DEF ReadBuffer
  <2>. QED
    BY <2>1, <2>2, <2>3, <2>4 DEF LoadStep
<1>. QED
  BY <1>1, <1>2, ViewsKept DEF LoadSteps, AfterBuffers

(* Every step keeps the decoded data with its view.                        *)
LEMMA ViewBlocksStep ==
  ASSUME TypeOK, InCall, Loop, Blank, ViewBlocks, [Next]_vars
  PROVE  ViewBlocks'
<1>0. StepOfCall
  BY DEF TypeOK
<1>1. CASE CallParse
  <2>1. view' = view /\ heap' = heap /\ pc = "idle" /\ pc' \in {"read", "container"}
    BY <1>0, <1>1 DEF CallParse, StepOfCall, Goto
  <2>. QED
    BY <2>1, ViewsKept DEF AfterBuffers
<1>2. CASE CallFree \/ \E o \in Origin, path \in BOOLEAN : CallLoad(o, path)
  <2>1. view' = view /\ heap' = heap /\ pc = "idle" /\ pc' \in {"free views", "bin"}
    BY <1>0, <1>2 DEF CallFree, CallLoad, StepOfCall, Goto
  <2>. QED
    BY <2>1, ViewsKept DEF AfterBuffers
<1>3. CASE \E v \in Views : DecodeView(v)
  <2>1. PICK v \in Views : DecodeView(v)
    BY <1>3
  <2>2. pc = "idle" /\ pc' = "idle"
    BY <1>0, <2>1 DEF DecodeView, StepOfCall
  <2>3. /\ heap'[ViewBlock(v)] = "doc.memory"
        /\ \A w \in Views : w # v => heap'[ViewBlock(w)] = heap[ViewBlock(w)]
    BY <2>1, AllocateIs, BlockFacts DEF DecodeView
  <2>4. view'[v] = TRUE /\ \A w \in Views : w # v => view'[w] = view[w]
    BY <2>1 DEF DecodeView, TypeOK
  <2>. QED
    BY <2>2, <2>3, <2>4 DEF ViewBlocks, AfterBuffers
<1>4. CASE \E b \in Buffers : FillBuffer(b)
  <2>1. PICK b \in Buffers : FillBuffer(b)
    BY <1>4
  <2>2. \A v \in Views : heap'[ViewBlock(v)] = heap[ViewBlock(v)]
    BY <2>1, AllocateIs, BlockFacts DEF FillBuffer
  <2>3. view' = view /\ pc' = pc
    BY <2>1 DEF FillBuffer
  <2>. QED
    BY <2>2, <2>3, ViewsKept
<1>5. CASE UNCHANGED vars
  BY <1>5, ViewsKept DEF vars
<1>. QED
  BY <1>1, <1>2, <1>3, <1>4, <1>5, ViewBlocksInParse, ViewBlocksInFree, ViewBlocksInLoad
     DEF Next, Library, User

-----------------------------------------------------------------------------
(* Every release goes through the hook that allocated the block.           *)

(* A release through the hook of the block.                                *)
LEMMA RightRelease ==
  ASSUME TypeOK, NEW x, NEW hook, Release(x, hook), heap[x] = hook
  PROVE  misfree' = misfree
BY DEF Release, TypeOK

(* No step releases a block through another hook than its own.             *)
LEMMA NoMisfreeStep ==
  ASSUME IInv, [Next]_vars
  PROVE  NoMisfree'
<1>a. mixed => mixed'
  BY DEF Next, Library, ParseStep, FreeStep, LoadStep, User, ReadFile, Container,
       CountTokens, AllocTokens, Tokenize, AllocData, ParseRoot, Fixup, Publish,
       ReleaseFile, FreeViews, FreeBuffers, FreeObjects, FreeFile, FreeData, LoadBin,
       LoadSkip, LoadUnknown, LoadBase64, Decode, LoadFile, ReadBuffer, CallParse,
       CallLoad, CallFree, DecodeView, FillBuffer, vars
<1>. SUFFICES ASSUME ~mixed
              PROVE  misfree' = misfree
  BY <1>a DEF IInv, NoMisfree
<1>0. TypeOK /\ InCall /\ SingleBlocks /\ BufferBlocks /\ ViewBlocks /\ Loop
  BY DEF IInv
<1>00. /\ call \in {"none", "parse", "load", "free"} /\ StepOfCall
       /\ handle \in BOOLEAN /\ file_data \in BOOLEAN
  BY <1>0 DEF TypeOK
<1>1. CASE ReadFile \/ Container \/ CountTokens \/ AllocTokens \/ Fixup \/ Publish
  BY <1>1 DEF ReadFile, Container, CountTokens, AllocTokens, Fixup, Publish, Allocate
<1>2. CASE Tokenize \/ AllocData \/ ParseRoot
  <2>1. heap[Tokens] = "doc.memory"
    BY <1>0, <1>2 DEF SingleBlocks, TokensHeld, Tokenize, AllocData, ParseRoot
  <2>2. misfree' = misfree \/ Release(Tokens, "doc.memory")
        \/ misfree' = (misfree \/ heap[Tokens] # "doc.memory")
    BY <1>2 DEF Tokenize, AllocData, ParseRoot, Allocate
  <2>. QED
    BY <1>0, <2>1, <2>2, RightRelease DEF TypeOK
<1>3. CASE ReleaseFile
  <2>1. heap[File] = ReadHook("doc")
    <3>1. pc = "release"
      BY <1>3 DEF ReleaseFile
    <3>. QED
      BY <1>0, <1>00, <3>1 DEF SingleBlocks, FileHeld, InCall, StepOfCall, ParseSteps,
           FreeSteps, LoadSteps
  <2>. QED
    BY <1>0, <1>3, <2>1, RightRelease DEF ReleaseFile
<1>4. CASE FreeViews
  <2>1. pc = "free views"
    BY <1>4 DEF FreeViews
  <2>2. \A v \in Views : view[v] => heap[ViewBlock(v)] = "doc.memory"
    BY <1>0, <2>1 DEF ViewBlocks, AfterBuffers
  <2>. QED
    BY <1>0, <1>4, <2>2 DEF FreeViews, TypeOK
<1>5. CASE FreeBuffers
  <2>1. pc = "free buffers"
    BY <1>5 DEF FreeBuffers
  <2>2. ASSUME NEW b \in Buffers, Freed(b)
        PROVE  buffer[b].data = "block" /\ heap[BufferBlock(b)] = FreeHook(b)
    <3>1. BufferOK(b) /\ buffer[b].data \in {"null", "bin", "block", "lent"}
      BY <1>0 DEF BufferBlocks, TypeOK, BufferSet
    <3>. QED
      BY <2>1, <2>2, <3>1 DEF BufferOK, Freed, AfterBuffers
  <2>. QED
    BY <1>0, <1>5, <2>2 DEF FreeBuffers, TypeOK
<1>6. CASE FreeObjects
  BY <1>0, <1>6, RightRelease DEF FreeObjects, SingleBlocks
<1>7. CASE FreeFile
  <2>1. file_data => heap[File] = ReadHook("doc")
    BY <1>0, <1>7 DEF FreeFile, SingleBlocks, FileHeld
  <2>. QED
    BY <1>0, <1>7, <2>1, RightRelease DEF FreeFile
<1>8. CASE FreeData
  <2>1. heap[Data] = "doc.memory"
    BY <1>0, <1>8 DEF FreeData, SingleBlocks, DataHeld, FreeSteps
  <2>. QED
    BY <1>0, <1>8, <2>1, RightRelease DEF FreeData
<1>9. CASE LoadBin \/ LoadSkip \/ LoadUnknown \/ LoadBase64 \/ LoadFile
  BY <1>9 DEF LoadBin, LoadSkip, LoadUnknown, LoadBase64, LoadFile, Allocate
<1>10. CASE Decode
  <2>1. heap[BufferBlock(i)] = Memory(options)
    BY <1>0, <1>10 DEF Decode, Loop
  <2>. QED
    BY <1>0, <1>10, <2>1, RightRelease DEF Decode
<1>11. CASE ReadBuffer
  <2>1. heap[Path] = Memory(options)
    BY <1>0, <1>11 DEF ReadBuffer, SingleBlocks
  <2>2. Release(Path, Memory(options)) \/ misfree' = (misfree \/ heap[Path] # Memory(options))
    BY <1>11 DEF ReadBuffer
  <2>. QED
    BY <1>0, <2>1, <2>2, RightRelease DEF TypeOK
<1>12. CASE User
  BY <1>12 DEF User, CallParse, CallFree, CallLoad, DecodeView, FillBuffer, Allocate
<1>13. CASE UNCHANGED vars
  BY <1>13 DEF vars
<1>. QED
  BY <1>1, <1>2, <1>3, <1>4, <1>5, <1>6, <1>7, <1>8, <1>9, <1>10, <1>11, <1>12, <1>13
     DEF Next, Library, ParseStep, FreeStep, LoadStep

-----------------------------------------------------------------------------
(* The invariant, and what follows from it.                                *)

(* Every step of the library and of the user keeps the invariant.          *)
LEMMA StepIInv == IInv /\ [Next]_vars => IInv'
<1> SUFFICES ASSUME IInv, [Next]_vars
             PROVE  IInv'
  OBVIOUS
<1>1. TypeOK /\ InCall /\ SingleBlocks /\ BufferBlocks /\ ViewBlocks /\ Loop /\ Blank
  BY DEF IInv
<1>. QED
  BY <1>1, TypeStep, InCallStep, SingleBlocksStep, BufferBlocksStep, ViewBlocksStep,
     LoopStep, BlankStep, NoMisfreeStep DEF IInv

(* So the invariant holds in every reachable state.                        *)
LEMMA IInvHolds == Spec => []IInv
BY InitIInv, StepIInv, PTL DEF Spec

(* Every variable keeps its type through any sequence of calls, and every  *)
(* step belongs to the call in progress (document.zig, cgltf.h).           *)
THEOREM DocumentTypes == Spec => []TypeOK
<1>1. IInv => TypeOK
  BY DEF IInv
<1>. QED
  BY <1>1, IInvHolds, PTL

(* The blocks of the invariant are all the blocks there are.               *)
LEMMA IInvNoLeak ==
  ASSUME IInv
  PROVE  NoLeak
<1>. SUFFICES ASSUME call = "none", ~handle, NEW x \in Block
              PROVE  heap[x] = "free"
  BY DEF NoLeak
<1>1. /\ StepOfCall /\ SingleBlocks /\ BufferBlocks /\ ViewBlocks /\ Blank
  BY DEF IInv, TypeOK
<1>2. pc = "idle"
  BY <1>1 DEF StepOfCall
<1>3. \A y \in {File, Tokens, Data, Objects, Path} : heap[y] = "free"
  BY <1>1, <1>2 DEF SingleBlocks, TokensHeld, DataHeld, ObjectsMay, FileHeld, FreeSteps
<1>4. \A b \in Buffers : heap[BufferBlock(b)] = "free"
  BY <1>1, <1>2 DEF BufferBlocks, BufferOK, Blank
<1>5. \A v \in Views : heap[ViewBlock(v)] = "free"
  BY <1>1 DEF ViewBlocks, Blank
<1>. QED
  BY <1>3, <1>4, <1>5, BlockCases

(* Between calls, a user without a document has no memory of the library:  *)
(* no error path of cgltf_parse_file, cgltf_parse or cgltf_parse_json      *)
(* keeps a block, and cgltf_free returns all that any loads have left.     *)
THEOREM NothingLeaks == Spec => []NoLeak
BY IInvHolds, IInvNoLeak, PTL

(* A document loaded with the options it was parsed with: every block goes *)
(* back once, to the hook it came from, whatever failed in between.        *)
THEOREM NothingMisfreed == Spec => []NoMisfree
<1>1. IInv => NoMisfree
  BY DEF IInv
<1>. QED
  BY <1>1, IInvHolds, PTL

(* Between calls, the data a document's buffers, views and bin chunk point *)
(* to is allocated.                                                        *)
THEOREM DataStaysThere == Spec => []DataIsThere
<1>1. IInv => DataIsThere
  <2>. SUFFICES ASSUME IInv, call = "none", handle
                PROVE  /\ \A b \in Buffers : buffer[b].data = "block" => heap[BufferBlock(b)] # "free"
                       /\ \A v \in Views : view[v] => heap[ViewBlock(v)] # "free"
                       /\ input.entry = "parseFile" => heap[File] # "free"
    BY DEF DataIsThere
  <2>1. StepOfCall /\ SingleBlocks /\ BufferBlocks /\ ViewBlocks
    BY DEF IInv, TypeOK
  <2>2. pc = "idle"
    BY <2>1 DEF StepOfCall
  <2>3. \A b \in Buffers : buffer[b].data = "block" => heap[BufferBlock(b)] # "free"
    BY <2>1, <2>2 DEF BufferBlocks, BufferOK, AfterBuffers
  <2>4. \A v \in Views : view[v] => heap[ViewBlock(v)] # "free"
    BY <2>1, <2>2 DEF ViewBlocks, AfterBuffers
  <2>5. input.entry = "parseFile" => heap[File] # "free"
    BY <2>1, <2>2 DEF SingleBlocks, FileHeld, ReadHook, Memory
  <2>. QED
    BY <2>3, <2>4, <2>5
<1>. QED
  BY <1>1, IInvHolds, PTL

(* cgltf_free never works on a cgltf_data that has been freed.             *)
THEOREM FreeHasDocument == Spec => []FreeReadsTheDocument
<1>1. IInv => FreeReadsTheDocument
  BY DEF IInv, FreeReadsTheDocument, SingleBlocks, DataHeld
<1>. QED
  BY <1>1, IInvHolds, PTL

(* A buffer that has data keeps it, and its free method, until the         *)
(* document is freed: loads neither reload it nor re-mark it.              *)
THEOREM DataIsKept == Spec => LoadedStays
<1>. DEFINE Kept == handle /\ handle' => \A b \in Buffers :
                      buffer[b].data # "null" => buffer'[b] = buffer[b]
<1>1. IInv /\ [Next]_vars => [Kept]_vars
  <2>. SUFFICES ASSUME IInv, Next
                PROVE  Kept
    OBVIOUS
  <2>1. TypeOK /\ InCall /\ Loop
    BY DEF IInv
  <2>2. StepOfCall /\ call \in {"none", "parse", "load", "free"}
    BY <2>1 DEF TypeOK
  <2>3. CASE LoadStep
    BY <2>1, <2>3, LoadKeepsData
  <2>4. CASE ParseStep
    <3>1. pc \in ParseSteps
      BY <2>4 DEF ParseStep, ReadFile, Container, CountTokens, AllocTokens, Tokenize, AllocData,
           ParseRoot, Fixup, Publish, ReleaseFile, ParseSteps
    <3>2. ~handle
      BY <2>1, <2>2, <3>1 DEF InCall, StepOfCall, ParseSteps, FreeSteps, LoadSteps
    <3>. QED
      BY <3>2
  <2>5. CASE FreeStep
    BY <2>5 DEF FreeStep, FreeViews, FreeBuffers, FreeObjects, FreeFile, FreeData
  <2>6. CASE \E b \in Buffers : FillBuffer(b)
    BY <2>1, <2>6 DEF FillBuffer, TypeOK
  <2>7. CASE \/ CallParse \/ CallFree
             \/ \E o \in Origin, path \in BOOLEAN : CallLoad(o, path)
             \/ \E v \in Views : DecodeView(v)
    BY <2>7 DEF CallParse, CallFree, CallLoad, DecodeView
  <2>. QED
    BY <2>3, <2>4, <2>5, <2>6, <2>7 DEF Next, Library, User
<1>. QED
  BY <1>1, IInvHolds, PTL DEF Spec, LoadedStays

(* A load that succeeds leaves no buffer with a uri unfilled.              *)
THEOREM UrisAreFilled == Spec => LoadFillsUris
<1>. DEFINE Filled == call = "load" /\ call' = "none" /\ result' = "success" =>
                        \A b \in Buffers : input.uri[b] # "none" => buffer'[b].data # "null"
<1>1. IInv /\ [Next]_vars => [Filled]_vars
  <2>. SUFFICES ASSUME IInv, Next, call = "load", call' = "none", result' = "success",
                       NEW b \in Buffers, input.uri[b] # "none"
                PROVE  buffer'[b].data # "null"
    OBVIOUS
  <2>1. TypeOK /\ Loop /\ StepOfCall
    BY DEF IInv, TypeOK
  <2>2. pc \in LoadSteps
    BY <2>1 DEF StepOfCall
  <2>3. LoadStep
    <3>1. ~User
      BY DEF User, CallParse, CallFree, CallLoad, DecodeView, FillBuffer
    <3>2. ~ParseStep
      BY <2>2 DEF ParseStep, ReadFile, Container, CountTokens, AllocTokens, Tokenize, AllocData,
           ParseRoot, Fixup, Publish, ReleaseFile, LoadSteps
    <3>3. ~FreeStep
      BY <2>2 DEF FreeStep, FreeViews, FreeBuffers, FreeObjects, FreeFile, FreeData, LoadSteps
    <3>. QED
      BY <3>1, <3>2, <3>3 DEF Next, Library
  <2>4. LoadSkip /\ i > N
    BY <2>3 DEF LoadStep, LoadBin, LoadSkip, LoadUnknown, LoadBase64, Decode, LoadFile,
         ReadBuffer, Return, Continue, NextBuffer, ReadErrors
  <2>5. b \in 1 .. (i - 1)
    <3>1. i \in 1 .. (N + 1)
      BY <2>1 DEF TypeOK
    <3>. QED
      BY <2>4, <3>1, AllBelow
  <2>6. buffer[b].data # "null"
    BY <2>1, <2>5 DEF Loop
  <2>. QED
    BY <2>4, <2>6 DEF LoadSkip
<1>. QED
  BY <1>1, IInvHolds, PTL DEF Spec, LoadFillsUris

-----------------------------------------------------------------------------
(* The library keeps the contract.                                         *)

filled == { b \in Buffers : handle /\ buffer[b].data # "null" }
holds  == \E b \in Block : heap[b] # "free"

(* A document is memory; without one there is none between calls.          *)
Backed ==
  /\ handle => holds
  /\ call = "none" /\ ~handle => ~holds
  /\ ~handle => filled = {}

(* The invariant says so.                                                  *)
LEMMA AlwaysBacked == IInv => Backed
<1>. SUFFICES ASSUME IInv
              PROVE  Backed
  OBVIOUS
<1>1. SingleBlocks
  BY DEF IInv
<1>2. handle => holds
  BY <1>1, BlockFacts DEF SingleBlocks, DataHeld, holds
<1>. QED
  BY <1>2, IInvNoLeak DEF NoLeak, Backed, holds, filled

(* and says so after a step.                                               *)
LEMMA BackedAfter == IInv' => Backed'
BY AlwaysBacked, PTL

(* The calls the user makes.                                               *)
LEMMA CallsMap ==
  ASSUME IInv, CallParse \/ CallFree \/ \E o \in Origin, path \in BOOLEAN : CallLoad(o, path)
  PROVE  /\ call = "none" /\ call' \in IF handle THEN {"load", "free"} ELSE {"parse"}
         /\ handle' = handle /\ filled' = filled /\ holds' = holds
<1>1. /\ call = "none" /\ call' \in IF handle THEN {"load", "free"} ELSE {"parse"}
      /\ handle' = handle /\ heap' = heap /\ buffer' = buffer
  <2>1. CASE CallParse
    BY <2>1 DEF CallParse
  <2>2. CASE CallFree
    BY <2>2 DEF CallFree
  <2>3. CASE \E o \in Origin, path \in BOOLEAN : CallLoad(o, path)
    BY <2>3 DEF CallLoad
  <2>. QED
    BY <2>1, <2>2, <2>3
<1>. QED
  BY <1>1 DEF filled, holds

(* What the user gives a document.                                         *)
LEMMA FillsMap ==
  ASSUME IInv, IInv', (\E v \in Views : DecodeView(v)) \/ (\E b \in Buffers : FillBuffer(b))
  PROVE  /\ call = "none" /\ call' = call /\ handle /\ handle' = handle /\ holds'
         /\ filled \subseteq filled' /\ filled' \subseteq Buffers
<1>1. call = "none" /\ call' = call /\ handle /\ handle' = handle
  BY DEF DecodeView, FillBuffer
<1>2. holds'
  BY <1>1, BackedAfter DEF Backed
<1>3. \A b \in Buffers : buffer[b].data # "null" => buffer'[b].data # "null"
  <2>1. CASE \E v \in Views : DecodeView(v)
    BY <2>1 DEF DecodeView
  <2>2. CASE \E b \in Buffers : FillBuffer(b)
    BY <2>2 DEF FillBuffer, IInv, TypeOK
  <2>. QED
    BY <2>1, <2>2
<1>. QED
  BY <1>1, <1>2, <1>3 DEF filled

(* The steps of a load.                                                    *)
LEMMA LoadMap ==
  ASSUME IInv, IInv', LoadStep
  PROVE  /\ call = "load" /\ call' \in {"load", "none"} /\ handle /\ handle' = handle /\ holds'
         /\ filled \subseteq filled' /\ filled' \subseteq Buffers
<1>1. TypeOK /\ StepOfCall /\ InCall /\ Loop /\ call \in {"none", "parse", "load", "free"}
  BY DEF IInv, TypeOK
<1>2. call = "load" /\ call' \in {"load", "none"} /\ handle' = handle
  BY <1>1 DEF LoadStep, LoadBin, LoadSkip, LoadUnknown, LoadBase64, Decode, LoadFile, ReadBuffer,
       AtUnloaded, StepOfCall, Return, Continue, NextBuffer, ParseSteps, FreeSteps, LoadSteps
<1>3. handle
  BY <1>1, <1>2 DEF InCall
<1>4. holds'
  BY <1>2, <1>3, BackedAfter DEF Backed
<1>5. \A b \in Buffers : buffer[b].data # "null" => buffer'[b].data # "null"
  BY <1>1, LoadKeepsData
<1>. QED
  BY <1>2, <1>3, <1>4, <1>5 DEF filled

(* The steps of a parse, and of the free it may end with.                  *)
LEMMA ParseMap ==
  ASSUME IInv, IInv', ParseStep \/ FreeStep, call = "parse"
  PROVE  /\ ~handle /\ filled = {} /\ filled' = filled
         /\ \/ call' = call /\ handle' = handle
            \/ call' = "none" /\ handle' /\ holds'
            \/ call' = "none" /\ ~handle' /\ ~holds'
<1>1. ~handle /\ \A b \in Buffers : buffer[b].data = "null"
  BY DEF IInv, InCall, Blank
<1>2. call' \in {"parse", "none"} /\ (call' = "parse" => handle' = handle)
  <2>1. CASE ParseStep
    BY <2>1 DEF ParseStep, ReadFile, Container, CountTokens, AllocTokens, Tokenize, AllocData,
         ParseRoot, Fixup, Publish, ReleaseFile, Return, Continue, ParseFails
  <2>2. CASE FreeStep
    <3>1. CASE FreeData
      <4>1. call' \in {"parse", "none"}
        BY <3>1 DEF FreeData, ParseFails, Return
      <4>2. ~handle'
        BY <3>1 DEF FreeData
      <4>3. handle \in BOOLEAN /\ handle' \in BOOLEAN
        BY DEF IInv, TypeOK
      <4>. QED
        BY <1>1, <4>1, <4>2, <4>3
    <3>2. CASE FreeViews \/ FreeBuffers \/ FreeObjects \/ FreeFile
      BY <3>2 DEF FreeViews, FreeBuffers, FreeObjects, FreeFile
    <3>. QED
      BY <2>2, <3>1, <3>2 DEF FreeStep
  <2>. QED
    BY <2>1, <2>2
<1>3. \A b \in Buffers : buffer'[b].data = "null"
  <2>1. buffer' = buffer \/ buffer' = [b \in Buffers |-> NoBuffer]
    BY DEF ParseStep, FreeStep, ReadFile, Container, CountTokens, AllocTokens, Tokenize,
         AllocData, ParseRoot, Fixup, Publish, ReleaseFile, FreeViews, FreeBuffers,
         FreeObjects, FreeFile, FreeData
  <2>. QED
    BY <1>1, <2>1 DEF NoBuffer
<1>. QED
  BY <1>1, <1>2, <1>3, BackedAfter DEF Backed, filled

(* The steps of the user's free.                                           *)
LEMMA FreeMap ==
  ASSUME IInv, IInv', FreeStep, call = "free"
  PROVE  \/ call' = call /\ handle' = handle /\ filled' = filled
         \/ call' = "none" /\ ~handle' /\ filled' = {} /\ ~holds'
<1>1. CASE FreeData
  BY <1>1, BackedAfter DEF Backed, FreeData, Return
<1>2. CASE FreeViews \/ FreeBuffers \/ FreeObjects \/ FreeFile
  <2>1. call' = call /\ handle' = handle /\ buffer' = buffer
    BY <1>2 DEF FreeViews, FreeBuffers, FreeObjects, FreeFile
  <2>. QED
    BY <2>1 DEF filled
<1>. QED
  BY <1>1, <1>2 DEF FreeStep

(* A call that fails leaves what a user relies on: parse gives a document  *)
(* or keeps no memory, loadBuffers empties no buffer, free returns all.    *)
THEOREM KeepsContract == Spec => Contract
<1>1. Init => C!Init
  <2>. SUFFICES ASSUME Init
                PROVE  C!Init
    OBVIOUS
  <2>1. call = "none" /\ ~handle
    BY DEF Init
  <2>. QED
    BY <2>1, InitIInv, AlwaysBacked DEF Backed, C!Init, filled, holds
<1>2. IInv /\ IInv' /\ [Next]_vars => [C!Next]_(C!vars)
  <2>. SUFFICES ASSUME IInv, IInv', [Next]_vars
                PROVE  C!Next \/ UNCHANGED C!vars
    OBVIOUS
  <2>1. CASE CallParse \/ CallFree \/ \E o \in Origin, path \in BOOLEAN : CallLoad(o, path)
    BY <2>1, CallsMap DEF C!Next, C!Call, filled, holds
  <2>2. CASE (\E v \in Views : DecodeView(v)) \/ (\E b \in Buffers : FillBuffer(b))
    BY <2>2, FillsMap DEF C!Next, C!Fill, filled, holds
  <2>3. CASE LoadStep
    <3>1. CASE call' = "load"
      BY <2>3, <3>1, LoadMap DEF C!Next, C!Work, filled, holds
    <3>2. CASE call' = "none"
      BY <2>3, <3>2, LoadMap DEF C!Next, C!Return, filled, holds
    <3>. QED
      BY <2>3, <3>1, <3>2, LoadMap
  <2>4. CASE (ParseStep \/ FreeStep) /\ call = "parse"
    <3>1. CASE call' = call
      BY <2>4, <3>1, ParseMap DEF C!Next, C!Work, filled, holds
    <3>2. CASE call' = "none"
      BY <2>4, <3>2, ParseMap DEF C!Next, C!Return, filled, holds
    <3>. QED
      BY <2>4, <3>1, <3>2, ParseMap
  <2>5. CASE FreeStep /\ call = "free"
    <3>1. CASE call' = call
      BY <2>5, <3>1, FreeMap DEF C!Next, C!Work, filled, holds
    <3>2. CASE call' = "none"
      BY <2>5, <3>2, FreeMap DEF C!Next, C!Return, filled, holds
    <3>. QED
      BY <2>5, <3>1, <3>2, FreeMap
  <2>6. CASE UNCHANGED vars
    BY <2>6 DEF vars, C!vars
  <2>7. /\ ParseStep => call = "parse"
        /\ FreeStep => call \in {"parse", "free"}
    <3>1. StepOfCall /\ call \in {"none", "parse", "load", "free"}
      BY DEF IInv, TypeOK
    <3>2. ParseStep => pc \in ParseSteps
      BY DEF ParseStep, ReadFile, Container, CountTokens, AllocTokens, Tokenize, AllocData,
           ParseRoot, Fixup, Publish, ReleaseFile, ParseSteps
    <3>3. FreeStep => pc \in FreeSteps
      BY DEF FreeStep, FreeViews, FreeBuffers, FreeObjects, FreeFile, FreeData, FreeSteps
    <3>. QED
      BY <3>1, <3>2, <3>3 DEF StepOfCall, ParseSteps, FreeSteps, LoadSteps
  <2>. QED
    BY <2>1, <2>2, <2>3, <2>4, <2>5, <2>6, <2>7 DEF Next, Library, User
<1>. QED
  BY <1>1, <1>2, IInvHolds, PTL DEF Spec, Contract, C!Spec
=============================================================================
