----------------------------- MODULE FileReader -----------------------------
(***************************************************************************)
(* One call of a cgltf_file_options.read hook, by the two readers a        *)
(* document can have: cgltf_default_file_read of src/libs/cgltf/cgltf.h    *)
(* (fopen, ftell, one fread) and zigRead of src/src/file.zig (std.Io, a    *)
(* loop of short reads).  Both get a path, a size (0: the whole file) and  *)
(* two places for results, and hold an open file and a buffer on the way.  *)
(* Every path on which they give up does its own fclose and its own free;  *)
(* zigRead defers its close, which then is the last step of every path     *)
(* behind it.  What is held is counted, so that a path which closes or     *)
(* frees too little or too much shows.                                     *)
(*                                                                         *)
(* The file is external: every call on it can fail, a read may return      *)
(* fewer bytes than asked for, and another process may truncate or extend  *)
(* the file between any two steps, after its size has been read.           *)
(***************************************************************************)
EXTENDS Integers

CONSTANTS
  MaxFile,      (* the largest file                                        *)
  MaxUsize,     (* the largest usize, and the largest long of ftell        *)
  MaxResizes    (* how often another process changes the file's length     *)

ASSUME ReaderAssumption ==
  MaxFile \in Nat /\ MaxUsize \in Nat /\ MaxResizes \in Nat

VARIABLES
  reader,       (* "zig" or "c": which reader runs                         *)
  asked,        (* the size the caller asks for; 0 means the whole file    *)
  pc,           (* the next step of the reader                             *)
  disk,         (* the length of the file                                  *)
  resizes,      (* how often it has changed                                *)
  files,        (* how many files are open                                 *)
  buffers,      (* how many buffers are allocated                          *)
  want, got,    (* the buffer's length and the bytes read into it          *)
  size,         (* *size, which the caller passed in                       *)
  data,         (* *data has been set to the buffer                        *)
  result

given   == << reader, asked, disk, resizes >>
outputs == << size, data >>
vars    == << given, pc, files, buffers, want, got, outputs, result >>

Readers == {"zig", "c"}
Results == {"none", "success", "invalid_options", "file_not_found", "io_error",
            "out_of_memory"}
Steps   == {"open", "measure", "alloc", "read", "close", "compare", "defer", "done"}

Goto(step) == pc' = step

Return(r) == Goto("done") /\ result' = r

(* A return of zigRead behind its defer: the file is still to be closed.   *)
Defer(r) == Goto("defer") /\ result' = r

Opens     == files' = files + 1
Closes    == files' = files - 1
Allocates == buffers' = buffers + 1
Frees     == buffers' = buffers - 1

(* The bytes a read may find from place n of the file on, m at most.       *)
Available(n, m) == (IF disk < m THEN disk ELSE m) - n

-----------------------------------------------------------------------------
Init ==
  /\ reader \in Readers
  /\ asked \in 0 .. MaxUsize
  /\ disk \in 0 .. MaxFile
  /\ pc = "open" /\ resizes = 0
  /\ files = 0 /\ buffers = 0 /\ data = FALSE
  /\ want = 0 /\ got = 0 /\ size = asked
  /\ result = "none"

-----------------------------------------------------------------------------
(* zigRead.                                                                *)

(* Options without their user data are refused, and a missing file is told *)
(* from other errors; nothing is deferred yet.                             *)
zigOpen ==
  /\ pc = "open" /\ reader = "zig"
  /\ \/ Opens /\ Goto("measure") /\ UNCHANGED result
     \/ \E r \in {"invalid_options", "file_not_found", "io_error"} : Return(r) /\ UNCHANGED files
  /\ UNCHANGED << given, buffers, want, got, outputs >>

(* What the caller asked for, or what the file has now.  stat may fail,    *)
(* and std.math.cast refuses a length that does not fit.                   *)
zigMeasure ==
  /\ pc = "measure" /\ reader = "zig"
  /\ \/ asked # 0 /\ want' = asked /\ Goto("alloc") /\ UNCHANGED result
     \/ asked = 0 /\ disk <= MaxUsize /\ want' = disk /\ Goto("alloc") /\ UNCHANGED result
     \/ asked = 0 /\ Defer("io_error") /\ UNCHANGED want
  /\ UNCHANGED << given, files, buffers, got, outputs >>

(* alloc_func, which may fail for any size, zero included.                 *)
zigAlloc ==
  /\ pc = "alloc" /\ reader = "zig"
  /\ \/ Allocates /\ Goto("read") /\ UNCHANGED result
     \/ Defer("out_of_memory") /\ UNCHANGED buffers
  /\ UNCHANGED << given, files, want, got, outputs >>

(* A mutant: the buffer is offered whole to every readStreaming.           *)
zigReadWholeSlice ==
  /\ pc = "read" /\ reader = "zig"
  /\ \/ /\ got < want /\ got < disk
        /\ \E n \in 1 .. Available(0, want) : got' = got + n
        /\ UNCHANGED << pc, buffers, result >>
     \/ got < want /\ Frees /\ Defer("io_error") /\ UNCHANGED got
     \/ (got >= want \/ got >= disk) /\ Goto("compare") /\ UNCHANGED << got, buffers, result >>
  /\ UNCHANGED << given, files, want, outputs >>

(* A mutant: readStreaming has returned 0 before the end and is called     *)
(* again.                                                                  *)
zigReadNoBreak ==
  /\ pc = "read" /\ reader = "zig"
  /\ \/ /\ got < want /\ got < disk
        /\ \E n \in 1 .. Available(got, want) : got' = got + n
        /\ UNCHANGED << pc, buffers, result >>
     \/ got < want /\ disk > got /\ Frees /\ Defer("io_error") /\ UNCHANGED got
     \/ got = want /\ Goto("compare") /\ UNCHANGED << got, buffers, result >>
  /\ UNCHANGED << given, files, want, outputs >>

(* The loop: one readStreaming into bytes[got..], which returns some of    *)
(* the bytes that are there, fails, or returns 0 at the end of the file.   *)
zigReadLoop ==
  /\ pc = "read" /\ reader = "zig"
  /\ \/ /\ got < want /\ got < disk
        /\ \E n \in 1 .. Available(got, want) : got' = got + n
        /\ UNCHANGED << pc, buffers, result >>
     \/ got < want /\ Frees /\ Defer("io_error") /\ UNCHANGED got
     \/ (got = want \/ got >= disk) /\ Goto("compare") /\ UNCHANGED << got, buffers, result >>
  /\ UNCHANGED << given, files, want, outputs >>

(* A mutant: what has come is kept, the end of the file being no error.    *)
zigCompareNothing ==
  /\ pc = "compare" /\ reader = "zig"
  /\ size' = want /\ data' = TRUE /\ Defer("success")
  /\ UNCHANGED << given, files, buffers, want, got >>

(* A mutant: the error behind the loop forgets the buffer.                 *)
zigCompareForgetsFree ==
  /\ pc = "compare" /\ reader = "zig"
  /\ \/ got # want /\ Defer("io_error") /\ UNCHANGED << buffers, outputs >>
     \/ got = want /\ size' = want /\ data' = TRUE /\ Defer("success") /\ UNCHANGED buffers
  /\ UNCHANGED << given, files, want, got >>

(* The end of the file before `want` is an error.                          *)
zigCompare ==
  /\ pc = "compare" /\ reader = "zig"
  /\ \/ got # want /\ Frees /\ Defer("io_error") /\ UNCHANGED outputs
     \/ got = want /\ size' = want /\ data' = TRUE /\ Defer("success") /\ UNCHANGED buffers
  /\ UNCHANGED << given, files, want, got >>

(* defer file.close.                                                       *)
zigClose ==
  /\ pc = "defer" /\ reader = "zig"
  /\ Closes /\ Goto("done")
  /\ UNCHANGED << given, buffers, want, got, outputs, result >>

-----------------------------------------------------------------------------
(* cgltf_default_file_read.                                                *)

cOpen ==
  /\ pc = "open" /\ reader = "c"
  /\ \/ Opens /\ Goto("measure") /\ UNCHANGED result
     \/ Return("file_not_found") /\ UNCHANGED files
  /\ UNCHANGED << given, buffers, want, got, outputs >>

(* ftell may fail, and a length that does not fit comes back negative.     *)
cMeasure ==
  /\ pc = "measure" /\ reader = "c"
  /\ \/ asked # 0 /\ want' = asked /\ Goto("alloc") /\ UNCHANGED << files, result >>
     \/ /\ asked = 0 /\ disk <= MaxUsize
        /\ want' = disk /\ Goto("alloc") /\ UNCHANGED << files, result >>
     \/ asked = 0 /\ Closes /\ Return("io_error") /\ UNCHANGED want
  /\ UNCHANGED << given, buffers, got, outputs >>

(* A mutant: without memory, the file stays open.                          *)
cAllocForgetsClose ==
  /\ pc = "alloc" /\ reader = "c"
  /\ \/ Allocates /\ Goto("read") /\ UNCHANGED result
     \/ Return("out_of_memory") /\ UNCHANGED buffers
  /\ UNCHANGED << given, files, want, got, outputs >>

cAlloc ==
  /\ pc = "alloc" /\ reader = "c"
  /\ \/ Allocates /\ Goto("read") /\ UNCHANGED << files, result >>
     \/ Closes /\ Return("out_of_memory") /\ UNCHANGED buffers
  /\ UNCHANGED << given, want, got, outputs >>

(* fread comes back with as much as there is, or with less after an error. *)
cRead ==
  /\ pc = "read" /\ reader = "c"
  /\ got' \in 0 .. Available(0, want) /\ Goto("close")
  /\ UNCHANGED << given, files, buffers, want, outputs, result >>

cClose ==
  /\ pc = "close" /\ reader = "c"
  /\ Closes /\ Goto("compare")
  /\ UNCHANGED << given, buffers, want, got, outputs, result >>

cCompare ==
  /\ pc = "compare" /\ reader = "c"
  /\ \/ got # want /\ Frees /\ Return("io_error") /\ UNCHANGED outputs
     \/ got = want /\ size' = want /\ data' = TRUE /\ Return("success") /\ UNCHANGED buffers
  /\ UNCHANGED << given, files, want, got >>

-----------------------------------------------------------------------------
(* Another process changes the length of the file.                         *)
Resize ==
  /\ pc # "done" /\ resizes < MaxResizes
  /\ resizes' = resizes + 1
  /\ disk' \in (0 .. MaxFile) \ {disk}
  /\ UNCHANGED << reader, asked, pc, files, buffers, want, got, outputs, result >>

Step ==
  \/ zigOpen \/ zigMeasure \/ zigAlloc \/ zigReadLoop \/ zigCompare \/ zigClose
  \/ cOpen \/ cMeasure \/ cAlloc \/ cRead \/ cClose \/ cCompare

Next == Step \/ Resize

-----------------------------------------------------------------------------
TypeOK ==
  /\ reader \in Readers /\ pc \in Steps /\ result \in Results
  /\ asked \in 0 .. MaxUsize /\ size \in 0 .. MaxUsize
  /\ want \in 0 .. MaxUsize /\ got \in 0 .. want
  /\ disk \in 0 .. MaxFile /\ resizes \in 0 .. MaxResizes
  /\ files \in 0 .. 1 /\ buffers \in 0 .. 1 /\ data \in BOOLEAN

(* Whichever path a reader has left by, with a close and a free of its     *)
(* own: no file is open and none was closed twice; there is a buffer, once,*)
(* if and only if it returned success; and after an error *size and *data  *)
(* are as the caller left them.                                            *)
NothingLeftBehind ==
  pc = "done" =>
    /\ files = 0
    /\ buffers = (IF result = "success" THEN 1 ELSE 0)
    /\ data = (result = "success")
    /\ result # "success" => size = asked

(* A successful read has filled its whole buffer, and the buffer has the   *)
(* length that was asked for: no byte of it is uninitialised, although the *)
(* reads were short and the file changed after it was measured.            *)
OnlyCompleteReads ==
  result = "success" =>
    /\ got = size
    /\ asked # 0 => size = asked
=============================================================================
