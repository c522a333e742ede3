-------------------------- MODULE DocumentContract --------------------------
(***************************************************************************)
(* What a user of the library relies on when a document is parsed, loaded  *)
(* and freed (src/src/document.zig): calls are made one after the other; a *)
(* parse that fails gives no document and keeps no memory; loading a       *)
(* document fills buffers and empties none, whether it fails or not; and   *)
(* free gives back everything, so that a document leaves nothing behind.   *)
(***************************************************************************)
CONSTANTS Buffers

VARIABLES
  call,     (* the call in progress, or "none"                             *)
  doc,      (* the user has a document                                     *)
  filled,   (* the document's buffers whose data is set                    *)
  holds     (* the library holds memory                                    *)

vars == << call, doc, filled, holds >>

Init == call = "none" /\ ~doc /\ filled = {} /\ ~holds

(* The user calls parse or parseFile without a document, and loadBuffers   *)
(* or free with one.                                                       *)
Call ==
  /\ call = "none"
  /\ call' \in IF doc THEN {"load", "free"} ELSE {"parse"}
  /\ UNCHANGED << doc, filled, holds >>

(* The user sets the data of a buffer, or of a buffer view.                *)
Fill ==
  /\ call = "none" /\ doc /\ holds'
  /\ filled \subseteq filled' /\ filled' \subseteq Buffers
  /\ UNCHANGED << call, doc >>

(* The library allocates, frees, and fills buffers.                        *)
Work ==
  /\ call # "none"
  /\ holds' \in BOOLEAN
  /\ \/ UNCHANGED filled
     \/ call = "load" /\ filled \subseteq filled' /\ filled' \subseteq Buffers
  /\ UNCHANGED << call, doc >>

Return ==
  /\ call' = "none"
  /\ \/ call = "parse" /\ doc' /\ filled' = {} /\ holds'
     \/ call = "parse" /\ ~doc' /\ filled' = {} /\ ~holds'
     \/ call = "load" /\ doc' /\ filled \subseteq filled' /\ filled' \subseteq Buffers /\ holds'
     \/ call = "free" /\ ~doc' /\ filled' = {} /\ ~holds'

Next == Call \/ Fill \/ Work \/ Return
Spec == Init /\ [][Next]_vars
=============================================================================
