----------------------------- MODULE LoadBuffer -----------------------------
(***************************************************************************)
(* The calls that turn a string into bytes: cgltf_load_buffer_file of      *)
(* src/libs/cgltf/cgltf.h, which makes a path of a uri, decodes it in      *)
(* place, and has a reader of FileReader read the file;                    *)
(* cgltf_load_buffer_base64; and decodeString and decodeUri of             *)
(* src/src/document.zig.  A string that is decoded as JSON has come        *)
(* through jsmn_parse_string.                                              *)
(***************************************************************************)
EXTENDS FileReader, Strings

CONSTANTS
    Names,          \* what stands behind an opening quote of a JSON text
    Uris,           \* uris that a user decodes
    Files,          \* paths and uris of buffers: [base, text]
    Encoded         \* sizes and base64 texts: [size, text]

Texts == Seq(1 .. 255)

ASSUME LoadAssumption ==
    /\ Names \subseteq Texts /\ Uris \subseteq Texts
    /\ Files \subseteq [base : Texts, text : Texts]
    /\ Encoded \subseteq [size : Nat, text : Texts]

VARIABLES
    call,           \* the call: its name, and its arguments
    stage,          \* "start", "decode" or "base64", "read", then "returned"
    path,           \* the block of the path is allocated
    outcome         \* what it has returned

callVars == <<call, stage, path, outcome>>
loadVars == <<vars, stringVars, callVars>>

Call(op, base, text, n) == [op |-> op, base |-> base, text |-> text, size |-> n]

\* Only cgltf_load_buffer_file has a reader; elsewhere it is given one state.
LoadInit ==
    /\ Init
    /\ call \in {Call("loadFile", f.base, f.text, 0) : f \in Files}
           \union (IF reader = "c" /\ asked = 0 /\ disk = 0
                     THEN {Call("decodeString", << >>, js, 0) : js \in Names}
                          \union {Call("decodeUri", << >>, uri, 0) : uri \in Uris}
                          \union {Call("loadBase64", << >>, e.text, e.size) : e \in Encoded}
                     ELSE {})
    /\ string = CString(<< >>) /\ read = 0 /\ write = 0 /\ last = 0 /\ decoded = -1
    /\ buffer64 = 0 /\ buffer_bits = 0 /\ bytes = << >>
    /\ stage = "start" /\ path = FALSE /\ outcome = "none"

CallReturns(r) == stage' = "returned" /\ outcome' = r

-----------------------------------------------------------------------------
\* decodeString is called for a string that jsmn_parse_string has accepted.
decodeString ==
    /\ stage = "start" /\ call.op = "decodeString"
    /\ LET end == jsmn_parse_string(call.text)
       IN  IF end = 0
             THEN CallReturns("invalid_json") /\ UNCHANGED stringVars
             ELSE /\ Begin(CString(SubSeq(call.text, 1, end - 1)), 0)
                  /\ read' = NextBackslash(string', 0)
                  /\ stage' = "decode" /\ UNCHANGED outcome
    /\ UNCHANGED <<vars, call, path>>

decodeUri ==
    /\ stage = "start" /\ call.op = "decodeUri"
    /\ Begin(CString(call.text), 0) /\ read' = 0 /\ stage' = "decode"
    /\ UNCHANGED <<vars, call, path, outcome>>

\* A mutant: the whole path is decoded, its directory too.
TailBegin(base, uri) == 0

\* path + strlen(path) - strlen(uri)
TailOf(base, uri) == Len(cgltf_combine_paths(base, uri)) - Len(uri)

\* cgltf_load_buffer_file, up to cgltf_decode_uri.
CombinePaths ==
    /\ stage = "start" /\ call.op = "loadFile"
    /\ \/ CallReturns("out_of_memory") /\ UNCHANGED <<stringVars, path>>
       \/ LET tail == TailOf(call.base, call.text)
          IN  /\ Begin(CString(cgltf_combine_paths(call.base, call.text)), tail)
              /\ read' = tail /\ stage' = "decode" /\ path' = TRUE /\ UNCHANGED outcome
    /\ UNCHANGED <<vars, call>>

\* One round of the decoder; the last one returns, to the user or to
\* cgltf_load_buffer_file.
Decode ==
    /\ stage = "decode"
    /\ IF call.op = "decodeString" THEN DecodeEscape ELSE DecodeCharacter
    /\ CASE decoded' = -1 -> UNCHANGED <<stage, outcome>>
         [] decoded' # -1 /\ call.op = "loadFile" -> stage' = "read" /\ UNCHANGED outcome
         [] OTHER -> CallReturns("success")
    /\ UNCHANGED <<vars, call, path>>

\* options->file.read: a step of the reader, or another process's.
ReadStep == stage = "read" /\ Step /\ UNCHANGED <<stringVars, callVars>>

FileChanges == stage = "read" /\ Resize /\ UNCHANGED <<stringVars, callVars>>

\* The path is freed, and what the reader has returned is returned.
FreePath ==
    /\ stage = "read" /\ pc = "done"
    /\ path' = FALSE /\ CallReturns(result)
    /\ UNCHANGED <<vars, stringVars, call>>

\* cgltf_load_buffer_base64, up to its loop.
loadBase64 ==
    /\ stage = "start" /\ call.op = "loadBase64"
    /\ \/ CallReturns("out_of_memory") /\ UNCHANGED stringVars
       \/ /\ string' = CString(call.text) /\ stage' = "base64" /\ UNCHANGED outcome
          /\ UNCHANGED <<read, write, last, decoded, base64Vars>>
    /\ UNCHANGED <<vars, call, path>>

DecodeBase64 ==
    /\ stage = "base64"
    /\ \/ /\ Len(bytes) < call.size
          /\ ReadCharacter \/ WriteByte
          /\ UNCHANGED <<stage, outcome>>
       \/ Len(bytes) < call.size /\ GiveUpBytes /\ CallReturns("io_error")
       \/ Len(bytes) = call.size /\ CallReturns("success") /\ UNCHANGED stringVars
    /\ UNCHANGED <<vars, call, path>>

CallStep ==
    \/ decodeString \/ decodeUri \/ CombinePaths \/ Decode \/ ReadStep \/ FreePath
    \/ loadBase64 \/ DecodeBase64

LoadNext == CallStep \/ FileChanges

\* A sequential call: it runs to its return.
LoadSpec == LoadInit /\ [][LoadNext]_loadVars /\ WF_loadVars(CallStep)
-----------------------------------------------------------------------------
(***************************************************************************)
(* What the decoders promise, said of texts.                               *)
(***************************************************************************)
Hexed(t, i) == cgltf_unhex(t[i])

\* What a backslash and one more character are for, and a backslash, u and four.
Meaning(ch) ==
    CASE ch = 98 -> 8 [] ch = 102 -> 12 [] ch = 114 -> 13 [] ch = 110 -> 10
      [] ch = 116 -> 9 [] OTHER -> ch

CodeAt(t, i) ==
    ((Hexed(t, i) * 16 + Hexed(t, i + 1)) * 16 + Hexed(t, i + 2)) * 16 + Hexed(t, i + 3)

\* The n bytes of b from j on are a code in UTF-8; they are as few as it takes.
Trailing == 128 .. 191

Utf8At(b, j, n, code) ==
    \/ n = 1 /\ code < 128 /\ b[j] = code
    \/ /\ n = 2 /\ 128 <= code /\ code < 2048 /\ b[j + 1] \in Trailing
       /\ code = 64 * (b[j] - 192) + (b[j + 1] - 128)
    \/ /\ n = 3 /\ 2048 <= code /\ {b[j + 1], b[j + 2]} \subseteq Trailing
       /\ code = 4096 * (b[j] - 224) + 64 * (b[j + 1] - 128) + (b[j + 2] - 128)

\* The places from which on the bytes b stand for the JSON string t from i on, by
\* those for later ones: an escape for its character, in UTF-8, others for themselves.
Places(b, t, i, from) ==
    {j \in 1 .. Len(b) + 1 :
        \/ i = Len(t) + 1 /\ j = Len(b) + 1
        \/ /\ i <= Len(t) /\ t[i] # Backslash
           /\ j <= Len(b) /\ b[j] = t[i] /\ j + 1 \in from[i + 1]
        \/ /\ i < Len(t) /\ t[i] = Backslash /\ t[i + 1] \in Simple
           /\ j <= Len(b) /\ b[j] = Meaning(t[i + 1]) /\ j + 1 \in from[i + 2]
        \/ /\ i + 5 <= Len(t) /\ t[i] = Backslash /\ t[i + 1] = 117
           /\ \E n \in 1 .. 3 : /\ j + n <= Len(b) + 1 /\ j + n \in from[i + 6]
                                /\ Utf8At(b, j, n, CodeAt(t, i + 2))}

StandsFor(b, t) ==
    LET from[i \in 1 .. Len(t) + 1] == Places(b, t, i, from)
    IN  1 \in from[1]

\* Each % with two digits is one byte: what is left of a uri from i on.
IsByte(t, i) == i + 2 <= Len(t) /\ t[i] = Percent /\ {t[i + 1], t[i + 2]} \subseteq Hex

UriRest(t, i, rest) ==
    CASE i > Len(t) -> << >>
      [] i <= Len(t) /\ IsByte(t, i) ->
            <<16 * Hexed(t, i + 1) + Hexed(t, i + 2)>> \o rest[i + 3]
      [] i <= Len(t) /\ ~IsByte(t, i) -> <<t[i]>> \o rest[i + 1]

UriBytes(t) ==
    LET rest[i \in 1 .. Len(t) + 1] == UriRest(t, i, rest)
    IN  rest[1]

\* Byte k of what a base64 text stands for, from 0: three of four characters, and
\* of each six bits, the first two of them first.
Base64Byte(t, k) ==
    LET first == 4 * (k \div 3) + (k % 3) + 1
        high  == Index(t[first])
        low   == Index(t[first + 1])
    IN  CASE k % 3 = 0 -> high * 4 + low \div 16
          [] k % 3 = 1 -> (high % 16) * 16 + low \div 4
          [] OTHER     -> (high % 4) * 64 + low

\* The string as it was given to the decoder.
Given ==
    CASE call.op = "decodeString" -> SubSeq(call.text, 1, jsmn_parse_string(call.text) - 1)
      [] call.op = "loadFile" -> cgltf_combine_paths(call.base, call.text)
      [] OTHER -> call.text

Prefix(s, n) == [i \in 1 .. n |-> s[i - 1]]

\* "decoded prefix (never longer than the input)" (src/src/document.zig:77-78).
\* While it works in place, a decoder has never written over what it has still to
\* read, nor come to read behind the NUL; the decoder of base64 neither.
InPlace ==
    /\ stage = "decode" =>
          LET unread == IF call.op = "decodeString" THEN last ELSE read
          IN  /\ write <= unread /\ unread <= Len(Given)
              /\ \A i \in unread .. Len(Given) : string[i] = CString(Given)[i]
    /\ stage = "base64" => read <= Len(call.text)

\* What a decoder leaves stands for the same characters as what it was given; a
\* file is asked for by the directory as it is and the uri decoded.
DecodedIsGiven ==
    decoded # -1 =>
      /\ decoded <= Len(Given) /\ string[decoded] = NUL
      /\ CASE call.op = "decodeString" -> StandsFor(Prefix(string, decoded), Given)
           [] call.op = "loadFile" ->
                 Prefix(string, decoded) = Directory(call.base) \o UriBytes(call.text)
           [] OTHER -> Prefix(string, decoded) = UriBytes(call.text)

\* Base64 is loaded when the text has enough of it, not otherwise.
Needed(n) == (8 * n + 5) \div 6

BytesAreGiven ==
    call.op = "loadBase64" /\ outcome \in {"success", "io_error"} =>
      /\ outcome = "success" <=>
            /\ Needed(call.size) <= Len(call.text)
            /\ \A i \in 1 .. Needed(call.size) : Index(call.text[i]) >= 0
      /\ outcome = "success" =>
            bytes = [i \in 1 .. call.size |-> Base64Byte(call.text, i - 1)]

\* Every byte a string is turned into is the right one, at every step.
DecodersAreRight == InPlace /\ DecodedIsGiven /\ BytesAreGiven

\* Every call returns, whatever happens to the file meanwhile, and has freed its
\* path and closed the file.
CallsComeBack == <>[](stage = "returned" /\ ~path /\ files = 0)
=============================================================================
