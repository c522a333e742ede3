------------------------------ MODULE Strings ------------------------------
(***************************************************************************)
(* What src/libs/cgltf/cgltf.h does with the characters of a string: the   *)
(* scan of jsmn_parse_string, the decoders that work in place              *)
(* (cgltf_decode_string, cgltf_decode_uri), the path that                  *)
(* cgltf_combine_paths makes, and base64.                                  *)
(*                                                                         *)
(* A character is its code.  A text is a sequence of them; a string in     *)
(* memory is a function on 0 .. n, with NUL at n.  A decoder makes one     *)
(* step for each round of its loop, and writes where it still reads.       *)
(***************************************************************************)
EXTENDS Integers, Sequences

CONSTANT Uint       \* one more than the largest unsigned int

\* A power of two, of 16 bits at least; the decoder of base64 uses 12 of them.
ASSUME UintAssumption == Uint \in Nat \ {0} /\ Uint % 16384 = 0

VARIABLES
    string,         \* the string that is decoded
    read, write,    \* where the decoder reads and writes next
    last,           \* cgltf_decode_string: behind the last escape
    decoded,        \* what the decoder returns: the end of what it wrote; -1 before
    buffer64,       \* cgltf_load_buffer_base64: buffer and buffer_bits
    buffer_bits,
    bytes           \* cgltf_load_buffer_base64: data, as far as it is written

base64Vars == <<buffer64, buffer_bits, bytes>>
stringVars == <<string, read, write, last, decoded, base64Vars>>

NUL == 0
Quote == 34
Percent == 37
Slash == 47
Backslash == 92

CString(text) == [i \in 0 .. Len(text) |-> IF i = Len(text) THEN NUL ELSE text[i + 1]]

cgltf_unhex(ch) ==
    CASE ch \in 48 .. 57  -> ch - 48
      [] ch \in 65 .. 70  -> ch - 55
      [] ch \in 97 .. 102 -> ch - 87
      [] OTHER            -> -1

Hex == {ch \in 48 .. 102 : cgltf_unhex(ch) >= 0}

-----------------------------------------------------------------------------
(***************************************************************************)
(* jsmn_parse_string, behind the opening quote: the position of the quote  *)
(* that closes the string, or 0 for an error.                              *)
(***************************************************************************)
Simple == {Quote, Slash, Backslash, 98, 102, 114, 110, 116}   \* " / \ b f r n t

At(js, i) == IF i <= Len(js) THEN js[i] ELSE NUL

\* Behind four digits, or fewer when the text ends; none if another character comes first.
BehindDigits(js, i) ==
    {i + n : n \in {m \in 0 .. 4 : /\ \A k \in 0 .. m - 1 : At(js, i + k) \in Hex
                                   /\ m = 4 \/ At(js, i + m) = NUL}}

\* One round of its loop, by what the rounds that follow make of it.
Scan(js, pos, scan) ==
    CASE At(js, pos) = NUL -> 0
      [] At(js, pos) = Quote -> pos
      [] At(js, pos) = Backslash /\ pos < Len(js) ->
            CASE At(js, pos + 1) \in Simple -> scan[pos + 2]
              [] At(js, pos + 1) = 117 /\ BehindDigits(js, pos + 2) # {} ->
                    scan[CHOOSE next \in BehindDigits(js, pos + 2) : TRUE]
              [] OTHER -> 0
      [] OTHER -> scan[pos + 1]

jsmn_parse_string(js) ==
    LET scan[pos \in 1 .. Len(js) + 1] == Scan(js, pos, scan)
    IN  scan[1]

-----------------------------------------------------------------------------
\* The string from i on is handed to a decoder.
Begin(s, i) ==
    /\ string' = s /\ write' = i /\ last' = i /\ decoded' = -1
    /\ UNCHANGED base64Vars

\* strcspn(s + i, "\\"), as a position.
NextBackslash(s, i) ==
    CHOOSE j \in DOMAIN s : /\ j >= i /\ s[j] \in {Backslash, NUL}
                            /\ \A k \in i .. j - 1 : s[k] \notin {Backslash, NUL}

\* s with the elements of a sequence from a position on.
Put(s, i, seq) ==
    [j \in DOMAIN s |-> IF j - i + 1 \in DOMAIN seq THEN seq[j - i + 1] ELSE s[j]]

\* UCS-2 to UTF-8.
Encode(character) ==
    IF character <= 127 THEN <<character>>
    ELSE IF character <= 2047
    THEN <<192 + character \div 64, 128 + (character % 64)>>
    ELSE <<224 + character \div 4096, 128 + ((character \div 64) % 64), 128 + (character % 64)>>

\* What stands for an escape, from the character behind its backslash on.
Unescaped(s, i) ==
    CASE s[i] \in {Quote, Slash, Backslash} -> <<s[i]>>
      [] s[i] = 98  -> <<8>>
      [] s[i] = 102 -> <<12>>
      [] s[i] = 114 -> <<13>>
      [] s[i] = 110 -> <<10>>
      [] s[i] = 116 -> <<9>>
      [] s[i] = 117 -> Encode(4096 * cgltf_unhex(s[i + 1]) + 256 * cgltf_unhex(s[i + 2])
                                + 16 * cgltf_unhex(s[i + 3]) + cgltf_unhex(s[i + 4]))
      [] OTHER -> << >>

EscapeLength(ch) == IF ch = 117 THEN 6 ELSE 2

(***************************************************************************)
(* cgltf_decode_string: the characters since the last escape move down     *)
(* (memmove), then the escape is decoded behind them.  Without any escape  *)
(* it returns at once, with the string as it is.                           *)
(***************************************************************************)
DecodeEscape ==
    LET run   == [k \in 1 .. read - last |-> string[last + k - 1]]
        moved == Put(string, write, run)
        end   == write + Len(run)
    IN  IF moved[read] = NUL
          THEN /\ string' = Put(moved, end, <<NUL>>)
               /\ write' = end /\ decoded' = end
               /\ UNCHANGED <<read, last, base64Vars>>
          ELSE LET written == Unescaped(moved, read + 1)
                   next  == read + EscapeLength(moved[read + 1])
               IN  /\ string' = Put(moved, end, written)
                   /\ write' = end + Len(written) /\ last' = next
                   /\ read' = NextBackslash(string', next)
                   /\ UNCHANGED <<decoded, base64Vars>>

-----------------------------------------------------------------------------
(***************************************************************************)
(* cgltf_decode_uri.                                                       *)
(***************************************************************************)
Escaped(s, i) == s[i] = Percent /\ s[i + 1] \in Hex /\ s[i + 2] \in Hex

DecodeCharacter ==
    LET n     == IF Escaped(string, read) THEN 3 ELSE 1
        byte  == IF Escaped(string, read)
                   THEN 16 * cgltf_unhex(string[read + 1]) + cgltf_unhex(string[read + 2])
                   ELSE string[read]
    IN  IF string[read] = NUL
          THEN /\ string' = Put(string, write, <<NUL>>) /\ decoded' = write
               /\ UNCHANGED <<read, write, last, base64Vars>>
          ELSE /\ string' = Put(string, write, <<byte>>)
               /\ write' = write + 1 /\ read' = read + n
               /\ UNCHANGED <<last, decoded, base64Vars>>

-----------------------------------------------------------------------------
(***************************************************************************)
(* cgltf_combine_paths: the directory of the glTF file, then the uri.      *)
(***************************************************************************)
Directory(base) ==
    LET slashes == {i \in DOMAIN base : base[i] \in {Slash, Backslash}}
    IN  IF slashes = {} THEN << >>
        ELSE SubSeq(base, 1, CHOOSE i \in slashes : \A j \in slashes : j <= i)

cgltf_combine_paths(base, uri) == Directory(base) \o uri

(***************************************************************************)
(* The loops of cgltf_load_buffer_base64, a round at a time.               *)
(***************************************************************************)
Index(ch) ==
    CASE ch \in 65 .. 90  -> ch - 65
      [] ch \in 97 .. 122 -> ch - 71
      [] ch \in 48 .. 57  -> ch + 4
      [] ch = 43 -> 62
      [] ch = 47 -> 63
      [] OTHER -> -1

Power2 == <<1, 2, 4, 8, 16, 32>>

\* (unsigned char)(buffer >> (buffer_bits - 8)); there are never more than 12 bits.
TopByte(buffer, bits) == (buffer \div Power2[bits - 7]) % 256

\* while (buffer_bits < 8): the next character, which has to be one of base64.
ReadCharacter ==
    /\ buffer_bits < 8 /\ Index(string[read]) >= 0
    /\ buffer64' = (buffer64 * 64 + Index(string[read])) % Uint
    /\ buffer_bits' = buffer_bits + 6 /\ read' = read + 1
    /\ UNCHANGED <<string, write, last, decoded, bytes>>

\* data[i]
WriteByte ==
    /\ buffer_bits >= 8
    /\ bytes' = Append(bytes, TopByte(buffer64, buffer_bits))
    /\ buffer_bits' = buffer_bits - 8
    /\ UNCHANGED <<string, read, write, last, decoded, buffer64>>

\* The first character that is none of base64, the NUL at the end included; data
\* is freed.
GiveUpBytes ==
    /\ buffer_bits < 8 /\ Index(string[read]) < 0
    /\ bytes' = << >>
    /\ UNCHANGED <<string, read, write, last, decoded, buffer64, buffer_bits>>
=============================================================================
