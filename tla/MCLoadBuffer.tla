---------------------------- MODULE MCLoadBuffer ----------------------------
(***************************************************************************)
(* The texts that LoadBuffer is checked over: all short ones of the        *)
(* characters the decoders tell apart, and all escapes \uXXXX of digits    *)
(* around the limits of UTF-8, alone, behind a character in UTF-8 and       *)
(* between other escapes.                                                  *)
(***************************************************************************)
EXTENDS LoadBuffer

MCUint == 65536

SeqsUpTo(set, n) == UNION {[1 .. k -> set] : k \in 0 .. n}

\* " \ u n 8
MCNames ==
    {t \o <<Quote>> : t \in SeqsUpTo({Quote, Backslash, 117, 110, 56}, 5)}
    \union {before \o <<Backslash, 117>> \o digits \o after \o <<Quote>> :
               before \in {<< >>, <<195, 169>>, <<Backslash, 110>>},
               digits \in [1 .. 4 -> {48, 55, 56, 70}],
               after \in {<< >>, <<56>>, <<Backslash, Slash, 56>>}}
    \union {<<Backslash, ch, Quote>> : ch \in Simple}

\* % 2 f z
MCUris == SeqsUpTo({Percent, 50, 102, 122}, 5)

\* a%20b/c.gltf, c.gltf and so on, with uris that have percent signs of their own.
MCFiles ==
    {[base |-> base, text |-> text] :
        base \in {<<122>>, <<Percent, 50, 48, Slash, 122>>, <<Slash, 122, Backslash, 122>>},
        text \in {<<122, Percent, 50, 48>>, <<Percent, 50, Slash>>}}

\* A z / + and = , which is none of base64.
MCEncoded ==
    {[size |-> n, text |-> text] :
        n \in 0 .. 3, text \in SeqsUpTo({65, 122, 43, 47, 61}, 4)}
=============================================================================
