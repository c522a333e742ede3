---------------------------- MODULE MCContainer ----------------------------
(***************************************************************************)
(* The documents and files that Container is checked over.                 *)
(***************************************************************************)
EXTENDS Container

\* Any two extensions together.
MCExtensions == {{}} \union {{a, b} : a \in Listed, b \in Listed}

\* And what is printed unquoted.
MCFeatures == MCExtensions \union {{f} : f \in Unquoted}

MCUint32 == 64

\* Files with a second chunk or not, of every size around what their words say,
\* with lengths that fit, do not, and lead past each other.
AFile(size, magic, version, total, json, json_magic, bin, bin_magic) ==
    [size |-> size,
     words |-> (0 :> magic) @@ (4 :> version) @@ (8 :> total) @@ (12 :> json)
               @@ (16 :> json_magic) @@ (20 + json :> bin) @@ (24 + json :> bin_magic)]

MCForeign ==
    {AFile(size, magic, version, total, json, json_magic, bin, bin_magic) :
        size \in {0, 11, 12, 16, 19, 20, 21, 27, 28, 29, 32, 33, 40},
        magic \in {GlbMagic, 1}, version \in {1, 2, 3}, total \in {0, 20, 28, 32, 63},
        json \in {0, 1, 4, 5, 12, 63}, json_magic \in {GlbMagicJsonChunk},
        bin \in {0, 1, 4, 63}, bin_magic \in {GlbMagicBinChunk, 0}}
    \union
    {AFile(size, GlbMagic, 2, 20, 4, 0, 0, GlbMagicBinChunk) : size \in {24, 32}}
=============================================================================
