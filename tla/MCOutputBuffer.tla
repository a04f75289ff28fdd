--------------------------- MODULE MCOutputBuffer ---------------------------
(***************************************************************************)
(* OutputBuffer for TLC: texts of one- and three-byte characters around    *)
(* the limits of text and artifact, short outputs with bytes that are not  *)
(* UTF-8, long texts for the omission marker in each of its three forms,   *)
(* and short texts of four-byte characters.                                *)
(***************************************************************************)
EXTENDS OutputBuffer

Case(outputs, chunkSizes, bytes, mode, persistedBytes) ==
    [outputs |-> outputs, chunkSizes |-> chunkSizes, maximumBytes |-> bytes,
     capture |-> mode, persistedMaximumBytes |-> persistedBytes]

Texts(bytes, n) ==
    {FlattenSeq(t) : t \in UNION {[1 .. k -> bytes] : k \in 0 .. n}}

Narrow == {FlattenSeq(t) : t \in [1 .. 8 -> {Encoding.a, Encoding.three}]}
Wide   == Texts({Encoding.a, Encoding.four}, 3)
Broken == Texts({Encoding.a, Encoding.three, <<"bad">>, <<"t1", "t2">>, <<"f2">>}, 4)
Long   == {[i \in 1 .. 120 |-> "a"]}

MCBroken == {Case(Broken, {1, 2, 3}, 4, "head", 0)}
MCWide   == {Case(Wide, {1, 2, 3}, 3, "head", 0)}
MCCases  == MCBroken \cup MCWide \cup {Case(Narrow, {2, 7}, 18, "head_tail", 20)}
                     \cup {Case(Long, {7, 10, 40}, bytes, "head_tail", 0)
                              : bytes \in {8, 9, 25, 40}}
=============================================================================
