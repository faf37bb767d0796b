----------------------------- MODULE MCRawTable -----------------------------
(***************************************************************************)
(* The raw table with five elements at most, in 1 to 16 buckets.           *)
(***************************************************************************)
EXTENDS RawTable

\* Two hashes probing from overlapping windows, with an even and an odd tag: either
\* can be pushed into the windows of the other, and a rehash swaps the two.
SmallHashes == {[low |-> 4, top |-> 0], [low |-> 9, top |-> 6]}

\* All elements have one hash: they fill the windows of a single probe.
OneHash == {[low |-> 0, top |-> 1]}

Build(width, probing, encoding, needsDrop, hasherPanics) ==
  [width |-> width, probing |-> probing, encoding |-> encoding,
   needsDrop |-> needsDrop, hasherPanics |-> hasherPanics]

\* Windows of 4 as on 32-bit targets, of 8 as on 64-bit ones without SSE2.
SoundBuilds == {Build(4, "triangular", "highBit", TRUE, TRUE),
                Build(4, "doubleHash", "highBit", FALSE, FALSE),
                Build(8, "triangular", "highBit", FALSE, FALSE)}

\* Elements without a drop function and a hash function that may panic; the copy
\* with the extra tag bit, on the 8-byte groups of neon.
NoDropBuilds == {Build(4, "triangular", "highBit", FALSE, TRUE)}
ExtraBitBuilds == {Build(8, "doubleHash", "extraBit", FALSE, FALSE)}
=============================================================================
