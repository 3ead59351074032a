--------------------------- MODULE MCAudioEngine ---------------------------
(***************************************************************************)
(* Streams for TLC: frames of one and two cells, clean from the first one. *)
(***************************************************************************)
EXTENDS AudioEngine

No == [len |-> 0, fmt |-> "a"]
F1 == [len |-> 1, fmt |-> "a"]
F2 == [len |-> 2, fmt |-> "a"]

OfSeq(s) == [p \in 0 .. Len(s) - 1 |-> s[p + 1]]

(* Cut after its last cell, the stream ends in half a frame.                *)
MCStreams == {OfSeq(<<F1, F1, F2, No, F2, No, F2>>)}
MCShort   == {OfSeq(<<F1, F1, F2, No, F2>>)}
=============================================================================
