----------------------------- MODULE MCDecRing -----------------------------
(***************************************************************************)
(* Streams for TLC.  Frames are 1 to 3 cells long; a cell without a header *)
(* is the body of a frame or splice junk.                                  *)
(***************************************************************************)
EXTENDS DecRing

No      == [len |-> 0, fmt |-> "a"]
F1      == [len |-> 1, fmt |-> "a"]
F2      == [len |-> 2, fmt |-> "a"]
F3      == [len |-> 3, fmt |-> "a"]
G2      == [len |-> 2, fmt |-> "b"]

OfSeq(s) == [p \in 0 .. Len(s) - 1 |-> s[p + 1]]

(* Splices: junk between frames, a frame cut short, a format change, a      *)
(* stream that starts in junk with frames behind it to realign to, one    *)
(* whose junk ends in a false header over two frames (at 5 and at 6).  The *)
(* second is clean but for its cut frame; two end in a frame cut short.   *)
MCStreams == {
  OfSeq(<<F2, No, No, No, No, F2, No, F2, No, F2>>),
  OfSeq(<<F2, No, F2, F2, No, F2, No, F1, F2, No>>),
  OfSeq(<<F2, No, G2, No, G2, No, F2, No, F2, No>>),
  OfSeq(<<No, No, No, F2, No, F2, No, F2, No, F2>>),
  OfSeq(<<No, No, No, No, F3, F1, F1, F3, No, No>>)
}
=============================================================================
