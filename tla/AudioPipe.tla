----------------------------- MODULE AudioPipe -----------------------------
(***************************************************************************)
(* What the decode pipeline promises, without rings, stages or contexts:   *)
(* the bytes of one stream arrive in order; each is consumed exactly once, *)
(* in order, either as part of a frame whose PCM joins the output or as    *)
(* skipped junk; the output is played in order, each unit at most once.    *)
(* What is promised to the listener of one stream ends with the next one.  *)
(***************************************************************************)
EXTENDS Integers, Sequences

CONSTANTS MaxFrameLen, PcmUnits

VARIABLES
  arrived,  \* bytes received
  at,       \* first byte neither decoded nor skipped
  out,      \* PCM produced: units <<frame position, part>>
  played    \* units that left the output, heard or trimmed away

vars == <<arrived, at, out, played>>

PipeInit == arrived = 0 /\ at = 0 /\ out = <<>> /\ played = 0

Arrive ==
  /\ arrived' > arrived
  /\ UNCHANGED <<at, out, played>>

Skip ==
  /\ at < at' /\ at' <= arrived
  /\ UNCHANGED <<arrived, out, played>>

Frame(len, units) ==
  /\ at' = at + len /\ at' <= arrived
  /\ out' = out \o [j \in 1 .. units |-> <<at, j>>]
  /\ UNCHANGED <<arrived, played>>

Play ==
  /\ played < played' /\ played' <= Len(out)
  /\ UNCHANGED <<arrived, at, out>>

Restart == arrived' = 0 /\ at' = 0 /\ out' = <<>> /\ played' = 0

PipeNext ==
  \/ Arrive \/ Skip \/ Play \/ Restart
  \/ \E len \in 1 .. MaxFrameLen, units \in PcmUnits : Frame(len, units)

PipeSpec == PipeInit /\ [][PipeNext]_vars
=============================================================================
