---------------------------- MODULE Transaction ----------------------------
(***************************************************************************)
(* What cq_transport.h promises of one gopher transaction, without         *)
(* endpoints, states or clocks: once begun it receives what the peer sent, *)
(* in order, until it is done or has failed, once and for all; nothing     *)
(* arrives after that, nor after a cancel; a done transaction with nothing *)
(* to hand over is one whose peer really closed after an empty reply.      *)
(***************************************************************************)
EXTENDS Integers

VARIABLES
  phase,     \* "idle", "running", "muted" (cancelled), "done", "failed", "freed"
  sent,      \* what the peer has sent
  closed,    \* the peer has closed its side in order
  received,  \* what the transaction has taken of it
  drained    \* what the caller of a stream has taken of that

vars == <<phase, sent, closed, received, drained>>

TxInit == phase = "idle" /\ sent = 0 /\ ~closed /\ received = 0 /\ drained = 0

Begin == phase = "idle" /\ phase' = "running" /\ UNCHANGED <<sent, closed, received, drained>>

Peer ==
  /\ ~closed /\ sent' >= sent /\ closed' \in BOOLEAN
  /\ UNCHANGED <<phase, received, drained>>

Takes ==
  /\ received <= received' /\ received' <= sent' /\ sent <= sent'
  /\ closed' \in BOOLEAN /\ (closed => closed' /\ sent' = sent)
  /\ UNCHANGED drained

Receive == phase = "running" /\ Takes /\ UNCHANGED phase

(* Something to hand over, or the whole of a reply closed in order.         *)
Succeed ==
  /\ phase = "running" /\ phase' = "done" /\ Takes
  /\ received' > drained \/ (closed' /\ received' = sent')

Fail == phase = "running" /\ phase' = "failed" /\ Takes

Cancel == phase \in {"idle", "running"} /\ phase' = "muted" /\ UNCHANGED <<sent, closed, received, drained>>

Drain ==
  /\ phase # "freed" /\ drained < drained' /\ drained' <= received
  /\ UNCHANGED <<phase, sent, closed, received>>

Free == phase' = "freed" /\ UNCHANGED <<sent, closed, received, drained>>

TxNext == Begin \/ Peer \/ Receive \/ Succeed \/ Fail \/ Cancel \/ Drain \/ Free

TxSpec == TxInit /\ [][TxNext]_vars
=============================================================================
