----------------------------- MODULE Transport -----------------------------
(***************************************************************************)
(* One transaction of cq_transport.h in either implementation: "ot",       *)
(* cq_transport_ot.c (Open Transport, a state machine advanced one bounded *)
(* slice per poll, its connect reported by a notifier at deferred-task     *)
(* time), and "posix", cq_transport_posix.c (blocking, one poll; a stream  *)
(* is read without blocking).  The peer and the clock are the environment; *)
(* cells stand for runs of bytes.                                          *)
(***************************************************************************)
EXTENDS Integers

CONSTANTS
  Impls,     \* subset of {"ot", "posix"}
  ReqLen,    \* cells of "selector\r\n"
  MaxReply,  \* bounds the model: cells the peer sends at most
  HiWat,     \* CQ_TX_STREAM_HIWAT
  Chunk,     \* CQ_TX_READ_CHUNK
  Deadline,  \* CQ_TX_DEADLINE_SECS, in ticks
  Watchdog,  \* CQ_TX_WATCHDOG_SECS, in ticks
  Gap,       \* ticks between two polls of the event loop, at most
  TickMod,   \* 2^32: TickCount wraps
  Boots      \* bounds the model: TickCount at the start

ASSUME TransportAssumption ==
  /\ Impls \subseteq {"ot", "posix"}
  /\ ReqLen \in Nat \ {0} /\ MaxReply \in Nat /\ HiWat \in Nat \ {0} /\ Chunk \in Nat \ {0}
  /\ Deadline \in Nat \ {0} /\ Watchdog \in Nat /\ Gap \in Nat /\ TickMod \in Nat
  /\ Deadline < Watchdog /\ Watchdog + Gap < TickMod
  /\ Boots \subseteq 0 .. TickMod - 1

VARIABLES
  impl,
  t,        \* struct cq_transport; t.open: history, endpoints the provider has open for it
  net,      \* the connection: "closed", "calling", "up", "refused", "broken" (reset)
  sent,     \* cells the peer has sent
  wire,     \* of which not yet received, nor lost in a reset
  fin,      \* the peer has closed in order
  drained,  \* history: cells the caller of a stream took
  now,      \* TickCount()
  idle,     \* ticks since the last poll
  age       \* history: ticks since cq_tx_start, capped

vars == <<impl, t, net, sent, wire, fin, drained, now, idle, age>>
peerVars == <<sent, fin, drained>>
clockVars == <<now, age>>

NoTx == [life |-> "none", status |-> "RUNNING", error |-> "NONE", st |-> "INIT",
         ep |-> FALSE, open |-> 0, async |-> FALSE, conn |-> "none", reqoff |-> 0, len |-> 0,
         cancelled |-> FALSE, streaming |-> FALSE, started |-> FALSE, start |-> 0]

-----------------------------------------------------------------------------
(* The life of the struct, common to both.                                  *)
(* Mutant: the reference outlives the endpoint.                             *)
ot_teardown_KeepsRef(x) == IF x.ep THEN [x EXCEPT !.open = @ - 1] ELSE x
ot_teardown(x) == IF x.ep THEN [x EXCEPT !.ep = FALSE, !.open = @ - 1] ELSE x

fail(x, e) == [ot_teardown(x) EXCEPT !.status = "FAILED", !.st = "FAILED", !.error = e]
done(x) == [ot_teardown(x) EXCEPT !.status = "DONE", !.st = "DONE"]
append(x, n) == [x EXCEPT !.len = @ + n]

cq_tx_new(streaming) ==
  /\ t.life = "none"
  /\ t' \in {[t EXCEPT !.life = l, !.streaming = streaming] : l \in {"live", "freed"}}
  /\ UNCHANGED <<impl, net, wire, idle, peerVars, clockVars>>

cq_tx_start ==
  /\ t.life = "live" /\ ~t.started /\ t.status = "RUNNING"
  /\ t' = [t EXCEPT !.started = TRUE, !.start = now]
  /\ age' = 0 /\ idle' = 0
  /\ UNCHANGED <<impl, net, wire, peerVars, now>>

cq_tx_drain(cap) ==
  /\ t.life = "live" /\ t.streaming /\ t.len > 0
  /\ LET n == IF t.len < cap THEN t.len ELSE cap IN
       t' = [t EXCEPT !.len = @ - n] /\ drained' = drained + n
  /\ UNCHANGED <<impl, net, sent, wire, fin, idle, clockVars>>

cq_tx_cancel ==
  /\ t.life = "live" /\ ~t.cancelled
  /\ t' = [ot_teardown(t) EXCEPT !.cancelled = TRUE]
  /\ UNCHANGED <<impl, net, wire, idle, peerVars, clockVars>>

cq_tx_free ==
  /\ t.life = "live"
  /\ t' = [t EXCEPT !.life = "freed", !.open = IF t.ep THEN @ - 1 ELSE @]
  /\ UNCHANGED <<impl, net, wire, idle, peerVars, clockVars>>

-----------------------------------------------------------------------------
(* Open Transport: one slice per poll, then the deadlines.                  *)
(* Mutant: compares absolute ticks.                                         *)
Elapsed_NoWrap == IF now > t.start THEN now - t.start ELSE 0
Elapsed == (now - t.start) % TickMod

(* Mutants: one deadline for every state; no watchdog.                      *)
Deadlines_Early(x) == IF Elapsed >= Deadline THEN fail(x, "TIMEOUT") ELSE x
Deadlines_ConnectOnly(x) ==
  IF x.st = "CONNECTING" /\ Elapsed > Deadline THEN fail(x, "TIMEOUT") ELSE x

Deadlines(x) ==
  IF \/ x.st = "CONNECTING" /\ Elapsed > Deadline
     \/ ~(x.streaming /\ x.st = "RECEIVING") /\ Elapsed > Watchdog
  THEN fail(x, "TIMEOUT") ELSE x

Settle(x) == t' = IF x.status = "RUNNING" THEN Deadlines(x) ELSE x

Opened == [t EXCEPT !.ep = TRUE, !.open = @ + 1]

open_and_connect ==
  /\ t.st = "INIT"
  /\ \/ Settle(fail(t, "CONNECT")) /\ UNCHANGED net        \* no Open Transport, no endpoint
     \/ Settle(fail(Opened, "CONNECT")) /\ UNCHANGED net   \* bind, resolve or connect refused
     \/ /\ \E async \in BOOLEAN : Settle([Opened EXCEPT !.async = async, !.st = "CONNECTING"])
        /\ net' = "calling"
     \/ Settle([Opened EXCEPT !.st = "SENDING"]) /\ net' = "up"
  /\ UNCHANGED <<wire, peerVars>>

Pending == CASE net = "up" -> "T_CONNECT"
             [] net \in {"refused", "broken"} -> "T_DISCONNECT"
             [] OTHER -> "none"

(* OTLook may surface an event later than the notifier recorded it.         *)
pump_connect ==
  /\ t.st = "CONNECTING"
  /\ \E look \in {Pending, t.conn} :
       \/ look = "none" /\ Settle(t)
       \/ look = "T_CONNECT" /\ net = "up" /\ Settle([t EXCEPT !.st = "SENDING", !.async = FALSE])
       \/ look # "none" /\ Settle(fail(t, "CONNECT"))
  /\ UNCHANGED <<net, wire, peerVars>>

pump_send ==
  /\ t.st = "SENDING"
  /\ \/ /\ net = "up"
        /\ \E off \in t.reqoff .. ReqLen :
             Settle([t EXCEPT !.reqoff = off, !.st = IF off = ReqLen THEN "RECEIVING" ELSE @])
     \/ Settle(fail(t, "STREAM"))                          \* no memory, or the write fails
  /\ UNCHANGED <<net, wire, peerVars>>

(* Mutant: counts what was received, not what is buffered.                  *)
Full_EverReceived(x) == x.streaming /\ x.len + drained >= HiWat
Full(x) == x.streaming /\ x.len >= HiWat

(* Mutant: the loop reads on past the mark.                                 *)
Reads_Unbounded == 0 .. wire

(* What a loop of reads can take: no read begins past the high-water mark.  *)
Reads == {n \in 0 .. wire : t.streaming /\ n > 0 => t.len < HiWat /\ t.len + n < HiWat + Chunk}

(* Mutant: an error with nothing received is a success too.                 *)
KeepBytes_Always(x) == done(x)
KeepBytes(x) == IF x.len > 0 THEN done(x) ELSE fail(x, "STREAM")

pump_recv ==
  /\ t.st = "RECEIVING"
  /\ \E n \in Reads :
       LET x == append(t, n) dry == n = wire IN
       /\ wire' = wire - n
       /\ \/ Full(x) /\ Settle(x)
          \/ dry /\ ~fin /\ net = "up" /\ Settle(x)                      \* nothing now
          \/ dry /\ ~Full(x) /\ fin /\ net = "up" /\ Settle(done(x))     \* T_ORDREL
          \/ dry /\ ~Full(x) /\ net = "broken" /\ Settle(KeepBytes(x))   \* T_DISCONNECT
          \/ ~Full(x) /\ Settle(KeepBytes(x))                            \* any other error
          \/ ~dry /\ ~Full(x) /\ Settle(fail(x, "STREAM"))               \* no memory
  /\ UNCHANGED <<net, peerVars>>

OTPoll == open_and_connect \/ pump_connect \/ pump_send \/ pump_recv

(* Deferred-task time: all it does is one aligned store.                    *)
conn_notifier ==
  /\ t.life = "live" /\ t.ep /\ t.async /\ Pending \notin {"none", t.conn}
  /\ t' = [t EXCEPT !.conn = Pending]
  /\ UNCHANGED <<impl, net, wire, idle, peerVars, clockVars>>

-----------------------------------------------------------------------------
(* POSIX.  A transaction runs to its end in the first poll, its socket      *)
(* local to it; a stream's first poll connects and sends.                   *)
run ==
  /\ ~t.streaming /\ t.started
  /\ LET ran == [t EXCEPT !.started = FALSE] IN
     \/ /\ \E e \in {"CONNECT", "TIMEOUT", "STREAM"} : t' = fail(ran, e)
        /\ UNCHANGED <<sent, fin>>
     \/ \E n \in 0 .. MaxReply :
          /\ sent' = n
          /\ \/ fin' = TRUE /\ t' = done(append(ran, n))
             \/ fin' = FALSE /\ t' = KeepBytes(append(ran, n))
             \/ n > 0 /\ fin' = FALSE /\ t' = fail(append(ran, n - 1), "STREAM")
  /\ UNCHANGED <<net, wire, drained>>

connect_and_send ==
  /\ t.streaming /\ t.started /\ ~t.ep
  /\ \/ \E e \in {"CONNECT", "TIMEOUT", "STREAM"} : t' = fail(t, e) /\ UNCHANGED net
     \/ t' = [Opened EXCEPT !.reqoff = ReqLen, !.st = "RECEIVING"] /\ net' = "up"
  /\ UNCHANGED <<wire, peerVars>>

pump_stream ==
  /\ t.streaming /\ t.ep
  /\ \E n \in Reads :
       LET x == append(t, n) dry == n = wire IN
       /\ wire' = wire - n
       /\ \/ Full(x) /\ t' = x
          \/ dry /\ ~fin /\ net = "up" /\ t' = x
          \/ dry /\ ~Full(x) /\ fin /\ net = "up" /\ t' = done(x)
          \/ dry /\ ~Full(x) /\ net = "broken" /\ t' = fail(x, "STREAM")
          \/ ~dry /\ ~Full(x) /\ t' = fail(x, "STREAM")    \* no memory
  /\ UNCHANGED <<net, peerVars>>

PosixPoll == run \/ connect_and_send \/ pump_stream

-----------------------------------------------------------------------------
(* Callers start a transaction before they poll it.                         *)
Inert == t.cancelled \/ t.status # "RUNNING"

cq_tx_poll ==
  /\ t.life = "live" /\ (t.started \/ Inert)
  /\ idle' = 0
  /\ \/ Inert /\ UNCHANGED <<t, net, wire, peerVars>>
     \/ ~Inert /\ impl = "ot" /\ OTPoll
     \/ ~Inert /\ impl = "posix" /\ PosixPoll
  /\ UNCHANGED <<impl, clockVars>>

(* The peer, while the endpoint is open.                                    *)
Moves(n, w) == t.life = "live" /\ t.ep /\ net' = n /\ wire' = w /\ UNCHANGED <<impl, t, drained, idle, clockVars>>

PeerAccepts == net = "calling" /\ Moves("up", wire) /\ UNCHANGED <<sent, fin>>
PeerRefuses == net = "calling" /\ Moves("refused", wire) /\ UNCHANGED <<sent, fin>>
PeerResets  == net = "up" /\ (\E w \in 0 .. wire : Moves("broken", w)) /\ UNCHANGED <<sent, fin>>
PeerSends ==
  /\ net = "up" /\ t.reqoff = ReqLen /\ ~fin /\ sent < MaxReply
  /\ Moves(net, wire + 1) /\ sent' = sent + 1 /\ UNCHANGED fin
PeerCloses == net = "up" /\ ~fin /\ Moves(net, wire) /\ fin' = TRUE /\ UNCHANGED sent

(* The clock matters to a transaction that runs.                            *)
Tick ==
  /\ t.life = "live" /\ t.started /\ ~Inert /\ idle < Gap
  /\ now' = (now + 1) % TickMod /\ idle' = idle + 1
  /\ age' = IF age > Watchdog + Gap THEN age ELSE age + 1
  /\ UNCHANGED <<impl, t, net, wire, peerVars>>

Init ==
  /\ impl \in Impls /\ t = NoTx /\ net = "closed"
  /\ sent = 0 /\ wire = 0 /\ fin = FALSE /\ drained = 0
  /\ now \in Boots /\ idle = 0 /\ age = 0

Caller ==
  \/ \E s \in BOOLEAN : cq_tx_new(s)
  \/ cq_tx_start \/ cq_tx_cancel \/ cq_tx_free
  \/ \E cap \in 1 .. Chunk : cq_tx_drain(cap)

PeerStep == PeerAccepts \/ PeerRefuses \/ PeerResets \/ PeerSends \/ PeerCloses

Next == cq_tx_poll \/ Caller \/ conn_notifier \/ PeerStep \/ Tick

Spec == Init /\ [][Next]_vars

(* The event loop polls every pass and its caller drains a stream; the      *)
(* clock runs.  Nothing is asked of the peer.                               *)
Fairness == WF_vars(cq_tx_poll) /\ WF_vars(Tick) /\ WF_vars(\E cap \in 1 .. Chunk : cq_tx_drain(cap))

FairSpec == Spec /\ Fairness

-----------------------------------------------------------------------------
Structs ==
  [life : {"none", "live", "freed"}, status : {"RUNNING", "DONE", "FAILED"},
   error : {"NONE", "CONNECT", "TIMEOUT", "STREAM"},
   st : {"INIT", "CONNECTING", "SENDING", "RECEIVING", "DONE", "FAILED"},
   ep : BOOLEAN, open : Int, async : BOOLEAN,
   conn : {"none", "T_CONNECT", "T_DISCONNECT"}, reqoff : 0 .. ReqLen, len : Nat,
   cancelled : BOOLEAN, streaming : BOOLEAN, started : BOOLEAN, start : 0 .. TickMod - 1]

TypeOK ==
  /\ impl \in Impls /\ t \in Structs
  /\ net \in {"closed", "calling", "up", "refused", "broken"}
  /\ sent \in Nat /\ wire \in Nat /\ drained \in Nat /\ fin \in BOOLEAN
  /\ now \in 0 .. TickMod - 1 /\ idle \in 0 .. Gap /\ age \in Nat

(* Every endpoint that was opened is closed exactly once, whichever of the  *)
(* failure, the end, the cancel and the free comes first: none is open for  *)
(* a finished, cancelled or freed transaction (ot_teardown's callers).      *)
EndpointClosedOnce ==
  /\ t.open = IF t.life = "live" /\ t.ep THEN 1 ELSE 0
  /\ t.ep => t.status = "RUNNING" /\ ~t.cancelled

(* A poll loop that keeps its pace sees the end of a transaction within the *)
(* watchdog, and of a connect within the deadline, across a TickCount wrap; *)
(* only a stream that reached its receive state outlives them.              *)
DeadlinesHold ==
  impl = "ot" /\ t.life = "live" /\ t.started /\ ~Inert =>
    /\ t.st = "CONNECTING" => age <= Deadline + Gap
    /\ (t.streaming /\ t.st = "RECEIVING") \/ age <= Watchdog + Gap

(* The receive buffer of a stream never outgrows the high-water mark by     *)
(* more than the read that crossed it.                                      *)
BufferBounded == t.streaming => t.len < HiWat + Chunk

(* A transaction is never timed out early, nor a stream that flows at all.  *)
NoEarlyTimeout ==
  [][impl = "ot" /\ t'.error = "TIMEOUT" /\ t.error # "TIMEOUT"
       => age > Deadline /\ ~(t.streaming /\ t.st = "RECEIVING")]_vars

(* What either implementation does is what cq_transport.h promises.         *)
Phase ==
  IF t.life = "freed" THEN "freed"
  ELSE IF t.status = "DONE" THEN "done"
  ELSE IF t.status = "FAILED" THEN "failed"
  ELSE IF t.cancelled THEN "muted"
  ELSE IF t.started THEN "running" ELSE "idle"

Abs == INSTANCE Transaction WITH
  phase <- Phase, sent <- sent, closed <- fin, received <- t.len + drained, drained <- drained

ImplementsTransaction == Abs!TxSpec

(* A transaction that is polled ends, whatever the peer does, unless its    *)
(* caller cancels or frees it.                                              *)
PolledEnds ==
  (impl = "ot" /\ t.started /\ ~t.streaming)
     ~> (t.status # "RUNNING" \/ t.cancelled \/ t.life = "freed")

(* The end of a stream is seen however full its buffer is, as the reader    *)
(* drains it (the high-water mark).                                         *)
StreamEndIsSeen ==
  (t.streaming /\ t.st = "RECEIVING" /\ (fin \/ net = "broken"))
     ~> (t.status # "RUNNING" \/ t.cancelled \/ t.life = "freed")

=============================================================================
