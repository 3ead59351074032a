-------------------------- MODULE TransportProofs ---------------------------
(***************************************************************************)
(* The safety of one transaction, for every length of request and reply,   *)
(* every deadline, clock and pace of the polls, in either implementation.  *)
(* A poll of Open Transport's makes of the struct a candidate and then     *)
(* puts the deadlines to it: what the four states do is proved of the      *)
(* candidate, what the deadlines do is proved once.                        *)
(***************************************************************************)
EXTENDS Transport, RingArithmetic, TLAPS

(* An endpoint belongs to a transaction that runs and has left its start.   *)
LifeInv ==
  /\ t.life = "none" =>
       t.st = "INIT" /\ t.status = "RUNNING" /\ ~t.started /\ ~t.cancelled
  /\ t.status = "RUNNING" => t.error = "NONE"
  /\ t.status = "RUNNING" /\ ~t.cancelled /\ ~t.ep => t.st = "INIT"
  /\ t.st = "INIT" => ~t.ep
  /\ impl = "posix" /\ ~t.streaming => ~t.ep

(* What was sent is received, drained, on the wire, or lost in a reset.     *)
FlowInv ==
  /\ t.st = "INIT" =>
       t.len = 0 /\ drained = 0 /\ wire = 0 /\ sent = 0 /\ ~fin /\ net = "closed"
  /\ t.len + drained + wire <= sent
  /\ net \in {"calling", "up"} => t.len + drained + wire = sent

(* The ticks counted by the transaction are those that passed, and the last *)
(* poll saw to it that they were few.                                       *)
ClockInv ==
  /\ t.started /\ age <= Watchdog + Gap => Elapsed = age
  /\ impl = "ot" /\ t.life = "live" /\ t.started /\ ~Inert =>
       /\ t.st = "INIT" => age <= idle
       /\ t.st = "CONNECTING" => age <= Deadline + idle
       /\ (t.streaming /\ t.st = "RECEIVING") \/ age <= Watchdog + idle

Inv == TypeOK /\ EndpointClosedOnce /\ BufferBounded /\ LifeInv /\ FlowInv /\ ClockInv

-----------------------------------------------------------------------------
(* What the helpers make of a struct.                                       *)
Ended(x, y, s) ==
  /\ y \in Structs /\ y.status = s /\ y.st = s /\ y.ep = FALSE
  /\ y.open = IF x.ep THEN x.open - 1 ELSE x.open
  /\ y.life = x.life /\ y.len = x.len /\ y.cancelled = x.cancelled
  /\ y.streaming = x.streaming /\ y.started = x.started /\ y.start = x.start

LEMMA Teardown ==
  ASSUME NEW x \in Structs
  PROVE  /\ ot_teardown(x) \in Structs
         /\ ot_teardown(x) = [x EXCEPT !.ep = FALSE, !.open = IF x.ep THEN x.open - 1 ELSE x.open]
<1> DEFINE n == IF x.ep THEN x.open - 1 ELSE x.open
           y == [x EXCEPT !.ep = FALSE, !.open = n]
<1>1. x.ep \in BOOLEAN /\ x.open \in Int
  BY DEF Structs
<1>2. n \in Int
  BY <1>1
<1>3. ot_teardown(x) = y
  <2>1. CASE x.ep
    BY <2>1 DEF ot_teardown
  <2>2. CASE x.ep = FALSE
    <3>1. x = [x EXCEPT !.ep = FALSE, !.open = x.open]
      BY <2>2 DEF Structs
    <3> QED
      BY <2>2, <3>1 DEF ot_teardown
  <2> QED
    BY <1>1, <2>1, <2>2
<1>4. y \in Structs
  <2> HIDE DEF n
  <2> QED
    BY <1>2 DEF Structs
<1> QED
  BY <1>3, <1>4

(* The fields that success writes keep their types.                         *)
LEMMA DoneTypes ==
  ASSUME NEW x \in Structs
  PROVE  [x EXCEPT !.status = "DONE", !.st = "DONE"] \in Structs
BY DEF Structs

LEMMA FailEnds ==
  ASSUME NEW x \in Structs, NEW e \in {"CONNECT", "TIMEOUT", "STREAM"}
  PROVE  Ended(x, fail(x, e), "FAILED") /\ fail(x, e).error = e
<1> DEFINE n == IF x.ep THEN x.open - 1 ELSE x.open
           y == ot_teardown(x)
<1>1. y \in Structs /\ y = [x EXCEPT !.ep = FALSE, !.open = n]
  BY Teardown
<1>2. fail(x, e) = [y EXCEPT !.status = "FAILED", !.st = "FAILED", !.error = e]
  BY DEF fail
<1> HIDE DEF y, n
<1>3. /\ y.ep = FALSE /\ y.open = n /\ y.life = x.life /\ y.len = x.len
      /\ y.cancelled = x.cancelled /\ y.streaming = x.streaming /\ y.started = x.started
      /\ y.start = x.start
  BY <1>1 DEF Structs
<1>4. fail(x, e) \in Structs
  <2>1. y \in Structs
    BY <1>1
  <2>2. [y EXCEPT !.status = "FAILED", !.st = "FAILED", !.error = e] \in Structs
    BY <2>1 DEF Structs
  <2> QED
    BY <1>2, <2>2, Zenon
<1>5. n = IF x.ep THEN x.open - 1 ELSE x.open
  BY DEF n
<1> QED
  BY <1>1, <1>2, <1>3, <1>4, <1>5 DEF Ended, Structs

LEMMA DoneEnds ==
  ASSUME NEW x \in Structs
  PROVE  Ended(x, done(x), "DONE") /\ done(x).error = x.error
<1> DEFINE n == IF x.ep THEN x.open - 1 ELSE x.open
           y == ot_teardown(x)
<1>1. y \in Structs /\ y = [x EXCEPT !.ep = FALSE, !.open = n]
  BY Teardown
<1>2. done(x) = [y EXCEPT !.status = "DONE", !.st = "DONE"]
  BY DEF done
<1> HIDE DEF y, n
<1>3. /\ y.ep = FALSE /\ y.open = n /\ y.life = x.life /\ y.len = x.len
      /\ y.cancelled = x.cancelled /\ y.streaming = x.streaming /\ y.started = x.started
      /\ y.start = x.start /\ y.error = x.error
  BY <1>1 DEF Structs
<1>4. done(x) \in Structs
  BY <1>1, <1>2, DoneTypes, Zenon
<1>5. n = IF x.ep THEN x.open - 1 ELSE x.open
  BY DEF n
<1> QED
  BY <1>1, <1>2, <1>3, <1>4, <1>5 DEF Ended, Structs

LEMMA AppendFields ==
  ASSUME NEW x \in Structs, NEW n \in Nat
  PROVE  /\ append(x, n) \in Structs
         /\ append(x, n) = [x EXCEPT !.len = x.len + n]
BY DEF append, Structs

-----------------------------------------------------------------------------
(* A transaction whose poll does something.                                 *)
Running == t.life = "live" /\ t.started /\ ~Inert

(* A candidate: the struct of a poll before the deadlines are put to it.    *)
Base(x) ==
  /\ x \in Structs /\ x.life = "live" /\ x.cancelled = FALSE /\ x.started = TRUE
  /\ x.streaming = t.streaming /\ x.start = t.start
  /\ x.open = IF x.ep THEN 1 ELSE 0
  /\ x.streaming => x.len < HiWat + Chunk

Cand(x) ==
  /\ Base(x)
  /\ x.ep <=> x.status = "RUNNING"
  /\ x.status = "RUNNING" => x.error = "NONE" /\ x.st # "INIT"
  /\ x.status = "RUNNING" /\ t.streaming /\ t.st = "RECEIVING" => x.st = "RECEIVING"

(* Where the bytes of a candidate came from.                                *)
Flow(x) ==
  /\ t.len <= x.len /\ x.len + drained + wire' <= sent
  /\ net' \in {"calling", "up"} => x.len + drained + wire' = sent

(* What there is to hand over.                                              *)
Whole(x) == x.len > 0 \/ (fin /\ x.len + drained = sent)

Settled(x) == Cand(x) /\ Flow(x) /\ (x.status = "DONE" => Whole(x)) /\ x.st # "INIT"

(* The end of a struct is a candidate.                                      *)
LEMMA CandEnds ==
  ASSUME NEW x, NEW y, NEW s \in {"DONE", "FAILED"}, Base(x), Flow(x), Ended(x, y, s),
         s = "DONE" => Whole(x)
  PROVE  Settled(y)
<1>1. /\ x.life = "live" /\ x.cancelled = FALSE /\ x.started = TRUE
      /\ x.streaming = t.streaming /\ x.start = t.start
      /\ x.streaming => x.len < HiWat + Chunk
  BY DEF Base
<1>2. /\ y \in Structs /\ y.status = s /\ y.st = s /\ y.ep = FALSE
      /\ y.life = x.life /\ y.len = x.len /\ y.cancelled = x.cancelled
      /\ y.streaming = x.streaming /\ y.started = x.started /\ y.start = x.start
  BY DEF Ended
<1>3. y.open = 0
  BY DEF Ended, Base
<1>4. y.status # "RUNNING"
  BY <1>2
<1>5. Base(y)
  BY <1>1, <1>2, <1>3 DEF Base
<1>6. Cand(y)
  BY <1>2, <1>4, <1>5 DEF Cand
<1>7. Flow(y)
  BY <1>2 DEF Flow
<1>8. y.status = "DONE" => Whole(y)
  BY <1>2 DEF Whole
<1> QED
  BY <1>2, <1>6, <1>7, <1>8 DEF Settled

LEMMA FailSettled ==
  ASSUME NEW x, NEW e \in {"CONNECT", "TIMEOUT", "STREAM"}, Base(x), Flow(x)
  PROVE  Settled(fail(x, e)) /\ fail(x, e).error = e /\ fail(x, e).status = "FAILED"
<1>1. x \in Structs
  BY DEF Base
<1>2. Ended(x, fail(x, e), "FAILED") /\ fail(x, e).error = e
  BY <1>1, FailEnds
<1> QED
  BY <1>2, CandEnds DEF Ended

LEMMA DoneSettled ==
  ASSUME NEW x, Base(x), Flow(x), Whole(x)
  PROVE  Settled(done(x)) /\ done(x).error = x.error
<1>1. x \in Structs
  BY DEF Base
<1>2. Ended(x, done(x), "DONE") /\ done(x).error = x.error
  BY <1>1, DoneEnds
<1> QED
  BY <1>2, CandEnds DEF Ended

LEMMA KeepSettled ==
  ASSUME NEW x, Base(x), Flow(x), x.error = "NONE"
  PROVE  Settled(KeepBytes(x)) /\ KeepBytes(x).error # "TIMEOUT"
<1>1. CASE x.len > 0
  BY <1>1, DoneSettled DEF KeepBytes, Whole
<1>2. CASE ~(x.len > 0)
  BY <1>2, FailSettled DEF KeepBytes
<1> QED
  BY <1>1, <1>2

(* A transaction that runs is a candidate itself, or has not left its start. *)
LEMMA RunningNow ==
  ASSUME Inv, Running
  PROVE  /\ Base(t) /\ t.status = "RUNNING" /\ t.error = "NONE"
         /\ t.st = "INIT" \/ Cand(t)
         /\ t.st = "INIT" => t.ep = FALSE /\ t.open = 0 /\ t.len = 0 /\ drained = 0
              /\ wire = 0 /\ sent = 0 /\ ~fin
<1>1. t \in Structs
  BY DEF Inv, TypeOK
<1>2. /\ t.life = "live" /\ t.started = TRUE /\ t.cancelled = FALSE /\ t.status = "RUNNING"
      /\ t.ep \in BOOLEAN
  BY <1>1 DEF Running, Inert, Structs
<1>3. t.open = IF t.ep THEN 1 ELSE 0
  BY <1>2 DEF Inv, EndpointClosedOnce
<1>4. Base(t)
  BY <1>1, <1>2, <1>3 DEF Base, Inv, BufferBounded
<1>5. t.error = "NONE"
  BY <1>2 DEF Inv, LifeInv
<1>6. t.st # "INIT" => t.ep
  BY <1>2 DEF Inv, LifeInv
<1>7. t.st = "INIT" => t.ep = FALSE
  BY <1>2 DEF Inv, LifeInv
<1>8. t.st # "INIT" => Cand(t)
  BY <1>2, <1>4, <1>5, <1>6 DEF Cand
<1> QED
  BY <1>2, <1>3, <1>4, <1>5, <1>7, <1>8 DEF Inv, FlowInv

-----------------------------------------------------------------------------
(* What the ticks say of the age.                                           *)
LEMMA ElapsedAge ==
  ASSUME Inv, Running
  PROVE  /\ Elapsed \in Int /\ age \in Nat /\ idle \in 0 .. Gap
         /\ age <= Watchdog + Gap => Elapsed = age
         /\ Elapsed > Deadline => age > Deadline
         /\ impl = "ot" /\ ~(t.streaming /\ t.st = "RECEIVING") => Elapsed = age
<1>1. now \in Int /\ t.start \in Int /\ TickMod \in Nat \ {0}
  BY TransportAssumption DEF Inv, TypeOK, Structs
<1>2. Elapsed \in Int
  <2> DEFINE a == now - t.start
  <2>1. a \in Int
    BY <1>1
  <2> HIDE DEF a
  <2>2. (a % TickMod) \in 0 .. TickMod - 1
    BY <1>1, <2>1, Division, Zenon
  <2>3. (a % TickMod) \in Int
    BY <1>1, <2>2
  <2> QED
    BY <2>3 DEF Elapsed, a
<1>3. age \in Nat /\ idle \in 0 .. Gap
  BY DEF Inv, TypeOK
<1>4. age <= Watchdog + Gap => Elapsed = age
  BY DEF Inv, ClockInv, Running
<1>5. impl = "ot" /\ ~(t.streaming /\ t.st = "RECEIVING") => age <= Watchdog + idle
  BY DEF Inv, ClockInv, Running
<1> HIDE DEF Elapsed
<1> QED
  BY <1>2, <1>3, <1>4, <1>5, TransportAssumption

(* What the deadlines make of a settled candidate.                          *)
LEMMA DeadlinesSettled ==
  ASSUME NEW x, Settled(x), x.error # "TIMEOUT", Settle(x)
  PROVE  /\ Settled(t')
         /\ t'.error = "TIMEOUT" => x.status = "RUNNING" /\ (Elapsed > Deadline \/ Elapsed > Watchdog)
              /\ ~(x.streaming /\ x.st = "RECEIVING")
         /\ t'.status = "RUNNING" =>
              /\ t'.st = "CONNECTING" => ~(Elapsed > Deadline)
              /\ (t'.streaming /\ t'.st = "RECEIVING") \/ ~(Elapsed > Watchdog)
<1> DEFINE late == \/ x.st = "CONNECTING" /\ Elapsed > Deadline
                   \/ ~(x.streaming /\ x.st = "RECEIVING") /\ Elapsed > Watchdog
<1>1. CASE x.status # "RUNNING"
  <2>1. t' = x
    BY <1>1 DEF Settle
  <2> QED
    BY <1>1, <2>1 DEF Settled
<1>2. CASE x.status = "RUNNING" /\ late
  <2>1. t' = fail(x, "TIMEOUT")
    BY <1>2 DEF Settle, Deadlines
  <2>2. Settled(t') /\ t'.status = "FAILED"
    BY <2>1, FailSettled DEF Settled, Cand
  <2> QED
    BY <1>2, <2>2
<1>3. CASE x.status = "RUNNING" /\ ~late
  <2>1. t' = x
    BY <1>3 DEF Settle, Deadlines
  <2> QED
    BY <1>3, <2>1
<1> QED
  BY <1>1, <1>2, <1>3

(* The frame of a poll.                                                     *)
Polls ==
  /\ Running /\ idle' = 0 /\ UNCHANGED <<impl, now, age, sent, fin, drained>>
  /\ net' \in {"closed", "calling", "up", "refused", "broken"} /\ wire' \in Nat

(* A poll keeps the invariant when what it leaves behind is settled, and in *)
(* time where the deadlines were put to it.                                 *)
LEMMA PollInv ==
  ASSUME Inv, Polls, Settled(t'), impl = "posix" => t'.streaming,
         impl = "ot" /\ t'.status = "RUNNING" =>
              /\ t'.st = "CONNECTING" => ~(Elapsed > Deadline)
              /\ (t'.streaming /\ t'.st = "RECEIVING") \/ ~(Elapsed > Watchdog)
  PROVE  Inv'
<1>1. /\ impl' = impl /\ now' = now /\ age' = age /\ idle' = 0 /\ sent' = sent /\ fin' = fin
      /\ drained' = drained
  BY DEF Polls
<1>2. /\ t' \in Structs /\ t'.life = "live" /\ t'.cancelled = FALSE /\ t'.started = TRUE
      /\ t'.streaming = t.streaming /\ t'.start = t.start
      /\ t'.open = IF t'.ep THEN 1 ELSE 0
      /\ t'.ep <=> t'.status = "RUNNING"
      /\ t'.streaming => t'.len < HiWat + Chunk
      /\ t'.status = "RUNNING" => t'.error = "NONE"
      /\ t'.st # "INIT"
  BY DEF Settled, Cand, Base
<1>3. TypeOK'
  BY <1>1, <1>2, TransportAssumption DEF Inv, TypeOK, Polls
<1>4. EndpointClosedOnce'
  BY <1>2 DEF EndpointClosedOnce
<1>5. BufferBounded'
  BY <1>2 DEF BufferBounded
<1>6. LifeInv'
  BY <1>1, <1>2, <1>3 DEF LifeInv, TypeOK
<1>7. FlowInv'
  BY <1>1, <1>2 DEF FlowInv, Settled, Flow
<1>8. Elapsed' = Elapsed
  BY <1>1, <1>2 DEF Elapsed
<1>9. /\ Elapsed \in Int /\ age \in Nat /\ idle \in 0 .. Gap
      /\ age <= Watchdog + Gap => Elapsed = age
      /\ impl = "ot" /\ ~(t.streaming /\ t.st = "RECEIVING") => Elapsed = age
  BY ElapsedAge DEF Polls
<1>10. t'.status = "RUNNING" /\ t.streaming /\ t.st = "RECEIVING" => t'.st = "RECEIVING"
  BY DEF Settled, Cand
<1>11. ClockInv'
  <2> SUFFICES ASSUME impl' = "ot" /\ (t.life = "live" /\ t.started /\ ~Inert)'
               PROVE  /\ t'.st = "CONNECTING" => age' <= Deadline + idle'
                      /\ (t'.streaming /\ t'.st = "RECEIVING") \/ age' <= Watchdog + idle'
    BY <1>1, <1>2, <1>8, <1>9 DEF ClockInv
  <2>1. t'.status = "RUNNING" /\ impl = "ot"
    BY <1>1 DEF Inert
  <2>2. ~(t'.streaming /\ t'.st = "RECEIVING") => Elapsed = age /\ ~(Elapsed > Watchdog)
    BY <2>1, <1>2, <1>9, <1>10
  <2>3. t'.st = "CONNECTING" => Elapsed = age /\ ~(Elapsed > Deadline)
    BY <2>1, <2>2
  <2> HIDE DEF Elapsed
  <2> QED
    BY <1>1, <1>9, <2>2, <2>3, TransportAssumption
<1> QED
  BY <1>3, <1>4, <1>5, <1>6, <1>7, <1>11 DEF Inv

-----------------------------------------------------------------------------
(* Every state of an Open Transport poll settles a candidate.               *)
Slice ==
  /\ wire' \in Nat /\ net' \in {"closed", "calling", "up", "refused", "broken"}
  /\ \E x : Settled(x) /\ x.error # "TIMEOUT" /\ Settle(x)

LEMMA OpenedFields ==
  ASSUME Inv, Running, t.st = "INIT"
  PROVE  Base(Opened) /\ Opened \in Structs /\ Opened = [t EXCEPT !.ep = TRUE, !.open = 1]
<1>1. /\ t \in Structs /\ t.life = "live" /\ t.cancelled = FALSE /\ t.started = TRUE
      /\ t.open = 0
      /\ t.streaming => t.len < HiWat + Chunk
  BY RunningNow DEF Base
<1> DEFINE y == [t EXCEPT !.ep = TRUE, !.open = 1]
<1>2. Opened = y
  BY <1>1 DEF Opened, Structs
<1>3. y \in Structs
  <2> DEFINE n == t.open + 1
  <2>1. t \in Structs /\ n = 1
    BY <1>1
  <2> HIDE DEF n
  <2>2. n \in Int
    BY <2>1
  <2>3. [t EXCEPT !.ep = TRUE, !.open = n] \in Structs
    BY <2>1, <2>2 DEF Structs
  <2> QED
    BY <2>1, <2>3
<1>4. /\ y.life = "live" /\ y.cancelled = FALSE /\ y.started = TRUE
      /\ y.streaming = t.streaming /\ y.start = t.start
      /\ y.open = 1 /\ y.ep = TRUE /\ y.len = t.len
  BY <1>1 DEF Structs
<1> HIDE DEF y
<1>5. Base(y)
  BY <1>1, <1>3, <1>4 DEF Base
<1> QED
  BY <1>2, <1>3, <1>5 DEF y

LEMMA OpenSlice ==
  ASSUME Inv, Running, UNCHANGED <<sent, fin, drained>>, open_and_connect
  PROVE  Slice
<1>1. /\ t \in Structs /\ Base(t) /\ t.status = "RUNNING" /\ t.error = "NONE" /\ t.st = "INIT"
      /\ t.len = 0 /\ drained = 0 /\ wire = 0 /\ sent = 0
  BY RunningNow DEF open_and_connect, Base
<1>2. wire' = wire /\ net' \in {net, "calling", "up"}
  BY DEF open_and_connect
<1>3. wire' \in Nat /\ net' \in {"closed", "calling", "up", "refused", "broken"}
  BY <1>2 DEF Inv, TypeOK
<1>4. Base(Opened) /\ Opened \in Structs /\ Opened = [t EXCEPT !.ep = TRUE, !.open = 1]
  BY <1>1, OpenedFields
<1>5. Flow(t)
  BY <1>1, <1>2 DEF Flow
<1>6. Opened.len = t.len
  BY <1>1, <1>4 DEF Structs
<1>7. Flow(Opened)
  BY <1>5, <1>6 DEF Flow
<1>8. CASE Settle(fail(t, "CONNECT"))
  <2>1. Settled(fail(t, "CONNECT")) /\ fail(t, "CONNECT").error = "CONNECT"
    BY <1>1, <1>5, FailSettled
  <2> QED
    BY <1>3, <1>8, <2>1 DEF Slice
<1>9. CASE Settle(fail(Opened, "CONNECT"))
  <2>1. Settled(fail(Opened, "CONNECT")) /\ fail(Opened, "CONNECT").error = "CONNECT"
    BY <1>4, <1>7, FailSettled
  <2> QED
    BY <1>3, <1>9, <2>1 DEF Slice
<1>10. ASSUME NEW async \in BOOLEAN, Settle([Opened EXCEPT !.async = async, !.st = "CONNECTING"])
       PROVE  Slice
  <2> DEFINE x == [Opened EXCEPT !.async = async, !.st = "CONNECTING"]
  <2>0. x \in Structs
    <3>1. Opened \in Structs
      BY <1>4
    <3> QED
      BY <3>1 DEF Structs
  <2>1. /\ x \in Structs /\ x.st = "CONNECTING" /\ x.ep = TRUE /\ x.open = 1 /\ x.life = t.life
        /\ x.cancelled = t.cancelled /\ x.started = t.started /\ x.streaming = t.streaming
        /\ x.start = t.start /\ x.len = t.len /\ x.status = t.status /\ x.error = t.error
    BY <1>1, <1>4, <2>0 DEF Structs
  <2> HIDE DEF x
  <2>2. Settled(x) /\ x.error # "TIMEOUT"
    BY <1>1, <1>5, <2>1 DEF Settled, Cand, Base, Flow
  <2> QED
    BY <1>3, <1>10, <2>2 DEF Slice, x
<1>11. CASE Settle([Opened EXCEPT !.st = "SENDING"])
  <2> DEFINE x == [Opened EXCEPT !.st = "SENDING"]
  <2>0. x \in Structs
    <3>1. Opened \in Structs
      BY <1>4
    <3> QED
      BY <3>1 DEF Structs
  <2>1. /\ x \in Structs /\ x.st = "SENDING" /\ x.ep = TRUE /\ x.open = 1 /\ x.life = t.life
        /\ x.cancelled = t.cancelled /\ x.started = t.started /\ x.streaming = t.streaming
        /\ x.start = t.start /\ x.len = t.len /\ x.status = t.status /\ x.error = t.error
    BY <1>1, <1>4, <2>0 DEF Structs
  <2> HIDE DEF x
  <2>2. Settled(x) /\ x.error # "TIMEOUT"
    BY <1>1, <1>5, <2>1 DEF Settled, Cand, Base, Flow
  <2> QED
    BY <1>3, <1>11, <2>2 DEF Slice, x
<1> QED
  BY <1>8, <1>9, <1>10, <1>11 DEF open_and_connect

(* Nothing moves on the connection: what runs is settled as it is.          *)
LEMMA StillSettled ==
  ASSUME Inv, Running, t.st # "INIT", wire' = wire, net' = net
  PROVE  /\ Settled(t) /\ Base(t) /\ Flow(t) /\ t \in Structs /\ t.error = "NONE" /\ t.ep = TRUE /\ t.open = 1
         /\ t.life = "live" /\ t.status = "RUNNING" /\ t.cancelled = FALSE /\ t.started = TRUE
         /\ t.streaming => t.len < HiWat + Chunk
         /\ wire' \in Nat /\ net' \in {"closed", "calling", "up", "refused", "broken"}
<1>1. Base(t) /\ t.status = "RUNNING" /\ t.error = "NONE" /\ Cand(t)
  BY RunningNow
<1>2. /\ t \in Structs /\ t.ep = TRUE /\ t.open = 1 /\ t.len \in Nat
      /\ t.life = "live" /\ t.cancelled = FALSE /\ t.started = TRUE
      /\ t.streaming => t.len < HiWat + Chunk
  BY <1>1 DEF Cand, Base, Structs
<1>3. Flow(t)
  <2>1. /\ t.len + drained + wire <= sent
        /\ net \in {"calling", "up"} => t.len + drained + wire = sent
    BY DEF Inv, FlowInv
  <2>2. t.len <= t.len
    BY <1>2
  <2> QED
    BY <2>1, <2>2 DEF Flow
<1>4. wire' \in Nat /\ net' \in {"closed", "calling", "up", "refused", "broken"}
  BY DEF Inv, TypeOK
<1>5. Settled(t)
  BY <1>1, <1>3 DEF Settled
<1> QED
  BY <1>1, <1>2, <1>3, <1>4, <1>5

LEMMA ConnectSlice ==
  ASSUME Inv, Running, UNCHANGED <<sent, fin, drained>>, pump_connect
  PROVE  Slice
<1>1. t.st = "CONNECTING" /\ wire' = wire /\ net' = net
  BY DEF pump_connect
<1>2. /\ Settled(t) /\ Base(t) /\ Flow(t) /\ t \in Structs /\ t.error = "NONE" /\ t.ep = TRUE /\ t.open = 1
      /\ t.life = "live" /\ t.status = "RUNNING" /\ t.cancelled = FALSE /\ t.started = TRUE
      /\ t.streaming => t.len < HiWat + Chunk
      /\ wire' \in Nat /\ net' \in {"closed", "calling", "up", "refused", "broken"}
  BY <1>1, StillSettled
<1>3. CASE Settle(t)
  BY <1>2, <1>3 DEF Slice
<1>4. CASE Settle([t EXCEPT !.st = "SENDING", !.async = FALSE])
  <2> DEFINE x == [t EXCEPT !.st = "SENDING", !.async = FALSE]
  <2>1. /\ x \in Structs /\ x.st = "SENDING" /\ x.ep = t.ep /\ x.open = t.open /\ x.life = t.life
        /\ x.cancelled = t.cancelled /\ x.started = t.started /\ x.streaming = t.streaming
        /\ x.start = t.start /\ x.len = t.len /\ x.status = t.status /\ x.error = t.error
    BY <1>2 DEF Structs
  <2> HIDE DEF x
  <2>2. Settled(x) /\ x.error # "TIMEOUT"
    BY <1>1, <1>2, <2>1 DEF Settled, Cand, Base, Flow
  <2> QED
    BY <1>2, <1>4, <2>2 DEF Slice, x
<1>5. CASE Settle(fail(t, "CONNECT"))
  <2>1. Settled(fail(t, "CONNECT")) /\ fail(t, "CONNECT").error = "CONNECT"
    BY <1>2, FailSettled
  <2> QED
    BY <1>2, <1>5, <2>1 DEF Slice
<1> QED
  BY <1>3, <1>4, <1>5 DEF pump_connect

LEMMA SendSlice ==
  ASSUME Inv, Running, UNCHANGED <<sent, fin, drained>>, pump_send
  PROVE  Slice
<1>1. t.st = "SENDING" /\ wire' = wire /\ net' = net
  BY DEF pump_send
<1>2. /\ Settled(t) /\ Base(t) /\ Flow(t) /\ t \in Structs /\ t.error = "NONE" /\ t.ep = TRUE /\ t.open = 1
      /\ t.life = "live" /\ t.status = "RUNNING" /\ t.cancelled = FALSE /\ t.started = TRUE
      /\ t.streaming => t.len < HiWat + Chunk
      /\ wire' \in Nat /\ net' \in {"closed", "calling", "up", "refused", "broken"}
  BY <1>1, StillSettled
<1>3. ASSUME NEW off \in t.reqoff .. ReqLen,
             Settle([t EXCEPT !.reqoff = off, !.st = IF off = ReqLen THEN "RECEIVING" ELSE @])
      PROVE  Slice
  <2> DEFINE st == IF off = ReqLen THEN "RECEIVING" ELSE t.st
             x == [t EXCEPT !.reqoff = off, !.st = st]
  <2>1. off \in 0 .. ReqLen /\ st \in {"RECEIVING", "SENDING"}
    BY <1>1, <1>2, TransportAssumption DEF Structs
  <2>2. [t EXCEPT !.reqoff = off, !.st = IF off = ReqLen THEN "RECEIVING" ELSE @] = x
    BY <1>2 DEF Structs
  <2> HIDE DEF st
  <2>3. /\ x \in Structs /\ x.st = st /\ x.ep = t.ep /\ x.open = t.open /\ x.life = t.life
        /\ x.cancelled = t.cancelled /\ x.started = t.started /\ x.streaming = t.streaming
        /\ x.start = t.start /\ x.len = t.len /\ x.status = t.status /\ x.error = t.error
    BY <1>2, <2>1 DEF Structs
  <2> HIDE DEF x
  <2>4. Settled(x) /\ x.error # "TIMEOUT"
    BY <1>1, <1>2, <2>1, <2>3 DEF Settled, Cand, Base, Flow
  <2> QED
    BY <1>2, <1>3, <2>2, <2>4, Zenon DEF Slice
<1>4. CASE Settle(fail(t, "STREAM"))
  <2>1. Settled(fail(t, "STREAM")) /\ fail(t, "STREAM").error = "STREAM"
    BY <1>2, FailSettled
  <2> QED
    BY <1>2, <1>4, <2>1 DEF Slice
<1> QED
  BY <1>3, <1>4 DEF pump_send

(* What a loop of reads takes is a candidate, its end or an error another.  *)
LEMMA ReadsSettled ==
  ASSUME Inv, Running, t.st # "INIT", NEW n \in Reads, wire' = wire - n, net' = net
  PROVE  /\ Settled(append(t, n)) /\ Base(append(t, n)) /\ Flow(append(t, n))
         /\ append(t, n).error = "NONE" /\ append(t, n).status = "RUNNING"
         /\ append(t, n).streaming = t.streaming /\ append(t, n).st = t.st
         /\ n = wire /\ fin /\ net = "up" => Whole(append(t, n))
         /\ wire' \in Nat /\ net' \in {"closed", "calling", "up", "refused", "broken"}
<1> DEFINE x == append(t, n)
<1>1. Base(t) /\ t.status = "RUNNING" /\ t.error = "NONE" /\ Cand(t)
  BY RunningNow
<1>2. /\ t \in Structs /\ t.ep = TRUE /\ t.open = 1 /\ t.len \in Nat
      /\ t.life = "live" /\ t.cancelled = FALSE /\ t.started = TRUE
      /\ t.streaming => t.len < HiWat + Chunk
  BY <1>1 DEF Cand, Base, Structs
<1>3. /\ n \in Nat /\ n <= wire /\ wire \in Nat /\ drained \in Nat /\ sent \in Nat
      /\ t.streaming /\ n > 0 => t.len + n < HiWat + Chunk
  BY DEF Reads, Inv, TypeOK
<1>4. x \in Structs /\ x = [t EXCEPT !.len = t.len + n]
  BY <1>2, <1>3, AppendFields
<1>5. /\ x.st = t.st /\ x.ep = t.ep /\ x.open = t.open /\ x.life = t.life
      /\ x.cancelled = t.cancelled /\ x.started = t.started /\ x.streaming = t.streaming
      /\ x.start = t.start /\ x.len = t.len + n /\ x.status = t.status /\ x.error = t.error
  BY <1>2, <1>4 DEF Structs
<1> HIDE DEF x
<1>6. x.streaming => x.len < HiWat + Chunk
  <2>1. CASE n = 0
    BY <1>2, <1>5, <2>1
  <2>2. CASE n > 0
    BY <1>3, <1>5, <2>2
  <2> QED
    BY <1>3, <2>1, <2>2
<1>7. Base(x)
  BY <1>2, <1>4, <1>5, <1>6 DEF Base
<1>8. Cand(x)
  BY <1>1, <1>2, <1>5, <1>7 DEF Cand
<1>9. /\ t.len + drained + wire <= sent
      /\ net \in {"calling", "up"} => t.len + drained + wire = sent
  BY DEF Inv, FlowInv
<1>10. t.len + n + drained + (wire - n) = t.len + drained + wire
  BY <1>2, <1>3
<1>11. Flow(x)
  BY <1>2, <1>3, <1>5, <1>9, <1>10 DEF Flow
<1>12. n = wire /\ fin /\ net = "up" => Whole(x)
  BY <1>2, <1>3, <1>5, <1>9 DEF Whole
<1>13. wire' \in Nat /\ net' \in {"closed", "calling", "up", "refused", "broken"}
  BY <1>3 DEF Inv, TypeOK
<1>14. Settled(x)
  BY <1>1, <1>5, <1>8, <1>11 DEF Settled
<1> QED
  BY <1>1, <1>5, <1>7, <1>11, <1>12, <1>13, <1>14 DEF x

LEMMA RecvSlice ==
  ASSUME Inv, Running, UNCHANGED <<sent, fin, drained>>, pump_recv
  PROVE  Slice
<1>1. t.st = "RECEIVING" /\ net' = net
  BY DEF pump_recv
<1>2. PICK n \in Reads :
        /\ wire' = wire - n
        /\ \/ Settle(append(t, n))
           \/ n = wire /\ fin /\ net = "up" /\ Settle(done(append(t, n)))
           \/ Settle(KeepBytes(append(t, n)))
           \/ Settle(fail(append(t, n), "STREAM"))
  BY Zenon DEF pump_recv
<1> DEFINE x == append(t, n)
<1>3. /\ Settled(x) /\ Base(x) /\ Flow(x) /\ x.error = "NONE" /\ x.status = "RUNNING"
      /\ n = wire /\ fin /\ net = "up" => Whole(x)
      /\ wire' \in Nat /\ net' \in {"closed", "calling", "up", "refused", "broken"}
  BY <1>1, <1>2, ReadsSettled
<1> HIDE DEF x
<1>4. CASE Settle(x)
  BY <1>3, <1>4 DEF Slice
<1>5. CASE n = wire /\ fin /\ net = "up" /\ Settle(done(x))
  <2>1. Settled(done(x)) /\ done(x).error = "NONE"
    BY <1>3, <1>5, DoneSettled
  <2> QED
    BY <1>3, <1>5, <2>1 DEF Slice
<1>6. CASE Settle(KeepBytes(x))
  <2>1. Settled(KeepBytes(x)) /\ KeepBytes(x).error # "TIMEOUT"
    BY <1>3, KeepSettled
  <2> QED
    BY <1>3, <1>6, <2>1 DEF Slice
<1>7. CASE Settle(fail(x, "STREAM"))
  <2>1. Settled(fail(x, "STREAM")) /\ fail(x, "STREAM").error = "STREAM"
    BY <1>3, FailSettled
  <2> QED
    BY <1>3, <1>7, <2>1 DEF Slice
<1> QED
  BY <1>2, <1>4, <1>5, <1>6, <1>7, Zenon DEF x

(* A poll of an Open Transport transaction that runs.                       *)
LEMMA OTPollInv ==
  ASSUME Inv, Running, impl = "ot", OTPoll, idle' = 0,
         UNCHANGED <<impl, now, age, sent, fin, drained>>
  PROVE  /\ Inv' /\ Polls /\ Settled(t')
         /\ t'.error = "TIMEOUT" => age > Deadline /\ ~(t.streaming /\ t.st = "RECEIVING")
<1>1. Slice
  BY OpenSlice, ConnectSlice, SendSlice, RecvSlice DEF OTPoll
<1>2. PICK x : Settled(x) /\ x.error # "TIMEOUT" /\ Settle(x)
  BY <1>1 DEF Slice
<1>3. Polls
  BY <1>1 DEF Slice, Polls
<1>4. /\ Settled(t')
      /\ t'.error = "TIMEOUT" => x.status = "RUNNING" /\ (Elapsed > Deadline \/ Elapsed > Watchdog)
           /\ ~(x.streaming /\ x.st = "RECEIVING")
      /\ t'.status = "RUNNING" =>
           /\ t'.st = "CONNECTING" => ~(Elapsed > Deadline)
           /\ (t'.streaming /\ t'.st = "RECEIVING") \/ ~(Elapsed > Watchdog)
  BY <1>2, DeadlinesSettled
<1>5. Inv'
  BY <1>3, <1>4, PollInv
<1>6. ASSUME t'.error = "TIMEOUT"
      PROVE  age > Deadline /\ ~(t.streaming /\ t.st = "RECEIVING")
  <2>1. /\ x.status = "RUNNING" /\ ~(x.streaming /\ x.st = "RECEIVING")
        /\ Elapsed > Deadline \/ Elapsed > Watchdog
    BY <1>4, <1>6
  <2>2. Elapsed \in Int /\ (Elapsed > Deadline => age > Deadline)
    BY ElapsedAge
  <2>3. Elapsed > Deadline
    <3> HIDE DEF Elapsed
    <3> QED
      BY <2>1, <2>2, TransportAssumption
  <2>4. x.streaming = t.streaming /\ (t.streaming /\ t.st = "RECEIVING" => x.st = "RECEIVING")
    BY <1>2, <2>1 DEF Settled, Cand, Base
  <2> QED
    BY <2>1, <2>2, <2>3, <2>4
<1> QED
  BY <1>3, <1>4, <1>5, <1>6

-----------------------------------------------------------------------------
(* The POSIX double: a stream's polls settle the struct, without deadlines. *)
LEMMA StreamConnectInv ==
  ASSUME Inv, Running, impl = "posix", connect_and_send, idle' = 0,
         UNCHANGED <<impl, now, age, sent, fin, drained>>
  PROVE  Inv' /\ Polls /\ Settled(t')
<1>1. t.streaming /\ ~t.ep /\ wire' = wire /\ net' \in {net, "up"}
  BY DEF connect_and_send
<1>2. /\ Base(t) /\ t \in Structs /\ t.status = "RUNNING" /\ t.error = "NONE" /\ t.st = "INIT"
      /\ t.len = 0 /\ drained = 0 /\ wire = 0 /\ sent = 0
  BY <1>1, RunningNow DEF Base, Cand
<1>3. Polls
  BY <1>1 DEF Polls, Inv, TypeOK
<1>4. Flow(t)
  BY <1>1, <1>2 DEF Flow
<1>5. ASSUME NEW e \in {"CONNECT", "TIMEOUT", "STREAM"}, t' = fail(t, e)
      PROVE  Settled(t') /\ t'.streaming
  <2>1. Settled(t')
    BY <1>2, <1>4, <1>5, FailSettled
  <2> QED
    BY <1>1, <2>1 DEF Settled, Cand, Base
<1>6. ASSUME t' = [Opened EXCEPT !.reqoff = ReqLen, !.st = "RECEIVING"]
      PROVE  Settled(t') /\ t'.streaming
  <2> DEFINE x == [Opened EXCEPT !.reqoff = ReqLen, !.st = "RECEIVING"]
  <2>1. Opened \in Structs /\ Opened = [t EXCEPT !.ep = TRUE, !.open = 1]
    BY <1>2, OpenedFields
  <2>2. ReqLen \in 0 .. ReqLen
    BY TransportAssumption
  <2>3. x \in Structs
    BY <2>1, <2>2 DEF Structs
  <2>4. /\ x.st = "RECEIVING" /\ x.ep = TRUE /\ x.open = 1 /\ x.life = t.life
        /\ x.cancelled = t.cancelled /\ x.started = t.started /\ x.streaming = t.streaming
        /\ x.start = t.start /\ x.len = t.len /\ x.status = t.status /\ x.error = t.error
    BY <1>2, <2>1 DEF Structs
  <2> HIDE DEF x
  <2>5. Settled(x) /\ x.streaming
    BY <1>1, <1>2, <1>4, <2>3, <2>4 DEF Settled, Cand, Base, Flow
  <2> QED
    BY <1>6, <2>5 DEF x
<1>7. Settled(t') /\ t'.streaming
  BY <1>5, <1>6, Zenon DEF connect_and_send
<1>8. impl # "ot"
  OBVIOUS
<1> QED
  BY <1>3, <1>7, <1>8, PollInv

LEMMA StreamPumpInv ==
  ASSUME Inv, Running, impl = "posix", pump_stream, idle' = 0,
         UNCHANGED <<impl, now, age, sent, fin, drained>>
  PROVE  Inv' /\ Polls /\ Settled(t')
<1>1. t.streaming /\ t.ep /\ net' = net
  BY DEF pump_stream
<1>2. t.st # "INIT"
  BY <1>1 DEF Inv, LifeInv
<1>3. PICK n \in Reads :
        /\ wire' = wire - n
        /\ \/ t' = append(t, n)
           \/ n = wire /\ fin /\ net = "up" /\ t' = done(append(t, n))
           \/ t' = fail(append(t, n), "STREAM")
  BY Zenon DEF pump_stream
<1> DEFINE x == append(t, n)
<1>4. /\ Settled(x) /\ Base(x) /\ Flow(x) /\ x.error = "NONE" /\ x.status = "RUNNING"
      /\ x.streaming = t.streaming
      /\ n = wire /\ fin /\ net = "up" => Whole(x)
      /\ wire' \in Nat /\ net' \in {"closed", "calling", "up", "refused", "broken"}
  BY <1>1, <1>2, <1>3, ReadsSettled
<1> HIDE DEF x
<1>5. Polls
  BY <1>4 DEF Polls
<1>6. n = wire /\ fin /\ net = "up" => Settled(done(x))
  BY <1>4, DoneSettled
<1>7. Settled(fail(x, "STREAM"))
  BY <1>4, FailSettled
<1>9. Settled(t')
  BY <1>3, <1>4, <1>6, <1>7 DEF x
<1>10. t'.streaming
  BY <1>1, <1>9 DEF Settled, Cand, Base
<1>11. impl # "ot"
  OBVIOUS
<1> QED
  BY <1>5, <1>9, <1>10, <1>11, PollInv

(* A whole transaction in one poll.                                         *)
Ran(y) ==
  /\ y \in Structs /\ y.life = "live" /\ y.ep = FALSE /\ y.open = 0
  /\ y.cancelled = FALSE /\ y.streaming = FALSE /\ y.started = FALSE
  /\ y.status \in {"DONE", "FAILED"} /\ y.st = y.status
  /\ y.len <= sent' /\ sent' \in Nat /\ fin' \in BOOLEAN
  /\ y.status = "DONE" => y.len > 0 \/ (fin' = TRUE /\ y.len = sent')

LEMMA RanEnds ==
  ASSUME NEW x \in Structs, NEW y, NEW s \in {"DONE", "FAILED"},
         x.life = "live", x.ep = FALSE, x.open = 0, x.cancelled = FALSE,
         x.streaming = FALSE, x.started = FALSE,
         x.len <= sent', sent' \in Nat, fin' \in BOOLEAN, Ended(x, y, s),
         s = "DONE" => x.len > 0 \/ (fin' = TRUE /\ x.len = sent')
  PROVE  Ran(y)
<1>1. /\ y \in Structs /\ y.life = "live" /\ y.ep = FALSE /\ y.open = 0
      /\ y.cancelled = FALSE /\ y.streaming = FALSE /\ y.started = FALSE
  BY DEF Ended
<1>2. y.status = s /\ y.st = s /\ y.len = x.len
  BY DEF Ended
<1> QED
  BY <1>1, <1>2 DEF Ran

LEMMA RunRan ==
  ASSUME Inv, Running, impl = "posix", run
  PROVE  /\ Ran(t') /\ wire' = wire /\ net' = net /\ drained' = drained
         /\ t.st = "INIT" /\ t.len = 0 /\ drained = 0 /\ wire = 0 /\ sent = 0 /\ ~fin /\ net = "closed"
<1> DEFINE ran == [t EXCEPT !.started = FALSE]
<1>1. t.streaming = FALSE /\ wire' = wire /\ net' = net /\ drained' = drained
  BY DEF run, Inv, TypeOK, Structs
<1>2. t.ep = FALSE
  BY <1>1 DEF Inv, LifeInv, TypeOK, Structs
<1>3. /\ t \in Structs /\ t.life = "live" /\ t.cancelled = FALSE /\ t.status = "RUNNING" /\ t.st = "INIT"
      /\ t.open = 0 /\ t.len = 0 /\ drained = 0 /\ wire = 0 /\ sent = 0 /\ ~fin /\ t.error = "NONE"
  BY <1>2, RunningNow DEF Base, Cand
<1>4. net = "closed"
  BY <1>3 DEF Inv, FlowInv
<1>5. ran \in Structs
  <2>1. t \in Structs
    BY <1>3
  <2> QED
    BY <2>1 DEF Structs
<1>6. /\ ran.life = "live" /\ ran.cancelled = FALSE
      /\ ran.ep = FALSE /\ ran.open = 0 /\ ran.len = 0 /\ ran.streaming = FALSE
      /\ ran.started = FALSE
  BY <1>1, <1>2, <1>3 DEF Structs
<1> HIDE DEF ran
<1>7. ASSUME NEW k \in Nat
      PROVE  /\ append(ran, k) \in Structs /\ append(ran, k).len = k /\ append(ran, k).ep = FALSE
             /\ append(ran, k).open = 0 /\ append(ran, k).life = "live"
             /\ append(ran, k).cancelled = FALSE /\ append(ran, k).streaming = FALSE
             /\ append(ran, k).started = FALSE
  <2> DEFINE x == append(ran, k)
  <2>1. x \in Structs /\ x = [ran EXCEPT !.len = ran.len + k]
    BY <1>5, AppendFields
  <2>2. ran.len + k = k
    BY <1>6
  <2> HIDE DEF x
  <2>3. /\ x \in Structs /\ x.len = k /\ x.ep = FALSE /\ x.open = 0 /\ x.life = "live"
        /\ x.cancelled = FALSE /\ x.streaming = FALSE /\ x.started = FALSE
    BY <1>5, <1>6, <2>1, <2>2 DEF Structs
  <2> QED
    BY <2>3 DEF x
<1>8. ASSUME NEW e \in {"CONNECT", "TIMEOUT", "STREAM"}, t' = fail(ran, e), UNCHANGED <<sent, fin>>
      PROVE  Ran(t')
  <2>1. Ended(ran, t', "FAILED")
    BY <1>5, <1>8, FailEnds
  <2>2. sent' = 0 /\ fin' \in BOOLEAN
    BY <1>3, <1>8 DEF Inv, TypeOK
  <2> QED
    <3>1. ran.len <= sent' /\ sent' \in Nat /\ "FAILED" # "DONE"
      BY <1>6, <2>2
    <3> QED
      BY <1>5, <1>6, <2>1, <2>2, <3>1, RanEnds
<1>9. ASSUME NEW n \in 0 .. MaxReply, NEW k \in Nat, NEW s \in {"DONE", "FAILED"},
             sent' = n, k <= n, fin' \in BOOLEAN, Ended(append(ran, k), t', s),
             s = "DONE" => k > 0 \/ (fin' = TRUE /\ k = n)
      PROVE  Ran(t')
  <2> DEFINE x == append(ran, k)
  <2>1. /\ x \in Structs /\ x.len = k /\ x.ep = FALSE /\ x.open = 0 /\ x.life = "live"
        /\ x.cancelled = FALSE /\ x.streaming = FALSE /\ x.started = FALSE
    BY <1>7
  <2>2. Ended(x, t', s)
    BY <1>9
  <2> HIDE DEF x
  <2>3. x.len <= sent' /\ sent' \in Nat /\ (s = "DONE" => x.len > 0 \/ (fin' = TRUE /\ x.len = sent'))
    BY <1>9, <2>1, TransportAssumption
  <2>4. fin' \in BOOLEAN
    BY <1>9
  <2> HIDE <1>7, <1>8, <1>9
  <2> QED
    BY <2>1, <2>2, <2>3, <2>4, RanEnds
<1>10. ASSUME NEW n \in 0 .. MaxReply, sent' = n,
              \/ fin' = TRUE /\ t' = done(append(ran, n))
              \/ fin' = FALSE /\ t' = KeepBytes(append(ran, n))
       PROVE  Ran(t')
  <2>0. fin' \in BOOLEAN
    BY <1>10
  <2>1. n \in Nat
    BY TransportAssumption
  <2>2. append(ran, n) \in Structs /\ append(ran, n).len = n
    BY <1>7, <2>1
  <2>3. CASE t' = done(append(ran, n)) /\ (fin' = TRUE \/ n > 0)
    <3>1. Ended(append(ran, n), t', "DONE")
      BY <2>2, <2>3, DoneEnds
    <3>2. sent' = n /\ n <= n
      BY <1>10, <2>1
    <3>3. n > 0 \/ (fin' = TRUE /\ n = n)
      BY <2>3
    <3> QED
      BY <1>9, <2>0, <2>1, <3>1, <3>2, <3>3, Zenon
  <2>4. CASE t' = fail(append(ran, n), "STREAM")
    <3>1. Ended(append(ran, n), t', "FAILED")
      BY <2>2, <2>4, FailEnds
    <3>2. sent' = n /\ n <= n
      BY <1>10, <2>1
    <3>3. "FAILED" # "DONE"
      OBVIOUS
    <3> QED
      BY <1>9, <2>0, <2>1, <3>1, <3>2, <3>3, Zenon
  <2> QED
    BY <1>10, <2>2, <2>3, <2>4 DEF KeepBytes
<1>11. ASSUME NEW n \in 0 .. MaxReply, sent' = n, n > 0, fin' = FALSE,
              t' = fail(append(ran, n - 1), "STREAM")
       PROVE  Ran(t')
  <2>0. fin' \in BOOLEAN
    BY <1>11
  <2>1. n - 1 \in Nat /\ n - 1 <= n
    BY <1>11, TransportAssumption
  <2>2. append(ran, n - 1) \in Structs
    BY <1>7, <2>1
  <2>3. Ended(append(ran, n - 1), t', "FAILED")
    BY <1>11, <2>2, FailEnds
  <2> QED
    BY <1>9, <1>11, <2>0, <2>1, <2>3
<1>12. Ran(t')
  BY <1>8, <1>10, <1>11, Zenon DEF run, ran
<1> QED
  BY <1>1, <1>3, <1>4, <1>12

LEMMA RunInv ==
  ASSUME Inv, Running, impl = "posix", run, idle' = 0, UNCHANGED <<impl, now, age>>
  PROVE  Inv'
<1>1. /\ Ran(t') /\ wire' = wire /\ net' = net /\ drained' = drained
      /\ drained = 0 /\ wire = 0 /\ net = "closed"
  BY RunRan
<1>2. TypeOK'
  BY <1>1, TransportAssumption DEF Inv, TypeOK, Ran
<1>3. EndpointClosedOnce' /\ BufferBounded' /\ LifeInv'
  BY <1>1 DEF Ran, EndpointClosedOnce, BufferBounded, LifeInv
<1>4. FlowInv'
  <2>1. t'.st # "INIT" /\ t'.len <= sent' /\ t'.len \in Nat
    BY <1>1 DEF Ran, Structs
  <2> QED
    BY <1>1, <2>1 DEF FlowInv
<1>5. ClockInv'
  BY <1>1 DEF Ran, ClockInv
<1> QED
  BY <1>2, <1>3, <1>4, <1>5 DEF Inv

-----------------------------------------------------------------------------
(* What a step is to the header's promise, and that no other step times out. *)
Promise == [Abs!TxNext]_(Abs!vars)

Good == Inv' /\ Promise /\ t'.error = t.error

LEMMA InitInv == Init => Inv
<1> SUFFICES ASSUME Init PROVE Inv
  OBVIOUS
<1>1. TickMod \in Nat /\ TickMod >= 1 /\ ReqLen \in Nat
  BY TransportAssumption
<1>2. 0 \in 0 .. TickMod - 1 /\ 0 \in 0 .. ReqLen /\ 0 \in 0 .. Gap /\ now \in 0 .. TickMod - 1
  BY <1>1, TransportAssumption DEF Init
<1>3. t = NoTx /\ net = "closed" /\ sent = 0 /\ wire = 0 /\ fin = FALSE /\ drained = 0 /\ idle = 0
      /\ age = 0 /\ impl \in Impls
  BY DEF Init
<1>4. NoTx \in Structs
  BY <1>2 DEF NoTx, Structs
<1>5. TypeOK
  BY <1>2, <1>3, <1>4 DEF TypeOK
<1>6. EndpointClosedOnce /\ BufferBounded /\ LifeInv
  BY <1>3 DEF NoTx, EndpointClosedOnce, BufferBounded, LifeInv
<1>7. FlowInv
  BY <1>3 DEF NoTx, FlowInv
<1>8. ClockInv
  BY <1>3 DEF NoTx, ClockInv
<1> QED
  BY <1>5, <1>6, <1>7, <1>8 DEF Inv

LEMMA InitTx == Init => Abs!TxInit
BY DEF Init, NoTx, Abs!TxInit, Phase

(* A new transaction, or none for want of memory.                           *)
LEMMA NewGood ==
  ASSUME Inv, NEW streaming \in BOOLEAN, cq_tx_new(streaming)
  PROVE  Good
<1>1. PICK l \in {"live", "freed"} : t' = [t EXCEPT !.life = l, !.streaming = streaming]
  BY DEF cq_tx_new
<1>2. /\ t.life = "none" /\ impl' = impl /\ net' = net /\ wire' = wire /\ idle' = idle /\ sent' = sent
      /\ fin' = fin /\ drained' = drained /\ now' = now /\ age' = age
  BY DEF cq_tx_new, peerVars, clockVars
<1>3. /\ t \in Structs /\ t.st = "INIT" /\ t.status = "RUNNING" /\ t.started = FALSE
      /\ t.cancelled = FALSE /\ t.ep = FALSE /\ t.open = 0 /\ t.len = 0
  BY <1>2 DEF Inv, TypeOK, LifeInv, EndpointClosedOnce, FlowInv, Structs
<1>4. t' \in Structs
  <2>1. t \in Structs
    BY <1>3
  <2> QED
    BY <1>1, <2>1 DEF Structs
<1>5. /\ t'.life = l /\ t'.streaming = streaming /\ t'.st = t.st /\ t'.status = t.status
      /\ t'.started = t.started /\ t'.cancelled = t.cancelled /\ t'.ep = t.ep /\ t'.open = t.open
      /\ t'.len = t.len /\ t'.error = t.error /\ t'.start = t.start
  BY <1>1, <1>3 DEF Structs
<1>6. TypeOK'
  BY <1>2, <1>4 DEF Inv, TypeOK
<1>7. EndpointClosedOnce' /\ LifeInv'
  BY <1>2, <1>3, <1>5 DEF Inv, EndpointClosedOnce, LifeInv
<1>8. BufferBounded'
  BY <1>3, <1>5, TransportAssumption DEF BufferBounded
<1>9. FlowInv'
  BY <1>2, <1>5 DEF Inv, FlowInv
<1>10. ClockInv'
  BY <1>3, <1>5 DEF ClockInv
<1>11. Promise
  <2>1. Phase = "idle" /\ Phase' \in {"idle", "freed"}
    BY <1>2, <1>3, <1>5 DEF Phase
  <2>2. (t.len + drained)' = t.len + drained
    BY <1>2, <1>5
  <2> QED
    BY <1>2, <2>1, <2>2 DEF Promise, Abs!TxNext, Abs!vars, Abs!Free
<1> QED
  BY <1>5, <1>6, <1>7, <1>8, <1>9, <1>10, <1>11 DEF Good, Inv

LEMMA StartGood == ASSUME Inv, cq_tx_start PROVE Good
<1>1. /\ t.life = "live" /\ t.started = FALSE /\ t.status = "RUNNING" /\ age' = 0 /\ idle' = 0
      /\ t' = [t EXCEPT !.started = TRUE, !.start = now]
      /\ impl' = impl /\ net' = net /\ wire' = wire /\ sent' = sent
      /\ fin' = fin /\ drained' = drained /\ now' = now /\ t \in Structs
      /\ now \in 0 .. TickMod - 1
  BY DEF cq_tx_start, peerVars, Inv, TypeOK, Structs
<1>2. t' \in Structs
  <2>1. t \in Structs /\ now \in 0 .. TickMod - 1
    BY <1>1
  <2> QED
    BY <1>1, <2>1 DEF Structs
<1>3. /\ t'.life = t.life /\ t'.streaming = t.streaming /\ t'.st = t.st /\ t'.status = t.status
      /\ t'.started = TRUE /\ t'.cancelled = t.cancelled /\ t'.ep = t.ep /\ t'.open = t.open
      /\ t'.len = t.len /\ t'.error = t.error /\ t'.start = now
  BY <1>1 DEF Structs
<1>4. TypeOK'
  BY <1>1, <1>2, TransportAssumption DEF Inv, TypeOK
<1>5. EndpointClosedOnce' /\ BufferBounded' /\ LifeInv'
  BY <1>1, <1>3 DEF Inv, EndpointClosedOnce, BufferBounded, LifeInv
<1>6. FlowInv'
  BY <1>1, <1>3 DEF Inv, FlowInv
<1>7. Elapsed' = 0
  <2>1. now' - t'.start = 0
    BY <1>1, <1>3
  <2>2. 0 % TickMod = 0
    BY ModSmall, TransportAssumption
  <2> QED
    BY <2>1, <2>2 DEF Elapsed
<1>8. ClockInv'
  BY <1>1, <1>7, TransportAssumption DEF ClockInv
<1>9. Promise
  <2>1. \/ Phase = "idle" /\ Phase' = "running"
        \/ Phase = "muted" /\ Phase' = "muted"
    BY <1>1, <1>3 DEF Phase
  <2>2. (t.len + drained)' = t.len + drained
    BY <1>1, <1>3
  <2> QED
    BY <1>1, <2>1, <2>2 DEF Promise, Abs!TxNext, Abs!vars, Abs!Begin
<1> QED
  BY <1>3, <1>4, <1>5, <1>6, <1>8, <1>9 DEF Good, Inv

(* The clock is untouched and the struct still runs or has stopped.         *)
LEMMA ClockKept ==
  ASSUME Inv, t'.started = t.started, t'.start = t.start, UNCHANGED <<impl, idle, now, age>>,
         (t.life = "live" /\ ~Inert)' =>
            t.life = "live" /\ ~Inert /\ t'.st = t.st /\ t'.streaming = t.streaming
  PROVE  ClockInv'
<1>1. Elapsed' = Elapsed
  BY DEF Elapsed
<1> QED
  BY <1>1 DEF Inv, ClockInv

LEMMA DrainGood == ASSUME Inv, NEW cap \in 1 .. Chunk, cq_tx_drain(cap) PROVE Good
<1> DEFINE n == IF t.len < cap THEN t.len ELSE cap
<1>1. /\ t.life = "live" /\ t.streaming = TRUE /\ t.len > 0 /\ t.len \in Nat
      /\ t' = [t EXCEPT !.len = t.len - n] /\ drained' = drained + n /\ drained \in Nat
      /\ impl' = impl /\ net' = net /\ wire' = wire /\ sent' = sent
      /\ fin' = fin /\ now' = now /\ age' = age /\ idle' = idle /\ t \in Structs
  BY DEF cq_tx_drain, clockVars, Inv, TypeOK, Structs
<1>2. n \in Nat /\ n > 0 /\ n <= t.len /\ t.len - n \in Nat
  BY <1>1, TransportAssumption
<1> DEFINE len == t.len - n
<1> HIDE DEF n, len
<1>3. t' \in Structs
  <2>1. t' = [t EXCEPT !.len = len] /\ len \in Nat /\ t \in Structs
    BY <1>1, <1>2 DEF len
  <2> QED
    BY <2>1 DEF Structs
<1>4. /\ t'.life = t.life /\ t'.streaming = t.streaming /\ t'.st = t.st /\ t'.status = t.status
      /\ t'.started = t.started /\ t'.cancelled = t.cancelled /\ t'.ep = t.ep /\ t'.open = t.open
      /\ t'.len = t.len - n /\ t'.error = t.error /\ t'.start = t.start
  BY <1>1 DEF Structs
<1>5. TypeOK'
  BY <1>1, <1>2, <1>3 DEF Inv, TypeOK
<1>6. EndpointClosedOnce' /\ LifeInv'
  BY <1>1, <1>4 DEF Inv, EndpointClosedOnce, LifeInv
<1>7. BufferBounded'
  BY <1>1, <1>2, <1>4, TransportAssumption DEF Inv, BufferBounded
<1>8. t'.len + drained' = t.len + drained
  BY <1>1, <1>2, <1>4
<1>9. FlowInv'
  <2>1. t.st # "INIT"
    BY <1>1 DEF Inv, FlowInv
  <2>2. /\ t.len + drained + wire <= sent
        /\ net \in {"calling", "up"} => t.len + drained + wire = sent
    BY DEF Inv, FlowInv
  <2> QED
    BY <1>1, <1>4, <1>8, <2>1, <2>2 DEF FlowInv
<1>10. ClockInv'
  BY <1>1, <1>4, ClockKept DEF Inert
<1>11. Promise
  <2>1. Phase' = Phase /\ Phase # "freed"
    BY <1>1, <1>4 DEF Phase
  <2>2. drained < drained' /\ drained' <= t.len + drained /\ (t.len + drained)' = t.len + drained
    BY <1>1, <1>2, <1>8
  <2> QED
    BY <1>1, <2>1, <2>2 DEF Promise, Abs!TxNext, Abs!Drain
<1> QED
  BY <1>4, <1>5, <1>6, <1>7, <1>9, <1>10, <1>11 DEF Good, Inv

LEMMA CancelGood == ASSUME Inv, cq_tx_cancel PROVE Good
<1> DEFINE y == ot_teardown(t)
<1>1. /\ t.life = "live" /\ t.cancelled = FALSE
      /\ t' = [y EXCEPT !.cancelled = TRUE]
      /\ impl' = impl /\ net' = net /\ wire' = wire /\ sent' = sent /\ drained' = drained
      /\ fin' = fin /\ now' = now /\ age' = age /\ idle' = idle /\ t \in Structs
  BY DEF cq_tx_cancel, clockVars, peerVars, Inv, TypeOK, Structs
<1>2. y \in Structs /\ y = [t EXCEPT !.ep = FALSE, !.open = IF t.ep THEN t.open - 1 ELSE t.open]
  BY <1>1, Teardown
<1> HIDE DEF y
<1>3. (IF t.ep THEN t.open - 1 ELSE t.open) = 0
  BY <1>1 DEF Inv, EndpointClosedOnce
<1>4. /\ y.life = t.life /\ y.streaming = t.streaming /\ y.st = t.st /\ y.status = t.status
      /\ y.started = t.started /\ y.ep = FALSE /\ y.open = 0
      /\ y.len = t.len /\ y.error = t.error /\ y.start = t.start
  BY <1>1, <1>2, <1>3 DEF Structs
<1>5. t' \in Structs
  <2>1. y \in Structs
    BY <1>2
  <2> QED
    BY <1>1, <2>1 DEF Structs
<1>6. /\ t'.life = t.life /\ t'.streaming = t.streaming /\ t'.st = t.st /\ t'.status = t.status
      /\ t'.started = t.started /\ t'.cancelled = TRUE /\ t'.ep = FALSE /\ t'.open = 0
      /\ t'.len = t.len /\ t'.error = t.error /\ t'.start = t.start
  BY <1>1, <1>2, <1>4 DEF Structs
<1>7. TypeOK'
  BY <1>1, <1>5 DEF Inv, TypeOK
<1>8. EndpointClosedOnce' /\ BufferBounded' /\ LifeInv'
  BY <1>1, <1>6 DEF Inv, EndpointClosedOnce, BufferBounded, LifeInv
<1>9. FlowInv'
  BY <1>1, <1>6 DEF Inv, FlowInv
<1>10. ClockInv'
  BY <1>1, <1>6, ClockKept DEF Inert
<1>11. Promise
  <2>1. \/ Phase \in {"idle", "running"} /\ Phase' = "muted"
        \/ Phase' = Phase
    BY <1>1, <1>6 DEF Phase, Structs
  <2>2. (t.len + drained)' = t.len + drained
    BY <1>1, <1>6
  <2> QED
    BY <1>1, <2>1, <2>2 DEF Promise, Abs!TxNext, Abs!vars, Abs!Cancel
<1> QED
  BY <1>6, <1>7, <1>8, <1>9, <1>10, <1>11 DEF Good, Inv

LEMMA FreeGood == ASSUME Inv, cq_tx_free PROVE Good
<1> DEFINE n == IF t.ep THEN t.open - 1 ELSE t.open
<1>1. /\ t.life = "live" /\ t' = [t EXCEPT !.life = "freed", !.open = n]
      /\ impl' = impl /\ net' = net /\ wire' = wire /\ sent' = sent /\ drained' = drained
      /\ fin' = fin /\ now' = now /\ age' = age /\ idle' = idle /\ t \in Structs
  BY DEF cq_tx_free, clockVars, peerVars, Inv, TypeOK, Structs
<1>2. n = 0
  BY <1>1 DEF Inv, EndpointClosedOnce
<1>3. n \in Int
  BY <1>2
<1> HIDE DEF n
<1>4. t' \in Structs
  <2>1. t \in Structs
    BY <1>1
  <2> QED
    BY <1>1, <1>3, <2>1 DEF Structs
<1>5. /\ t'.life = "freed" /\ t'.streaming = t.streaming /\ t'.st = t.st /\ t'.status = t.status
      /\ t'.started = t.started /\ t'.cancelled = t.cancelled /\ t'.ep = t.ep /\ t'.open = 0
      /\ t'.len = t.len /\ t'.error = t.error /\ t'.start = t.start
  BY <1>1, <1>2 DEF Structs
<1>6. TypeOK'
  BY <1>1, <1>4 DEF Inv, TypeOK
<1>7. EndpointClosedOnce' /\ BufferBounded' /\ LifeInv'
  BY <1>1, <1>5 DEF Inv, EndpointClosedOnce, BufferBounded, LifeInv
<1>8. FlowInv'
  BY <1>1, <1>5 DEF Inv, FlowInv
<1>9. ClockInv'
  BY <1>1, <1>5, ClockKept
<1>10. Promise
  <2>1. Phase' = "freed"
    BY <1>5 DEF Phase
  <2> QED
    BY <1>1, <1>5, <2>1 DEF Promise, Abs!TxNext, Abs!Free
<1> QED
  BY <1>5, <1>6, <1>7, <1>8, <1>9, <1>10 DEF Good, Inv

LEMMA NotifierGood == ASSUME Inv, conn_notifier PROVE Good
<1>1. /\ t' = [t EXCEPT !.conn = Pending] /\ Pending \in {"T_CONNECT", "T_DISCONNECT"}
      /\ impl' = impl /\ net' = net /\ wire' = wire /\ sent' = sent /\ drained' = drained
      /\ fin' = fin /\ now' = now /\ age' = age /\ idle' = idle /\ t \in Structs
  BY DEF conn_notifier, Pending, clockVars, peerVars, Inv, TypeOK
<1>2. t' \in Structs
  <2>1. t \in Structs /\ Pending \in {"none", "T_CONNECT", "T_DISCONNECT"}
    BY <1>1
  <2> QED
    BY <1>1, <2>1 DEF Structs
<1>3. /\ t'.life = t.life /\ t'.streaming = t.streaming /\ t'.st = t.st /\ t'.status = t.status
      /\ t'.started = t.started /\ t'.cancelled = t.cancelled /\ t'.ep = t.ep /\ t'.open = t.open
      /\ t'.len = t.len /\ t'.error = t.error /\ t'.start = t.start
  BY <1>1 DEF Structs
<1>4. TypeOK'
  BY <1>1, <1>2 DEF Inv, TypeOK
<1>5. EndpointClosedOnce' /\ BufferBounded' /\ LifeInv'
  BY <1>1, <1>3 DEF Inv, EndpointClosedOnce, BufferBounded, LifeInv
<1>6. FlowInv'
  BY <1>1, <1>3 DEF Inv, FlowInv
<1>7. ClockInv'
  BY <1>1, <1>3, ClockKept DEF Inert
<1>8. Promise
  <2>1. Phase' = Phase
    BY <1>3 DEF Phase
  <2> QED
    BY <1>1, <1>3, <2>1 DEF Promise, Abs!vars
<1> QED
  BY <1>3, <1>4, <1>5, <1>6, <1>7, <1>8 DEF Good, Inv

(* The peer touches nothing of the struct.                                  *)
LEMMA PeerGood == ASSUME Inv, PeerStep PROVE Good
<1>1. /\ t.ep /\ t' = t /\ impl' = impl /\ drained' = drained /\ idle' = idle /\ now' = now /\ age' = age
      /\ t.st # "INIT"
  BY DEF PeerStep, PeerAccepts, PeerRefuses, PeerResets, PeerSends, PeerCloses, Moves, clockVars,
         Inv, LifeInv
<1>2. /\ sent \in Nat /\ wire \in Nat /\ drained \in Nat /\ t.len \in Nat /\ fin \in BOOLEAN
      /\ t.len + drained + wire <= sent
      /\ net \in {"calling", "up"} => t.len + drained + wire = sent
  BY DEF Inv, TypeOK, FlowInv, Structs
<1>3. /\ sent' \in Nat /\ wire' \in Nat /\ net' \in {"closed", "calling", "up", "refused", "broken"}
      /\ t.len + drained + wire' <= sent'
      /\ net' \in {"calling", "up"} => t.len + drained + wire' = sent'
      /\ sent' >= sent /\ (sent' = sent \/ ~fin)
  <2>1. CASE PeerAccepts
    BY <1>2, <2>1 DEF PeerAccepts, Moves
  <2>2. CASE PeerRefuses
    BY <1>2, <2>2 DEF PeerRefuses, Moves
  <2>3. CASE PeerResets
    BY <1>2, <2>3 DEF PeerResets, Moves
  <2>4. CASE PeerSends
    <3>1. sent' = sent + 1 /\ wire' = wire + 1 /\ net' = net /\ net = "up" /\ ~fin
      BY <2>4 DEF PeerSends, Moves
    <3> QED
      BY <1>2, <3>1
  <2>5. CASE PeerCloses
    BY <1>2, <2>5 DEF PeerCloses, Moves
  <2> QED
    BY <2>1, <2>2, <2>3, <2>4, <2>5 DEF PeerStep
<1>4. fin' \in BOOLEAN /\ (fin' = fin \/ ~fin)
  BY <1>2 DEF PeerStep, PeerAccepts, PeerRefuses, PeerResets, PeerSends, PeerCloses
<1>5. TypeOK'
  BY <1>1, <1>3, <1>4 DEF Inv, TypeOK
<1>6. EndpointClosedOnce' /\ BufferBounded' /\ LifeInv'
  BY <1>1 DEF Inv, EndpointClosedOnce, BufferBounded, LifeInv
<1>7. FlowInv'
  BY <1>1, <1>3 DEF FlowInv
<1>8. ClockInv'
  BY <1>1, ClockKept DEF Inert
<1>9. Promise
  <2>1. Phase' = Phase /\ (t.len + drained)' = t.len + drained
    BY <1>1 DEF Phase
  <2>2. CASE ~fin
    BY <1>1, <1>3, <1>4, <2>1, <2>2 DEF Promise, Abs!TxNext, Abs!Peer
  <2>3. CASE fin' = fin /\ sent' = sent
    BY <1>1, <2>1, <2>3 DEF Promise, Abs!vars
  <2> QED
    BY <1>3, <1>4, <2>2, <2>3
<1> QED
  BY <1>1, <1>5, <1>6, <1>7, <1>8, <1>9 DEF Good, Inv

(* The wrapped count of ticks goes on with the age until both are past the  *)
(* last deadline.                                                           *)
LEMMA TickGood == ASSUME Inv, Tick PROVE Good
<1>1. /\ t' = t /\ impl' = impl /\ net' = net /\ wire' = wire /\ sent' = sent /\ fin' = fin
      /\ drained' = drained /\ now' = (now + 1) % TickMod /\ idle' = idle + 1 /\ idle < Gap
      /\ age' = IF age > Watchdog + Gap THEN age ELSE age + 1
      /\ t.life = "live" /\ t.started /\ ~Inert
  BY DEF Tick, peerVars
<1>2. /\ now \in 0 .. TickMod - 1 /\ idle \in 0 .. Gap /\ age \in Nat /\ t.start \in 0 .. TickMod - 1
      /\ TickMod \in Nat \ {0} /\ Watchdog \in Nat /\ Gap \in Nat /\ Deadline \in Nat
      /\ Watchdog + Gap < TickMod /\ Deadline < Watchdog
  BY TransportAssumption DEF Inv, TypeOK, Structs
<1>3. now' \in 0 .. TickMod - 1
  <2>1. now + 1 \in Int
    BY <1>2
  <2> QED
    BY <1>1, <1>2, <2>1, Division
<1>4. TypeOK'
  BY <1>1, <1>2, <1>3 DEF Inv, TypeOK
<1>5. EndpointClosedOnce' /\ BufferBounded' /\ LifeInv' /\ FlowInv'
  BY <1>1 DEF Inv, EndpointClosedOnce, BufferBounded, LifeInv, FlowInv
<1>6. ASSUME age' <= Watchdog + Gap
      PROVE  Elapsed' = age'
  <2> DEFINE a == now - t.start
  <2>1. age' = age + 1 /\ age + 1 < TickMod /\ age <= Watchdog + Gap
    BY <1>1, <1>2, <1>6
  <2>2. a % TickMod = age
    BY <1>1, <2>1 DEF Inv, ClockInv, Elapsed
  <2>3. now + 1 \in Int /\ -t.start \in Int /\ a \in Int /\ 1 \in Nat
    BY <1>2
  <2>4. (((now + 1) % TickMod) + (-t.start)) % TickMod = (now + 1 + (-t.start)) % TickMod
    BY <1>2, <2>3, ModPlus
  <2>5. now + 1 + (-t.start) = a + 1
    BY <1>2
  <2>6. now' - t'.start = ((now + 1) % TickMod) + (-t.start)
    BY <1>1, <1>2, <1>3
  <2>7. Elapsed' = (a + 1) % TickMod
    BY <2>4, <2>5, <2>6 DEF Elapsed
  <2> HIDE DEF a
  <2>8. (a % TickMod) + 1 < TickMod
    BY <2>1, <2>2
  <2>9. (a + 1) % TickMod = (a % TickMod) + 1
    BY <1>2, <2>3, <2>8, ModRun
  <2> QED
    BY <2>1, <2>2, <2>7, <2>9
<1>7. ClockInv'
  <2>1. impl = "ot" =>
          /\ t.st = "INIT" => age <= idle
          /\ t.st = "CONNECTING" => age <= Deadline + idle
          /\ (t.streaming /\ t.st = "RECEIVING") \/ age <= Watchdog + idle
    BY <1>1 DEF Inv, ClockInv
  <2>2. age' <= age + 1 /\ age' \in Nat
    BY <1>1, <1>2
  <2>3. impl' = "ot" =>
          /\ t'.st = "INIT" => age' <= idle'
          /\ t'.st = "CONNECTING" => age' <= Deadline + idle'
          /\ (t'.streaming /\ t'.st = "RECEIVING") \/ age' <= Watchdog + idle'
    BY <1>1, <1>2, <2>1, <2>2
  <2> HIDE DEF Elapsed
  <2> QED
    BY <1>6, <2>3 DEF ClockInv
<1>8. Promise
  <2>1. Phase' = Phase
    BY <1>1 DEF Phase
  <2> QED
    BY <1>1, <2>1 DEF Promise, Abs!vars
<1> QED
  BY <1>1, <1>4, <1>5, <1>7, <1>8 DEF Good, Inv

(* A poll that settles its struct receives, succeeds or fails.              *)
LEMMA SettledPromise ==
  ASSUME Inv, Polls, Settled(t')
  PROVE  Promise
<1>1. /\ t.life = "live" /\ t.started = TRUE /\ t.cancelled = FALSE /\ t.status = "RUNNING"
      /\ t \in Structs /\ sent \in Nat /\ drained \in Nat /\ fin \in BOOLEAN
      /\ sent' = sent /\ fin' = fin /\ drained' = drained /\ wire' \in Nat
  BY DEF Polls, Running, Inert, Inv, TypeOK, Structs
<1>2. Phase = "running"
  BY <1>1 DEF Phase
<1>3. /\ t' \in Structs /\ t'.life = "live" /\ t'.cancelled = FALSE /\ t'.started = TRUE
      /\ t.len <= t'.len /\ t'.len + drained + wire' <= sent
      /\ t'.status = "DONE" => t'.len > 0 \/ (fin /\ t'.len + drained = sent)
  BY DEF Settled, Cand, Base, Flow, Whole
<1>4. t.len \in Nat /\ t'.len \in Nat /\ t'.status \in {"RUNNING", "DONE", "FAILED"}
  BY <1>1, <1>3 DEF Structs
<1>5. t.len + drained <= (t.len + drained)' /\ (t.len + drained)' <= sent
  BY <1>1, <1>3, <1>4
<1>6. Abs!Takes
  BY <1>1, <1>5 DEF Abs!Takes
<1>7. CASE t'.status = "RUNNING"
  <2>1. Phase' = "running"
    BY <1>3, <1>7 DEF Phase
  <2> QED
    BY <1>2, <1>6, <2>1 DEF Promise, Abs!TxNext, Abs!Receive
<1>8. CASE t'.status = "FAILED"
  <2>1. Phase' = "failed"
    BY <1>3, <1>8 DEF Phase
  <2> QED
    BY <1>2, <1>6, <2>1 DEF Promise, Abs!TxNext, Abs!Fail
<1>9. CASE t'.status = "DONE"
  <2>1. Phase' = "done"
    BY <1>3, <1>9 DEF Phase
  <2>2. (t.len + drained)' > drained \/ (fin' /\ (t.len + drained)' = sent')
    BY <1>1, <1>3, <1>4, <1>9
  <2> QED
    BY <1>2, <1>6, <2>1, <2>2 DEF Promise, Abs!TxNext, Abs!Succeed
<1> QED
  BY <1>4, <1>7, <1>8, <1>9

LEMMA RunPromise ==
  ASSUME Inv, Running, impl = "posix", run
  PROVE  Promise
<1>1. /\ Ran(t') /\ wire' = wire /\ net' = net /\ drained' = drained
      /\ t.len = 0 /\ drained = 0 /\ sent = 0 /\ ~fin
  BY RunRan
<1>2. t.life = "live" /\ t.started = TRUE /\ t.cancelled = FALSE /\ t.status = "RUNNING"
  BY DEF Running, Inert, Inv, TypeOK, Structs
<1>3. Phase = "running"
  BY <1>2 DEF Phase
<1>4. /\ t'.len \in Nat /\ t'.len <= sent' /\ sent' \in Nat /\ fin' \in BOOLEAN
      /\ t'.life = "live" /\ t'.status \in {"DONE", "FAILED"}
      /\ t'.status = "DONE" => t'.len > 0 \/ (fin' = TRUE /\ t'.len = sent')
  BY <1>1 DEF Ran, Structs
<1>5. (t.len + drained)' = t'.len /\ t.len + drained = 0
  BY <1>1, <1>4
<1>6. Abs!Takes
  <2>1. t.len + drained <= (t.len + drained)' /\ (t.len + drained)' <= sent' /\ sent <= sent'
    BY <1>1, <1>4, <1>5
  <2> QED
    BY <1>1, <1>4, <2>1 DEF Abs!Takes
<1>7. CASE t'.status = "FAILED"
  <2>1. Phase' = "failed"
    BY <1>4, <1>7 DEF Phase
  <2> QED
    BY <1>3, <1>6, <2>1 DEF Promise, Abs!TxNext, Abs!Fail
<1>8. CASE t'.status = "DONE"
  <2>1. Phase' = "done"
    BY <1>4, <1>8 DEF Phase
  <2>2. (t.len + drained)' > drained \/ (fin' /\ (t.len + drained)' = sent')
    BY <1>1, <1>4, <1>5, <1>8
  <2> QED
    BY <1>3, <1>6, <2>1, <2>2 DEF Promise, Abs!TxNext, Abs!Succeed
<1> QED
  BY <1>4, <1>7, <1>8

(* What a step may not time out.                                            *)
Timely ==
  impl = "ot" /\ t'.error = "TIMEOUT" /\ t.error # "TIMEOUT"
    => age > Deadline /\ ~(t.streaming /\ t.st = "RECEIVING")

LEMMA PollGood == ASSUME Inv, cq_tx_poll PROVE Inv' /\ Promise /\ Timely
<1>1. /\ t.life = "live" /\ idle' = 0 /\ impl' = impl /\ now' = now /\ age' = age
      /\ impl \in {"ot", "posix"}
  BY TransportAssumption DEF cq_tx_poll, clockVars, Inv, TypeOK
<1>2. CASE Inert /\ UNCHANGED <<t, net, wire, peerVars>>
  <2>1. /\ t' = t /\ net' = net /\ wire' = wire /\ sent' = sent /\ fin' = fin /\ drained' = drained
    BY <1>2 DEF peerVars
  <2>2. TypeOK'
    BY <1>1, <2>1, TransportAssumption DEF Inv, TypeOK
  <2>3. EndpointClosedOnce' /\ BufferBounded' /\ LifeInv' /\ FlowInv'
    BY <1>1, <2>1 DEF Inv, EndpointClosedOnce, BufferBounded, LifeInv, FlowInv
  <2>4. Elapsed' = Elapsed
    BY <1>1, <2>1 DEF Elapsed
  <2>5. ClockInv'
    BY <1>1, <1>2, <2>1, <2>4 DEF Inv, ClockInv, Inert
  <2>6. Promise
    <3>1. Phase' = Phase
      BY <2>1 DEF Phase
    <3> QED
      BY <2>1, <3>1 DEF Promise, Abs!vars
  <2> QED
    BY <2>1, <2>2, <2>3, <2>5, <2>6 DEF Inv, Timely
<1>3. ASSUME ~Inert PROVE Running
  BY <1>1, <1>3 DEF cq_tx_poll, Running
<1>4. CASE ~Inert /\ impl = "ot" /\ OTPoll
  <2>1. UNCHANGED <<impl, now, age, sent, fin, drained>>
    BY <1>1, <1>4 DEF OTPoll, open_and_connect, pump_connect, pump_send, pump_recv, peerVars
  <2>2. /\ Inv' /\ Polls /\ Settled(t')
        /\ t'.error = "TIMEOUT" => age > Deadline /\ ~(t.streaming /\ t.st = "RECEIVING")
    BY <1>1, <1>3, <1>4, <2>1, OTPollInv
  <2> QED
    BY <2>2, SettledPromise DEF Timely
<1>5. CASE ~Inert /\ impl = "posix" /\ PosixPoll
  <2>1. Timely
    BY <1>5 DEF Timely
  <2>2. CASE run
    BY <1>1, <1>3, <1>5, <2>1, <2>2, RunInv, RunPromise
  <2>3. CASE connect_and_send
    <3>1. UNCHANGED <<impl, now, age, sent, fin, drained>>
      BY <1>1, <2>3 DEF connect_and_send, peerVars
    <3> QED
      BY <1>1, <1>3, <1>5, <2>1, <2>3, <3>1, StreamConnectInv, SettledPromise
  <2>4. CASE pump_stream
    <3>1. UNCHANGED <<impl, now, age, sent, fin, drained>>
      BY <1>1, <2>4 DEF pump_stream, peerVars
    <3> QED
      BY <1>1, <1>3, <1>5, <2>1, <2>4, <3>1, StreamPumpInv, SettledPromise
  <2> QED
    BY <1>5, <2>2, <2>3, <2>4 DEF PosixPoll
<1> QED
  BY <1>2, <1>4, <1>5 DEF cq_tx_poll

(* One step, whoever takes it.                                              *)
LEMMA NextGood == ASSUME Inv, [Next]_vars PROVE Inv' /\ Promise /\ (Timely \/ UNCHANGED vars)
<1>1. CASE cq_tx_poll
  BY <1>1, PollGood
<1>2. Good => Inv' /\ Promise /\ Timely
  BY DEF Good, Timely
<1>3. CASE Caller
  BY <1>2, <1>3, NewGood, StartGood, CancelGood, FreeGood, DrainGood DEF Caller
<1>4. CASE conn_notifier
  BY <1>2, <1>4, NotifierGood
<1>5. CASE PeerStep
  BY <1>2, <1>5, PeerGood
<1>6. CASE Tick
  BY <1>2, <1>6, TickGood
<1>7. CASE UNCHANGED vars
  <2>1. /\ t' = t /\ net' = net /\ wire' = wire /\ sent' = sent /\ fin' = fin /\ drained' = drained
        /\ impl' = impl /\ now' = now /\ idle' = idle /\ age' = age
    BY <1>7 DEF vars
  <2>2. TypeOK' /\ EndpointClosedOnce' /\ BufferBounded' /\ LifeInv' /\ FlowInv'
    BY <2>1 DEF Inv, TypeOK, EndpointClosedOnce, BufferBounded, LifeInv, FlowInv
  <2>3. ClockInv'
    BY <2>1, ClockKept DEF Inert
  <2>4. Phase' = Phase
    BY <2>1 DEF Phase
  <2>5. Promise
    BY <2>1, <2>4 DEF Promise, Abs!vars
  <2> QED
    BY <1>7, <2>2, <2>3, <2>5 DEF Inv
<1> QED
  BY <1>1, <1>3, <1>4, <1>5, <1>6, <1>7 DEF Next

-----------------------------------------------------------------------------
(* The strengthened invariant of either implementation holds.               *)
THEOREM Invariant == Spec => []Inv
<1>1. Inv /\ [Next]_vars => Inv'
  BY NextGood
<1> QED
  BY InitInv, <1>1, PTL DEF Spec

(* Every endpoint is closed once, and none outlives its transaction         *)
(* (ot_teardown and its callers).                                           *)
THEOREM EndpointsClosed == Spec => []EndpointClosedOnce
<1>1. Inv => EndpointClosedOnce
  BY DEF Inv
<1> QED
  BY Invariant, <1>1, PTL

(* A stream's buffer stays within a read of the high-water mark (pump_recv, *)
(* pump_stream).                                                            *)
THEOREM StreamsBounded == Spec => []BufferBounded
<1>1. Inv => BufferBounded
  BY DEF Inv
<1> QED
  BY Invariant, <1>1, PTL

(* The deadlines end a transaction within the pace of the polls, whatever   *)
(* the TickCount it began at (cq_tx_poll).                                  *)
THEOREM DeadlinesKept == Spec => []DeadlinesHold
<1>1. Inv => DeadlinesHold
  <2>1. Inv => idle \in 0 .. Gap /\ age \in Nat /\ Gap \in Nat /\ Deadline \in Nat /\ Watchdog \in Nat
    BY TransportAssumption DEF Inv, TypeOK
  <2> QED
    BY <2>1 DEF Inv, ClockInv, DeadlinesHold
<1> QED
  BY Invariant, <1>1, PTL

(* No transaction is timed out before its deadline, and no stream that      *)
(* receives is at all (cq_tx_poll).                                         *)
THEOREM NoneTimedOutEarly == Spec => NoEarlyTimeout
<1>1. Inv /\ [Next]_vars =>
        [impl = "ot" /\ t'.error = "TIMEOUT" /\ t.error # "TIMEOUT"
           => age > Deadline /\ ~(t.streaming /\ t.st = "RECEIVING")]_vars
  BY NextGood DEF Timely
<1> QED
  BY Invariant, <1>1, PTL DEF Spec, NoEarlyTimeout

(* Both implementations keep the promise of cq_transport.h.                 *)
THEOREM Implements == Spec => ImplementsTransaction
<1>1. Init => Abs!TxInit
  BY InitTx
<1>2. Inv /\ [Next]_vars => [Abs!TxNext]_(Abs!vars)
  BY NextGood DEF Promise
<1> QED
  BY <1>1, <1>2, Invariant, PTL DEF Spec, ImplementsTransaction, Abs!TxSpec
=============================================================================
