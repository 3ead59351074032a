-------------------------- MODULE ReconcilerProofs --------------------------
(***************************************************************************)
(* The safety properties of Reconciler's run, proved for every number of   *)
(* tracks, rows, stamps, gestures and servers.  The outgoing side is dealt *)
(* with as the code deals with it, one helper at a time: a lemma says of   *)
(* each that a good side is left good.                                     *)
(***************************************************************************)
EXTENDS Reconciler, WellFoundedInduction, TLAPS

(* A side is a record whose transactions are those of the present server.   *)
Side(c) ==
  /\ c = [cmd |-> c.cmd, fire |-> c.fire, act |-> c.act, fallback |-> c.fallback,
          native |-> c.native]
  /\ c.cmd # None => c.cmd[2] = gHost
  /\ c.fire # None => c.fire[2] = gHost

(* Besides, the fallback is that of the play/from in flight.                *)
Good(c) == Side(c) /\ (c.cmd # None /\ c.cmd[1][1] = "from" => c.fallback = c.cmd[1][2])

OutInv == Good(ch) /\ (gTx # None => gTx[1] = gHost)

GuardInv == best \in Nat /\ last_ts = best

LaunchInv ==
  /\ auto \in [first : BOOLEAN, pending : BOOLEAN] /\ starts \in {0, 1}
  /\ auto.first => starts = 0 /\ ~auto.pending
  /\ auto.pending => starts = 0

QueueInv == gQueueEmptyRuns \in 0 .. 2 /\ gDeb \in {None, <<"prev">>, <<"next">>}

Inv == OutInv /\ GuardInv /\ LaunchInv /\ QueueInv

-----------------------------------------------------------------------------
(* The helpers.                                                             *)
LEMMA StartCommandSide ==
  ASSUME NEW c, NEW sel, Side(c)
  PROVE  Side(StartCommand(c, sel))
BY DEF Side, StartCommand

LEMMA StartCommandGood ==
  ASSUME NEW c, NEW sel, Good(c), sel[1] = "from" => c.fallback = sel[2]
  PROVE  Good(StartCommand(c, sel))
BY DEF Good, Side, StartCommand

LEMMA StartFireSide ==
  ASSUME NEW c, NEW sel, Side(c)
  PROVE  Side(StartFire(c, sel))
BY DEF Side, StartFire

LEMMA StartFireGood ==
  ASSUME NEW c, NEW sel, Good(c)
  PROVE  Good(StartFire(c, sel))
BY DEF Good, Side, StartFire

LEMMA ActionSide ==
  ASSUME NEW c, NEW sel, Side(c)
  PROVE  Side(ActionCommand(c, sel))
<1>1. Side([c EXCEPT !.act = sel])
  BY DEF Side
<1> QED BY <1>1, StartCommandSide DEF ActionCommand

LEMMA ActionGood ==
  ASSUME NEW c, NEW sel, Good(c), sel[1] = "from" => c.fallback = sel[2]
  PROVE  Good(ActionCommand(c, sel))
<1> DEFINE d == [c EXCEPT !.act = sel]
<1>1. Good(d) /\ d.fallback = c.fallback
  BY DEF Good, Side
<1> HIDE DEF d
<1>2. Good(StartCommand(d, sel))
  BY <1>1, StartCommandGood
<1> QED BY <1>2 DEF ActionCommand, d

LEMMA PlayFromSide ==
  ASSUME NEW c, NEW u, NEW rest, Side(c)
  PROVE  Side(PlayFrom(c, u, rest))
<1>1. Side([c EXCEPT !.fallback = u])
  BY DEF Side
<1>2. Side(PlayItem(c, u))
  BY StartFireSide DEF PlayItem
<1> QED BY <1>1, <1>2, ActionSide DEF PlayFrom

(* A play/from is prepared only while no command is in flight.              *)
LEMMA PlayFromGood ==
  ASSUME NEW c, NEW u, NEW rest, Good(c)
  PROVE  Good(PlayFrom(c, u, rest))
<1> DEFINE d == [c EXCEPT !.fallback = u]
           sel == <<"from", u, rest>>
<1>1. Good(PlayItem(c, u))
  BY StartFireGood DEF PlayItem
<1>2. CASE c.native = -1 \/ c.cmd # None
  BY <1>1, <1>2 DEF PlayFrom
<1>3. CASE c.native # -1 /\ c.cmd = None
  <2>1. Good(d) /\ d.fallback = u /\ sel[2] = u
    BY <1>3 DEF Good, Side
  <2> HIDE DEF d, sel
  <2>2. Good(ActionCommand(d, sel))
    BY <2>1, ActionGood
  <2> QED BY <1>3, <2>2 DEF PlayFrom, d, sel
<1> QED BY <1>2, <1>3

LEMMA AdoptHelpersSide ==
  ASSUME NEW c, NEW d, NEW active, Side(c)
  PROVE  Side(AutoStart(Watchdog(c, d), d, active))
<1>1. Side(Watchdog(c, d))
  BY PlayFromSide DEF Watchdog, PlayRow
<1> QED BY <1>1, StartCommandSide DEF AutoStart

LEMMA AdoptHelpersGood ==
  ASSUME NEW c, NEW d, NEW active, Good(c)
  PROVE  Good(AutoStart(Watchdog(c, d), d, active))
<1>1. Good(Watchdog(c, d))
  BY PlayFromGood DEF Watchdog, PlayRow
<1>2. Good(StartCommand(Watchdog(c, d), <<"now">>))
  <2> DEFINE w == Watchdog(c, d)
             sel == <<"now">>
  <2>1. sel[1] # "from"
    OBVIOUS
  <2> HIDE DEF w, sel
  <2>2. Good(w)
    BY <1>1 DEF w
  <2>3. Good(StartCommand(w, sel))
    BY <2>1, <2>2, StartCommandGood
  <2> QED BY <2>3 DEF w, sel
<1> QED BY <1>1, <1>2 DEF AutoStart

LEMMA SettledSide ==
  ASSUME NEW c, NEW n, NEW u, Side(c)
  PROVE  Side([c EXCEPT !.native = n, !.fallback = u])
<1> DEFINE e == [c EXCEPT !.native = n]
<1>1. Side(e)
  BY DEF Side
<1>2. [c EXCEPT !.native = n, !.fallback = u] = [e EXCEPT !.fallback = u]
  BY DEF Side
<1> HIDE DEF e
<1>3. Side([e EXCEPT !.fallback = u])
  BY <1>1 DEF Side
<1> QED BY <1>2, <1>3

Known(r) == r[1] \in {"error", "not_found", "doc"}

(* A command's reply may clear the fallback while the command still counts  *)
(* as in flight; a poll's may not.                                          *)
LEMMA AdoptSide ==
  ASSUME NEW c, NEW r, NEW isCmd \in BOOLEAN, Known(r), Side(c)
  PROVE  Side(AdoptOut(c, isCmd, r))
<1>1. Side(Healthy(c)) /\ Side([c EXCEPT !.native = -1, !.fallback = NoTrack])
  BY SettledSide DEF Healthy
<1>2. Side(NotFound(c))
  BY <1>1, StartFireSide DEF NotFound, PlayItem
<1>3. Side(AutoStart(Watchdog(Healthy(c), r[2]), r[2], r[3]))
  BY <1>1, AdoptHelpersSide
<1>4. Side(AutoStart(Watchdog(c, r[2]), r[2], r[3]))
  BY AdoptHelpersSide
<1>5. CASE r[1] = "error"
  BY <1>5 DEF AdoptOut
<1>6. CASE r[1] = "not_found"
  BY <1>2, <1>6 DEF AdoptOut
<1>7. CASE r[1] = "doc"
  BY <1>1, <1>3, <1>4, <1>7 DEF AdoptOut
<1> QED BY <1>5, <1>6, <1>7 DEF Known

LEMMA AdoptGood ==
  ASSUME NEW c, NEW r, Known(r), Good(c)
  PROVE  Good(AdoptOut(c, FALSE, r))
<1>1. Good(AutoStart(Watchdog(c, r[2]), r[2], r[3]))
  BY AdoptHelpersGood
<1>2. CASE r[1] = "error"
  BY <1>2 DEF AdoptOut
<1>3. CASE r[1] = "not_found"
  BY <1>3 DEF AdoptOut, Asked
<1>4. CASE r[1] = "doc"
  BY <1>1, <1>4 DEF AdoptOut, Asked
<1> QED BY <1>2, <1>3, <1>4 DEF Known

-----------------------------------------------------------------------------
(* The snapshot's side.                                                     *)
Documented(r) == r[1] = "doc" => r[2].ts \in Nat /\ r[3] \in BOOLEAN

LEMMA AdoptSnapInv ==
  ASSUME NEW r, Documented(r), GuardInv, LaunchInv, AdoptSnap(r)
  PROVE  /\ GuardInv' /\ LaunchInv'
         /\ gSnap' # gSnap => gSnap'.ts = 0 \/ gSnap'.ts >= best
<1>1. CASE ~Accepts(r)
  BY <1>1 DEF AdoptSnap, snapVars, autoVars, GuardInv, LaunchInv
<1>2. CASE Accepts(r)
  <2> DEFINE d == r[2]
             t == d.ts
  <2>1. t \in Nat /\ r[3] \in BOOLEAN /\ (t = 0 \/ last_ts = 0 \/ t >= last_ts)
    BY <1>2 DEF Accepts, Documented, cq_guard_accept_ts
  <2>2. /\ gSnap' = d /\ last_ts' = (IF t = 0 THEN last_ts ELSE t)
        /\ best' = (IF t > best THEN t ELSE best)
        /\ auto' = AutoFlags(d, r[3])
        /\ starts' = (IF LaunchSends(d, r[3]) THEN starts + 1 ELSE starts)
    BY <1>2 DEF AdoptSnap
  <2>3. gSnap'.ts = t
    BY <2>2
  <2> HIDE DEF t
  <2>4. GuardInv' /\ (gSnap'.ts = 0 \/ gSnap'.ts >= best)
    BY <2>1, <2>2, <2>3 DEF GuardInv
  <2>5. LaunchInv'
    <3> HIDE DEF d
    <3>1. auto.first \in BOOLEAN /\ auto.pending \in BOOLEAN
      BY DEF LaunchInv
    <3>2. auto' \in [first : BOOLEAN, pending : BOOLEAN] /\ ~auto'.first
      BY <2>2 DEF AutoFlags
    <3>3. auto'.pending => /\ auto.pending \/ (auto.first /\ r[3] /\ d.state = "stopped")
      BY <2>2 DEF AutoFlags
    <3>4. CASE LaunchSends(d, r[3])
      <4>1. auto.first /\ starts = 0 /\ ~auto.pending /\ starts' = 1
        BY <2>2, <3>4 DEF LaunchSends, LaunchInv
      <4>2. ~auto'.pending
        BY <2>1, <3>3, <3>4, <4>1 DEF LaunchSends
      <4> QED BY <3>2, <4>1, <4>2 DEF LaunchInv
    <3>5. CASE ~LaunchSends(d, r[3])
      <4>1. starts' = starts /\ (auto'.pending => starts = 0)
        BY <2>2, <3>3, <3>5 DEF LaunchInv
      <4> QED BY <3>2, <4>1 DEF LaunchInv
    <3> QED BY <3>4, <3>5
  <2> QED BY <2>4, <2>5
<1> QED BY <1>1, <1>2

LEMMA RepliesKnown ==
  /\ \A sel : \A r \in Replies(sel) : Known(r) /\ Documented(r)
  /\ \A r \in {<<"error">>} \cup DocReplies : Known(r) /\ Documented(r)
<1>1. \A r \in DocReplies : Known(r) /\ Documented(r)
  <2> SUFFICES ASSUME NEW r \in DocReplies PROVE Known(r) /\ Documented(r)
    OBVIOUS
  <2> DEFINE S == IF auto.first THEN BOOLEAN ELSE {TRUE}
  <2>6. S \subseteq BOOLEAN
    OBVIOUS
  <2>1. r \in {"doc"} \X Docs \X S
    BY DEF DocReplies
  <2> HIDE DEF S
  <2>3. r[1] = "doc" /\ r[2] \in Docs /\ r[3] \in S
    BY <2>1
  <2>2. r[2].ts \in 0 .. MaxTs /\ MaxTs \in Nat
    BY <2>3, ReconcilerAssumption DEF Docs
  <2> QED BY <2>2, <2>3, <2>6 DEF Known, Documented
<1>2. \A r \in {<<"error">>, <<"not_found">>} : Known(r) /\ Documented(r)
  BY DEF Known, Documented
<1> QED BY <1>1, <1>2 DEF Replies

-----------------------------------------------------------------------------
LEMMA InitInv == Init => Inv
<1> SUFFICES ASSUME Init PROVE Inv
  OBVIOUS
<1>1. ch = [cmd |-> None, fire |-> None, act |-> None, fallback |-> NoTrack, native |-> 0]
  BY DEF Init
<1>2. OutInv
  BY <1>1 DEF Init, OutInv, Good, Side, None
<1>3. GuardInv
  BY DEF Init, GuardInv
<1>4. LaunchInv
  BY DEF Init, LaunchInv
<1>5. QueueInv
  BY DEF Init, QueueInv
<1> QED BY <1>2, <1>3, <1>4, <1>5 DEF Inv

(* A gesture of the user leaves a good side, and nothing else of what the   *)
(* invariant speaks of; a change of the server empties the side.            *)
LEMMA SendsInv ==
  ASSUME NEW c, NEW kind, Inv, Event(kind), Sends(c), Good(ch) => Good(c)
  PROVE  Inv'
<1>1. Good(c) /\ gHost' = gHost /\ ch' = c /\ gTx' = gTx
  BY DEF Inv, OutInv, Sends, hostVars
<1>2. Good(ch)'
  BY <1>1 DEF Good, Side
<1>3. OutInv'
  BY <1>1, <1>2 DEF Inv, OutInv
<1> QED BY <1>3 DEF Inv, GuardInv, LaunchInv, QueueInv, Sends, Event, queueVars, autoVars

LEMMA SameOutInv ==
  ASSUME OutInv, UNCHANGED <<ch, gTx, gHost>>
  PROVE  OutInv'
BY DEF OutInv, Good, Side

LEMMA HandleEventInv == Inv /\ HandleEvent => Inv'
<1> SUFFICES ASSUME Inv, HandleEvent PROVE Inv'
  OBVIOUS
<1>1. ASSUME NEW sel \in {<<"prev">>, <<"next">>}, Event("skip"), Debounced(sel) PROVE Inv'
  <2>1. UNCHANGED <<ch, gTx, gHost>>
    BY <1>1 DEF Debounced, hostVars
  <2>2. OutInv'
    BY <2>1, SameOutInv DEF Inv
  <2> QED BY <1>1, <2>2 DEF Inv, GuardInv, LaunchInv, QueueInv, Debounced, Event, queueVars, autoVars
<1>2. ASSUME NEW kind, NEW u, NEW rest, Event(kind), Sends(PlayFrom(ch, u, rest)) PROVE Inv'
  <2>1. Good(ch) => Good(PlayFrom(ch, u, rest))
    BY PlayFromGood
  <2> QED BY <1>2, <2>1, SendsInv
<1>3. ASSUME NEW kind, NEW sel, Event(kind), Sends(ActionCommand(ch, sel)), sel[1] # "from" PROVE Inv'
  <2>1. Good(ch) => Good(ActionCommand(ch, sel))
    BY <1>3, ActionGood
  <2> QED BY <1>3, <2>1, SendsInv
<1>4. CASE ClickPrev
  BY <1>1, <1>4 DEF ClickPrev
<1>5. CASE NextCommand
  BY <1>1, <1>2, <1>5 DEF NextCommand, PlayRow
<1>6. CASE TogglePlay
  <2> DEFINE sel == IF Playing(gSnap) THEN <<"pause">> ELSE <<"play">>
  <2>1. sel[1] # "from"
    OBVIOUS
  <2>2. Event("toggle") /\ Sends(ActionCommand(ch, sel))
    BY <1>6 DEF TogglePlay
  <2> HIDE DEF sel
  <2> QED BY <1>3, <2>1, <2>2
<1>7. CASE Immediate
  <2> DEFINE sel == <<"now">>
  <2>1. sel[1] # "from"
    OBVIOUS
  <2>2. Event("script") /\ Sends(StartCommand(ch, sel))
    BY <1>7 DEF Immediate
  <2> HIDE DEF sel
  <2>3. Good(ch) => Good(StartCommand(ch, sel))
    BY <2>1, StartCommandGood
  <2> QED BY <2>2, <2>3, SendsInv
<1>8. CASE DoubleClick
  BY <1>2, <1>8 DEF DoubleClick, PlayRow
<1>9. CASE PlayContextAlbum
  <2> DEFINE sel == <<"context">>
  <2>1. sel[1] # "from"
    OBVIOUS
  <2>2. Event("album") /\ Sends(ActionCommand(ch, sel))
    BY <1>9 DEF PlayContextAlbum
  <2> HIDE DEF sel
  <2> QED BY <1>3, <2>1, <2>2
<1>10. CASE ServerChange
  <2> DEFINE d == [ch EXCEPT !.cmd = None, !.fire = None]
  <2>1. ch' = d /\ gTx' = None /\ last_ts' = 0 /\ best' = 0 /\ gDeb' = gDeb
    BY <1>10 DEF ServerChange, ApplyServerChange
  <2>2. ch = [cmd |-> ch.cmd, fire |-> ch.fire, act |-> ch.act, fallback |-> ch.fallback,
              native |-> ch.native]
    BY DEF Inv, OutInv, Good, Side
  <2> DEFINE e == [ch EXCEPT !.cmd = None]
  <2>3. e = [cmd |-> None, fire |-> ch.fire, act |-> ch.act, fallback |-> ch.fallback,
             native |-> ch.native]
    BY <2>2
  <2>4. d = [e EXCEPT !.fire = None]
    BY <2>2
  <2> HIDE DEF d, e
  <2>5. d = [cmd |-> None, fire |-> None, act |-> ch.act, fallback |-> ch.fallback,
             native |-> ch.native]
    BY <2>3, <2>4
  <2>6. OutInv'
    BY <2>1, <2>5 DEF OutInv, Good, Side
  <2> QED BY <1>10, <2>1, <2>6 DEF ServerChange, Event, queueVars, autoVars, Inv, GuardInv,
        LaunchInv, QueueInv
<1> QED BY <1>4, <1>5, <1>6, <1>7, <1>8, <1>9, <1>10 DEF HandleEvent

(* What ends leaves a side with nothing in its place.                       *)
LEMMA CmdEmptied ==
  ASSUME NEW c, Side(c)
  PROVE  Good([c EXCEPT !.cmd = None])
BY DEF Good, Side

LEMMA CommandEndsInv == Inv /\ CommandEnds => Inv'
<1> SUFFICES ASSUME Inv, CommandEnds PROVE Inv'
  OBVIOUS
<1>1. UNCHANGED <<gTx, gHost, gQueueEmptyRuns, gDeb>> /\ Side(ch)
  BY DEF CommandEnds, CmdDone, CmdFailed, CmdLimb, queueVars, loopVars, hostVars, Inv, OutInv, Good
<1>2. ASSUME NEW c, Side(c), ch' = [c EXCEPT !.cmd = None] PROVE OutInv'
  <2>1. Good([c EXCEPT !.cmd = None])
    BY <1>2, CmdEmptied
  <2>2. Good(ch')
    BY <1>2, <2>1
  <2> QED BY <1>1, <2>2 DEF Inv, OutInv, Good, Side
<1>3. CASE CmdDone
  <2>1. PICK r \in Replies(ch.cmd[1]) :
          AdoptSnap(r) /\ ch' = [AdoptOut(ch, TRUE, r) EXCEPT !.cmd = None]
    BY <1>3 DEF CmdDone
  <2>2. Known(r) /\ Documented(r)
    BY RepliesKnown
  <2>3. Side(AdoptOut(ch, TRUE, r))
    BY <1>1, <2>2, AdoptSide
  <2>4. OutInv'
    BY <1>2, <2>1, <2>3
  <2>5. GuardInv' /\ LaunchInv'
    BY <2>1, <2>2, AdoptSnapInv DEF Inv
  <2> QED BY <1>1, <2>4, <2>5 DEF Inv, QueueInv
<1>4. CASE CmdFailed
  <2>1. OutInv'
    BY <1>1, <1>2, <1>4 DEF CmdFailed
  <2> QED BY <1>1, <1>4, <2>1 DEF CmdFailed, snapVars, autoVars, Inv, GuardInv, LaunchInv, QueueInv
<1> QED BY <1>3, <1>4 DEF CommandEnds

LEMMA PollInv == Inv /\ Poll => Inv'
<1> SUFFICES ASSUME Inv, Poll PROVE Inv'
  OBVIOUS
<1>1. gHost' = gHost /\ gQueueEmptyRuns' = gQueueEmptyRuns /\ gDeb' = gDeb
  BY DEF Poll, PollStarts, PollDone, PollFailed, PollLimb, queueVars, loopVars, hostVars
<1>2. CASE PollStarts
  BY <1>1, <1>2 DEF PollStarts, PollLimb, snapVars, autoVars, Inv, OutInv, Good, Side, GuardInv,
    LaunchInv, QueueInv
<1>3. CASE PollDone
  <2>1. PICK r \in {<<"error">>} \cup DocReplies : AdoptSnap(r) /\ ch' = AdoptOut(ch, FALSE, r)
    BY <1>3 DEF PollDone
  <2>2. Known(r) /\ Documented(r)
    BY RepliesKnown
  <2>3. Good(AdoptOut(ch, FALSE, r))
    BY <2>2, AdoptGood DEF Inv, OutInv
  <2>4. Good(ch')
    BY <2>1, <2>3
  <2>5. OutInv'
    BY <1>1, <1>3, <2>4 DEF PollDone, OutInv, Good, Side, None
  <2>6. GuardInv' /\ LaunchInv'
    BY <2>1, <2>2, AdoptSnapInv DEF Inv
  <2> QED BY <1>1, <2>5, <2>6 DEF Inv, QueueInv
<1>4. CASE PollFailed
  BY <1>1, <1>4 DEF PollFailed, PollLimb, snapVars, autoVars, Inv, OutInv, Good, Side, GuardInv,
    LaunchInv, QueueInv
<1> QED BY <1>2, <1>3, <1>4 DEF Poll

LEMMA QueueDoneInv == Inv /\ QueueDone => Inv'
<1> SUFFICES ASSUME Inv, QueueDone PROVE Inv'
  OBVIOUS
<1>1. UNCHANGED <<gTx, gHost, last_ts, best, gDeb>>
  BY DEF QueueDone, AuxLimb, snapVars, loopVars, hostVars
<1>2. CASE QueueEmpty
  <2>1. OutInv'
    BY <1>1, <1>2, SameOutInv DEF QueueEmpty, Inv
  <2>2. QueueInv'
    BY <1>1, <1>2 DEF QueueEmpty, Inv, QueueInv
  <2> QED BY <1>1, <1>2, <2>1, <2>2 DEF QueueEmpty, autoVars, Inv, GuardInv, LaunchInv
<1>3. ASSUME NEW q \in Queues \ {<<>>}, QueueRows(q) PROVE Inv'
  <2>1. Good(PlayRow(ch, q, 1)) /\ Good(ch)
    BY PlayFromGood DEF PlayRow, Inv, OutInv
  <2>2. Good(ch')
    BY <1>3, <2>1 DEF QueueRows
  <2>3. OutInv'
    BY <1>1, <2>2 DEF Inv, OutInv, Good, Side
  <2>4. LaunchInv'
    <3>1. auto' = [auto EXCEPT !.pending = FALSE] /\ (starts' = starts \/ (auto.pending /\ starts' = starts + 1))
      BY <1>3 DEF QueueRows
    <3>2. auto' \in [first : BOOLEAN, pending : BOOLEAN] /\ auto'.first = auto.first /\ ~auto'.pending
      BY <3>1 DEF Inv, LaunchInv
    <3> QED BY <3>1, <3>2 DEF Inv, LaunchInv
  <2> QED BY <1>1, <1>3, <2>3, <2>4 DEF QueueRows, Inv, GuardInv, QueueInv
<1> QED BY <1>2, <1>3 DEF QueueDone

LEMMA NextInv == Inv /\ [Next]_vars => Inv'
<1> SUFFICES ASSUME Inv, [Next]_vars PROVE Inv'
  OBVIOUS
<1>1. CASE HandleEvent
  BY <1>1, HandleEventInv
<1>2. CASE WindowOver
  <2>1. Good(ch)'
    BY <1>2 DEF WindowOver, loopVars, hostVars, Inv, OutInv, Good, Side
  <2> QED BY <1>2, <2>1 DEF WindowOver, snapVars, queueVars, autoVars, loopVars, hostVars, Inv, OutInv,
        GuardInv, LaunchInv, QueueInv
<1>3. CASE CommandEnds
  BY <1>3, CommandEndsInv
<1>4. CASE Flush
  <2>1. ch' = StartCommand(ch, gDeb) /\ UNCHANGED <<gTx, gHost>>
    BY <1>4 DEF Flush, loopVars, hostVars
  <2>2. gDeb[1] # "from"
    BY <1>4 DEF Flush, Inv, QueueInv
  <2>3. Good(StartCommand(ch, gDeb))
    BY <2>2, StartCommandGood DEF Inv, OutInv
  <2>4. OutInv'
    BY <2>1, <2>3 DEF Inv, OutInv, Good, Side
  <2> QED BY <1>4, <2>4 DEF Flush, snapVars, queueVars, autoVars, Inv, GuardInv, LaunchInv, QueueInv
<1>5. CASE Poll
  BY <1>5, PollInv
<1>6. CASE FireEnds
  <2>1. Good(ch)'
    BY <1>6 DEF FireEnds, AuxLimb, loopVars, hostVars, Inv, OutInv, Good, Side
  <2> QED BY <1>6, <2>1 DEF FireEnds, AuxLimb, snapVars, queueVars, autoVars, loopVars, hostVars, Inv,
        OutInv, GuardInv, LaunchInv, QueueInv
<1>7. CASE QueueDone
  BY <1>7, QueueDoneInv
<1>8. CASE UNCHANGED vars
  BY <1>8, SameOutInv DEF vars, snapVars, queueVars, autoVars, loopVars, hostVars, Inv, GuardInv,
    LaunchInv, QueueInv
<1> QED BY <1>1, <1>2, <1>3, <1>4, <1>5, <1>6, <1>7, <1>8 DEF Next

-----------------------------------------------------------------------------
(* The types: what is sent has been listed.                                 *)
Uris == Tracks \cup Hits

(* What the channels hold, one field at a time.                             *)
LEMMA ChannelsWith ==
  ASSUME NEW c \in Channels
  PROVE  /\ \A x \in {None} \cup (Selectors \X (1 .. MaxHosts)) : [c EXCEPT !.cmd = x] \in Channels
         /\ \A x \in {None} \cup (Fires \X (1 .. MaxHosts)) : [c EXCEPT !.fire = x] \in Channels
         /\ \A x \in {None} \cup Selectors \cup Fires : [c EXCEPT !.act = x] \in Channels
         /\ \A x \in Uris \cup {NoTrack} : [c EXCEPT !.fallback = x] \in Channels
         /\ \A x \in {-1, 0, 1} : [c EXCEPT !.native = x] \in Channels
BY DEF Channels, Uris

LEMMA StartCommandTyped ==
  ASSUME NEW c \in Channels, NEW sel \in Selectors, gHost \in 1 .. MaxHosts
  PROVE  StartCommand(c, sel) \in Channels
<1>1. <<sel, gHost>> \in Selectors \X (1 .. MaxHosts)
  OBVIOUS
<1> QED BY <1>1, ChannelsWith DEF StartCommand

LEMMA StartFireTyped ==
  ASSUME NEW c \in Channels, NEW u \in Uris, gHost \in 1 .. MaxHosts
  PROVE  PlayItem(c, u) \in Channels
<1> DEFINE sel == <<"play1", u>>
           d == [c EXCEPT !.act = sel]
           fire == IF c.fire = None THEN <<sel, gHost>> ELSE c.fire
<1>1. sel \in Fires
  BY DEF Fires, Uris
<1> HIDE DEF sel
<1>2. d \in Channels
  BY <1>1, ChannelsWith
<1>3. c.fire \in {None} \cup (Fires \X (1 .. MaxHosts))
  BY DEF Channels
<1>4. fire \in {None} \cup (Fires \X (1 .. MaxHosts))
  BY <1>1, <1>3
<1>5. [c EXCEPT !.act = sel, !.fire = IF @ = None THEN <<sel, gHost>> ELSE @]
        = [d EXCEPT !.fire = fire]
  BY DEF Channels
<1> HIDE DEF d, fire
<1>6. [d EXCEPT !.fire = fire] \in Channels
  BY <1>2, <1>4, ChannelsWith
<1>7. StartFire(c, sel) \in Channels
  BY <1>5, <1>6 DEF StartFire
<1> QED BY <1>7 DEF PlayItem, sel

LEMMA ActionTyped ==
  ASSUME NEW c \in Channels, NEW sel \in Selectors, gHost \in 1 .. MaxHosts
  PROVE  ActionCommand(c, sel) \in Channels
<1> DEFINE d == [c EXCEPT !.act = sel]
<1>1. d \in Channels
  BY ChannelsWith
<1> HIDE DEF d
<1>2. StartCommand(d, sel) \in Channels
  BY <1>1, StartCommandTyped
<1> QED BY <1>2 DEF ActionCommand, d

LEMMA PlayFromTyped ==
  ASSUME NEW c \in Channels, NEW u \in Uris, NEW rest \in Rests, gHost \in 1 .. MaxHosts
  PROVE  PlayFrom(c, u, rest) \in Channels
<1> DEFINE d == [c EXCEPT !.fallback = u]
           sel == <<"from", u, rest>>
<1>1. d \in Channels
  BY ChannelsWith
<1>2. sel \in Selectors
  BY DEF Selectors, Uris
<1> HIDE DEF d, sel
<1>3. ActionCommand(d, sel) \in Channels
  BY <1>1, <1>2, ActionTyped
<1>4. PlayItem(c, u) \in Channels
  BY StartFireTyped
<1> QED BY <1>3, <1>4 DEF PlayFrom, d, sel

(* A queue is a sequence of tracks, and so is what is behind a row of it.   *)
LEMMA QueueSeq ==
  ASSUME NEW q \in Queues
  PROVE  /\ q \in Seq(Tracks) /\ Len(q) \in Nat /\ DOMAIN q = 1 .. Len(q)
         /\ \A k \in 1 .. Len(q) + 1 : SubSeq(q, k, Len(q)) \in Rests
         /\ q \in Rests
<1>1. PICK n \in Lengths : q \in [1 .. n -> Tracks]
  BY DEF Queues
<1>2. n \in Nat
  BY ReconcilerAssumption
<1>3. q \in Seq(Tracks) /\ Len(q) = n /\ DOMAIN q = 1 .. n
  BY <1>1, <1>2
<1>4. \A k \in 1 .. Len(q) + 1 : SubSeq(q, k, Len(q)) \in Rests
  BY DEF Rests
<1>5. SubSeq(q, 1, Len(q)) = q /\ 1 \in 1 .. Len(q) + 1
  BY <1>2, <1>3
<1>6. q \in Rests
  BY <1>4, <1>5
<1> QED BY <1>2, <1>3, <1>4, <1>6

LEMMA PlayRowTyped ==
  ASSUME NEW c \in Channels, NEW q \in Queues, NEW row \in DOMAIN q, gHost \in 1 .. MaxHosts
  PROVE  PlayRow(c, q, row) \in Channels
<1>1. q[row] \in Uris
  BY QueueSeq DEF Uris
<1>2. row + 1 \in 1 .. Len(q) + 1
  BY QueueSeq
<1>3. SubSeq(q, row + 1, Len(q)) \in Rests
  BY <1>2, QueueSeq
<1> QED BY <1>1, <1>3, PlayFromTyped DEF PlayRow

(* The next row is a row, or none.                                          *)
LEMMA NextRowIsRow ==
  ASSUME NEW q \in Queues, QueueNextRow(q) # 0
  PROVE  QueueNextRow(q) \in DOMAIN q
<1> DEFINE at == {i \in DOMAIN q : q[i] = gSnap.track}
           first == CHOOSE i \in at : \A j \in at : i <= j
<1>1. Len(q) \in Nat /\ DOMAIN q = 1 .. Len(q)
  BY QueueSeq
<1>2. QueueNextRow(q) = IF q = <<>> THEN 0 ELSE IF at = {} THEN 1
                        ELSE IF first < Len(q) THEN first + 1 ELSE 0
  BY DEF QueueNextRow
<1>3. q # <<>> => 1 \in DOMAIN q
  <2>1. q \in Seq(Tracks)
    BY QueueSeq
  <2> QED BY <1>1, <2>1
<1>4. at # {} => first \in at
  <2> SUFFICES ASSUME at # {} PROVE \E i \in at : \A j \in at : i <= j
    OBVIOUS
  <2>1. at \subseteq Nat /\ at # {}
    BY <1>1
  <2> HIDE DEF at
  <2>2. PICK i \in at : \A j \in at : ~(<<j, i>> \in OpToRel(<, Nat))
    BY <2>1, WFMin, NatLessThanWellFounded
  <2>3. \A j \in at : ~(j < i)
    BY <2>1, <2>2 DEF OpToRel
  <2> QED BY <2>1, <2>3
<1>5. at \subseteq 1 .. Len(q)
  BY <1>1
<1> HIDE DEF at, first
<1>6. CASE q # <<>> /\ at = {}
  BY <1>2, <1>3, <1>6
<1>7. CASE q # <<>> /\ at # {} /\ first < Len(q)
  <2>1. QueueNextRow(q) = first + 1
    BY <1>2, <1>7
  <2>2. first \in 1 .. Len(q) /\ first < Len(q)
    BY <1>4, <1>5, <1>7
  <2>3. first + 1 \in 1 .. Len(q)
    BY <1>1, <2>2
  <2> QED BY <1>1, <2>1, <2>3
<1> QED BY <1>2, <1>6, <1>7

(* The helpers of AdoptReply; the fallback is played only if there is one.  *)
LEMMA AdoptHelpersTyped ==
  ASSUME NEW c \in Channels, NEW d, NEW active, gHost \in 1 .. MaxHosts, gQueueItems \in Queues
  PROVE  AutoStart(Watchdog(c, d), d, active) \in Channels
<1>1. Watchdog(c, d) \in Channels
  BY NextRowIsRow, PlayRowTyped DEF Watchdog
<1>2. <<"now">> \in Selectors
  BY DEF Selectors
<1> QED BY <1>1, <1>2, StartCommandTyped DEF AutoStart

LEMMA AdoptTyped ==
  ASSUME NEW c \in Channels, NEW r, NEW isCmd \in BOOLEAN, Known(r),
         gHost \in 1 .. MaxHosts, gQueueItems \in Queues
  PROVE  AdoptOut(c, isCmd, r) \in Channels
<1>1. Healthy(c) \in Channels
  <2> DEFINE e == [c EXCEPT !.native = 1]
  <2>1. e \in Channels /\ [c EXCEPT !.native = 1, !.fallback = NoTrack] = [e EXCEPT !.fallback = NoTrack]
    BY ChannelsWith DEF Channels
  <2> HIDE DEF e
  <2> QED BY <2>1, ChannelsWith DEF Healthy
<1>2. Asked(c, isCmd) => NotFound(c) \in Channels
  <2> DEFINE e == [c EXCEPT !.native = -1]
             n == [e EXCEPT !.fallback = NoTrack]
  <2>1. e \in Channels /\ [c EXCEPT !.native = -1, !.fallback = NoTrack] = n
    BY ChannelsWith DEF Channels
  <2>2. c.fallback \in Uris \cup {NoTrack}
    BY DEF Channels, Uris
  <2> HIDE DEF e
  <2>3. n \in Channels
    BY <2>1, ChannelsWith
  <2> HIDE DEF n
  <2> QED BY <2>1, <2>2, <2>3, StartFireTyped DEF NotFound, Asked
<1>3. /\ AutoStart(Watchdog(c, r[2]), r[2], r[3]) \in Channels
      /\ AutoStart(Watchdog(Healthy(c), r[2]), r[2], r[3]) \in Channels
  BY <1>1, AdoptHelpersTyped
<1>4. CASE r[1] = "error"
  BY <1>4 DEF AdoptOut
<1>5. CASE r[1] = "not_found"
  BY <1>2, <1>5 DEF AdoptOut
<1>6. CASE r[1] = "doc"
  BY <1>1, <1>3, <1>6 DEF AdoptOut
<1> QED BY <1>4, <1>5, <1>6 DEF Known

(* The snapshot's side keeps its types.                                     *)
LEMMA AdoptSnapTyped ==
  ASSUME TypeOK, NEW r, r[1] = "doc" => r[2] \in Docs /\ r[3] \in BOOLEAN, AdoptSnap(r)
  PROVE  /\ gSnap' \in Docs /\ last_ts' \in 0 .. MaxTs /\ best' \in 0 .. MaxTs
         /\ auto' \in [first : BOOLEAN, pending : BOOLEAN] /\ starts' \in Nat
<1>0. /\ gSnap \in Docs /\ last_ts \in 0 .. MaxTs /\ best \in 0 .. MaxTs
      /\ auto \in [first : BOOLEAN, pending : BOOLEAN] /\ starts \in Nat
  BY DEF TypeOK
<1>1. CASE ~Accepts(r)
  BY <1>0, <1>1 DEF AdoptSnap, snapVars, autoVars
<1>2. CASE Accepts(r)
  <2> DEFINE d == r[2]
  <2>1. d \in Docs /\ r[3] \in BOOLEAN
    BY <1>2 DEF Accepts
  <2>2. d.ts \in 0 .. MaxTs
    BY <2>1 DEF Docs
  <2>3. /\ gSnap' = d /\ last_ts' = (IF d.ts = 0 THEN last_ts ELSE d.ts)
        /\ best' = (IF d.ts > best THEN d.ts ELSE best)
        /\ auto' = AutoFlags(d, r[3])
        /\ starts' = (IF LaunchSends(d, r[3]) THEN starts + 1 ELSE starts)
    BY <1>2 DEF AdoptSnap
  <2> HIDE DEF d
  <2>4. auto' \in [first : BOOLEAN, pending : BOOLEAN]
    BY <1>0, <2>1, <2>3 DEF AutoFlags
  <2> QED BY <1>0, <2>1, <2>2, <2>3, <2>4
<1> QED BY <1>1, <1>2

LEMMA RepliesTyped ==
  /\ \A sel : \A r \in Replies(sel) : r[1] = "doc" => r[2] \in Docs /\ r[3] \in BOOLEAN
  /\ \A r \in {<<"error">>} \cup DocReplies : r[1] = "doc" => r[2] \in Docs /\ r[3] \in BOOLEAN
<1> DEFINE S == IF auto.first THEN BOOLEAN ELSE {TRUE}
<1>1. S \subseteq BOOLEAN /\ DocReplies = {"doc"} \X Docs \X S
  BY DEF DocReplies
<1> HIDE DEF S
<1>2. \A r \in DocReplies : r[2] \in Docs /\ r[3] \in BOOLEAN
  BY <1>1
<1>3. \A r \in {<<"error">>, <<"not_found">>} : r[1] # "doc"
  OBVIOUS
<1> QED BY <1>2, <1>3 DEF Replies

LEMMA InitTyped == Init => TypeOK
<1> SUFFICES ASSUME Init PROVE TypeOK
  OBVIOUS
<1>1. ch \in Channels
  BY DEF Init, Channels
<1>2. MaxTs \in Nat /\ MaxActs \in Nat /\ MaxHosts \in Nat \ {0} /\ 0 \in Lengths
  BY ReconcilerAssumption
<1>3. gSnap \in Docs
  BY <1>2 DEF Init, Docs
<1>4. gQueueItems \in Queues
  <2>1. <<>> \in [1 .. 0 -> Tracks]
    OBVIOUS
  <2> QED BY <1>2, <2>1 DEF Init, Queues
<1>5. auto \in [first : BOOLEAN, pending : BOOLEAN]
  BY DEF Init
<1> QED BY <1>1, <1>2, <1>3, <1>4, <1>5 DEF Init, TypeOK

(* What a step leaves alone keeps its type.                                 *)
LEMMA EventTyped == TypeOK /\ HandleEvent => TypeOK'
<1> SUFFICES ASSUME TypeOK, HandleEvent PROVE TypeOK'
  OBVIOUS
<1>1. ch \in Channels /\ gHost \in 1 .. MaxHosts /\ gQueueItems \in Queues
  BY DEF TypeOK
<1>2. UNCHANGED <<gSnap, queueVars, autoVars>> /\ acts' \in 0 .. MaxActs
  <2>1. acts < MaxActs /\ acts' = acts + 1 /\ UNCHANGED <<gSnap, queueVars, autoVars>>
    BY DEF HandleEvent, ClickPrev, NextCommand, TogglePlay, Immediate, DoubleClick,
      PlayContextAlbum, ServerChange, Event
  <2>2. acts \in 0 .. MaxActs /\ MaxActs \in Nat
    BY ReconcilerAssumption DEF TypeOK
  <2> QED BY <2>1, <2>2
<1>3. ASSUME NEW c \in Channels, Sends(c) PROVE TypeOK'
  BY <1>2, <1>3 DEF Sends, hostVars, queueVars, autoVars, TypeOK
<1>4. ASSUME NEW sel \in {<<"prev">>, <<"next">>}, Debounced(sel) PROVE TypeOK'
  BY <1>2, <1>4 DEF Debounced, hostVars, queueVars, autoVars, TypeOK
<1>5. {<<"play">>, <<"pause">>, <<"now">>, <<"context">>} \subseteq Selectors
  BY DEF Selectors
<1>6. CASE ClickPrev
  BY <1>4, <1>6 DEF ClickPrev
<1>7. CASE NextCommand
  BY <1>1, <1>3, <1>4, <1>7, NextRowIsRow, PlayRowTyped DEF NextCommand
<1>8. CASE TogglePlay
  <2> DEFINE sel == IF Playing(gSnap) THEN <<"pause">> ELSE <<"play">>
  <2>1. sel \in Selectors /\ Sends(ActionCommand(ch, sel))
    BY <1>5, <1>8 DEF TogglePlay
  <2> HIDE DEF sel
  <2> QED BY <1>1, <1>3, <2>1, ActionTyped
<1>9. CASE Immediate
  BY <1>1, <1>3, <1>5, <1>9, StartCommandTyped DEF Immediate
<1>10. CASE DoubleClick
  <2>1. CASE \E row \in DOMAIN gQueueItems : Sends(PlayRow(ch, gQueueItems, row))
    BY <1>1, <1>3, <2>1, PlayRowTyped
  <2>2. CASE \E u \in Hits : Sends(PlayFrom(ch, u, gQueueItems))
    <3>1. PICK u \in Uris : Sends(PlayFrom(ch, u, gQueueItems))
      BY <2>2 DEF Uris
    <3>2. gQueueItems \in Rests
      BY <1>1, QueueSeq
    <3> QED BY <1>1, <1>3, <3>1, <3>2, PlayFromTyped
  <2> QED BY <1>10, <2>1, <2>2 DEF DoubleClick
<1>11. CASE PlayContextAlbum
  BY <1>1, <1>3, <1>5, <1>11, ActionTyped DEF PlayContextAlbum
<1>12. CASE ServerChange
  <2> DEFINE e == [ch EXCEPT !.cmd = None]
  <2>1. e \in Channels /\ [ch EXCEPT !.cmd = None, !.fire = None] = [e EXCEPT !.fire = None]
    BY <1>1, ChannelsWith DEF Channels
  <2> HIDE DEF e
  <2>2. [e EXCEPT !.fire = None] \in Channels
    BY <2>1, ChannelsWith
  <2>3. ch' \in Channels
    BY <1>12, <2>1, <2>2 DEF ServerChange, ApplyServerChange
  <2>4. MaxTs \in Nat /\ MaxHosts \in Nat
    BY ReconcilerAssumption
  <2>5. gHost' \in 1 .. MaxHosts /\ gTx' = None /\ last_ts' = 0 /\ best' = 0
        /\ gDeb' = gDeb /\ speaks' \in BOOLEAN
    BY <1>1, <1>12, <2>4 DEF ServerChange, ApplyServerChange
  <2> QED BY <1>2, <2>3, <2>4, <2>5 DEF queueVars, autoVars, TypeOK
<1> QED BY <1>6, <1>7, <1>8, <1>9, <1>10, <1>11, <1>12 DEF HandleEvent

LEMMA NextTyped == TypeOK /\ [Next]_vars => TypeOK'
<1> SUFFICES ASSUME TypeOK, [Next]_vars PROVE TypeOK'
  OBVIOUS
<1>1. ch \in Channels /\ gHost \in 1 .. MaxHosts /\ gQueueItems \in Queues
  BY DEF TypeOK
<1>2. CASE HandleEvent
  BY <1>2, EventTyped
<1>3. CASE WindowOver \/ FireEnds
  <2>1. ch' \in Channels
    BY <1>1, <1>3, ChannelsWith DEF WindowOver, FireEnds
  <2> QED BY <1>3, <2>1 DEF WindowOver, FireEnds, AuxLimb, snapVars, queueVars, autoVars,
        loopVars, hostVars, TypeOK
<1>4. CASE CmdDone
  <2>1. PICK r \in Replies(ch.cmd[1]) :
          AdoptSnap(r) /\ ch' = [AdoptOut(ch, TRUE, r) EXCEPT !.cmd = None]
    BY <1>4 DEF CmdDone
  <2>2. Known(r) /\ (r[1] = "doc" => r[2] \in Docs /\ r[3] \in BOOLEAN)
    BY RepliesKnown, RepliesTyped
  <2> DEFINE c == AdoptOut(ch, TRUE, r)
  <2>3. c \in Channels
    BY <1>1, <2>2, AdoptTyped
  <2>4. ch' = [c EXCEPT !.cmd = None]
    BY <2>1
  <2> HIDE DEF c
  <2>5. ch' \in Channels
    BY <2>3, <2>4, ChannelsWith
  <2>6. /\ gSnap' \in Docs /\ last_ts' \in 0 .. MaxTs /\ best' \in 0 .. MaxTs
        /\ auto' \in [first : BOOLEAN, pending : BOOLEAN] /\ starts' \in Nat
    BY <2>1, <2>2, AdoptSnapTyped
  <2> QED BY <1>4, <2>5, <2>6 DEF CmdDone, CmdLimb, queueVars, loopVars, hostVars, TypeOK
<1>5. CASE CmdFailed
  <2>1. ch' \in Channels
    BY <1>1, <1>5, ChannelsWith DEF CmdFailed
  <2> QED BY <1>5, <2>1 DEF CmdFailed, CmdLimb, snapVars, queueVars, autoVars, loopVars, hostVars,
        TypeOK
<1>6. CASE Flush
  <2>1. gDeb \in Selectors
    BY <1>6 DEF Flush, TypeOK, Selectors
  <2>2. ch' \in Channels
    BY <1>1, <1>6, <2>1, StartCommandTyped DEF Flush
  <2> QED BY <1>6, <2>2 DEF Flush, snapVars, queueVars, autoVars, loopVars, hostVars, TypeOK
<1>7. CASE PollStarts \/ PollFailed
  BY <1>7 DEF PollStarts, PollFailed, PollLimb, snapVars, queueVars, autoVars, loopVars,
    hostVars, TypeOK
<1>8. CASE PollDone
  <2>1. PICK r \in {<<"error">>} \cup DocReplies : AdoptSnap(r) /\ ch' = AdoptOut(ch, FALSE, r)
    BY <1>8 DEF PollDone
  <2>2. Known(r) /\ (r[1] = "doc" => r[2] \in Docs /\ r[3] \in BOOLEAN)
    BY RepliesKnown, RepliesTyped
  <2>3. ch' \in Channels
    BY <1>1, <2>1, <2>2, AdoptTyped
  <2>4. /\ gSnap' \in Docs /\ last_ts' \in 0 .. MaxTs /\ best' \in 0 .. MaxTs
        /\ auto' \in [first : BOOLEAN, pending : BOOLEAN] /\ starts' \in Nat
    BY <2>1, <2>2, AdoptSnapTyped
  <2> QED BY <1>8, <2>3, <2>4 DEF PollDone, PollLimb, queueVars, loopVars, hostVars, TypeOK
<1>9. CASE AuxLimb /\ QueueEmpty
  <2>1. <<>> \in Queues
    <3>1. <<>> \in [1 .. 0 -> Tracks] /\ 0 \in Lengths
      BY ReconcilerAssumption
    <3> QED BY <3>1 DEF Queues
  <2>2. gQueueItems' \in Queues /\ gQueueEmptyRuns' \in 0 .. 2
    BY <1>1, <1>9, <2>1 DEF QueueEmpty, TypeOK
  <2> QED BY <1>9, <2>2 DEF QueueEmpty, AuxLimb, snapVars, autoVars, loopVars, hostVars, TypeOK
<1>10. ASSUME NEW q \in Queues \ {<<>>}, AuxLimb, QueueRows(q) PROVE TypeOK'
  <2>1. 1 \in DOMAIN q
    <3>1. q \in Seq(Tracks) /\ q # <<>>
      BY QueueSeq
    <3> QED BY <3>1
  <2>2. ch' \in Channels
    BY <1>1, <1>10, <2>1, PlayRowTyped DEF QueueRows
  <2>3. auto' \in [first : BOOLEAN, pending : BOOLEAN] /\ starts' \in Nat
    <3>1. auto \in [first : BOOLEAN, pending : BOOLEAN] /\ starts \in Nat
      BY DEF TypeOK
    <3>2. auto' = [auto EXCEPT !.pending = FALSE] /\ starts' \in {starts, starts + 1}
      BY <1>10 DEF QueueRows
    <3>3. starts' \in Nat
      BY <3>1, <3>2
    <3>4. [auto EXCEPT !.pending = FALSE] \in [first : BOOLEAN, pending : BOOLEAN]
      BY <3>1
    <3> QED BY <3>2, <3>3, <3>4
  <2>4. gQueueItems' \in Queues /\ gQueueEmptyRuns' \in 0 .. 2
    BY <1>10 DEF QueueRows
  <2>5. UNCHANGED <<gTx, snapVars, gDeb, loopVars>>
    BY <1>10 DEF AuxLimb
  <2> QED BY <2>2, <2>3, <2>4, <2>5 DEF snapVars, loopVars, hostVars, TypeOK
<1>11. CASE UNCHANGED vars
  BY <1>11 DEF vars, snapVars, queueVars, autoVars, loopVars, hostVars, TypeOK
<1> QED BY <1>2, <1>3, <1>4, <1>5, <1>6, <1>7, <1>8, <1>9, <1>10, <1>11
    DEF Next, CommandEnds, Poll, QueueDone

(* TypeOK, inductive by itself: whatever the replies, what goes out is a    *)
(* uri that a queue or a search listed, and the fallback that is played is  *)
(* one too.                                                                 *)
THEOREM TypeCorrect == Spec => []TypeOK
<1> QED BY InitTyped, NextTyped, PTL DEF Spec

-----------------------------------------------------------------------------
(* The inductive invariant.                                                 *)
THEOREM Invariant == Spec => []Inv
<1> QED BY InitInv, NextInv, PTL DEF Spec

(* No reply of a server that was left can arrive: nothing in flight is its. *)
THEOREM InFlightCurrent == Spec => []InFlightIsCurrent
<1>1. Inv => InFlightIsCurrent
  BY DEF Inv, OutInv, Good, Side, InFlightIsCurrent
<1> QED BY Invariant, <1>1, PTL

(* The not_found of a play/from falls back to what that play/from was for,  *)
(* and nothing is played without a uri.                                     *)
THEOREM FallbackRight == Spec => []FallbackIsWhatWasClicked
<1>1. ASSUME Inv, TypeOK PROVE FallbackIsWhatWasClicked
  <2>1. ch.cmd # None /\ ch.cmd[1][1] = "from" => ch.fallback = ch.cmd[1][2]
    BY <1>1 DEF Inv, OutInv, Good
  <2>2. ch.fire # None => ch.fire \in Fires \X (1 .. MaxHosts)
    BY <1>1 DEF TypeOK, Channels
  <2>3. \A f \in Fires : f[2] # NoTrack
    BY ReconcilerAssumption DEF Fires
  <2> QED BY <2>1, <2>2, <2>3 DEF FallbackIsWhatWasClicked
<1> QED BY Invariant, TypeCorrect, <1>1, PTL

(* A launch starts playback by itself once, whatever arrives afterwards.    *)
THEOREM LaunchOnce == Spec => []LaunchStartsOnce
<1>1. Inv => LaunchStartsOnce
  BY DEF Inv, LaunchInv, LaunchStartsOnce
<1> QED BY Invariant, <1>1, PTL

-----------------------------------------------------------------------------
(* The limbs that leave the snapshot, the queue shown and the debounced     *)
(* skip alone.                                                              *)
LEMMA EventLeaves == HandleEvent => gSnap' = gSnap /\ gQueueItems' = gQueueItems
BY DEF HandleEvent, ClickPrev, NextCommand, TogglePlay, Immediate, DoubleClick, PlayContextAlbum,
  ServerChange, Event, queueVars

LEMMA EventDebounces == HandleEvent /\ gDeb # None => gDeb' # None
<1> SUFFICES ASSUME HandleEvent, gDeb # None PROVE gDeb' # None
  OBVIOUS
<1>1. ASSUME NEW c, Sends(c) PROVE gDeb' # None
  BY <1>1 DEF Sends
<1>2. CASE ClickPrev
  BY <1>2 DEF ClickPrev, Debounced, None
<1>3. CASE NextCommand
  BY <1>1, <1>3 DEF NextCommand, Debounced, None
<1>4. CASE TogglePlay \/ Immediate \/ DoubleClick \/ PlayContextAlbum
  BY <1>1, <1>4 DEF TogglePlay, Immediate, DoubleClick, PlayContextAlbum
<1>5. CASE ServerChange
  BY <1>5 DEF ServerChange, ApplyServerChange
<1> QED BY <1>2, <1>3, <1>4, <1>5 DEF HandleEvent

(* The snapshot never goes back to a document older than one adopted of the *)
(* same server, whichever channel brings it.                                *)
THEOREM NoRollBack == Spec => SnapNeverRollsBack
<1> DEFINE A == gSnap' # gSnap => gSnap'.ts = 0 \/ gSnap'.ts >= best
<1>1. ASSUME Inv, [Next]_vars PROVE A
  <2>1. ASSUME NEW r, Known(r), Documented(r), AdoptSnap(r) PROVE A
    BY <1>1, <2>1, AdoptSnapInv DEF Inv
  <2>2. CASE HandleEvent
    BY <2>2, EventLeaves
  <2>3. CASE CommandEnds
    BY <2>1, <2>3, RepliesKnown DEF CommandEnds, CmdDone, CmdFailed, snapVars
  <2>4. CASE Poll
    BY <2>1, <2>4, RepliesKnown DEF Poll, PollStarts, PollDone, PollFailed, snapVars
  <2>5. CASE WindowOver \/ Flush \/ FireEnds \/ QueueDone \/ UNCHANGED vars
    BY <2>5 DEF WindowOver, Flush, FireEnds, QueueDone, AuxLimb, vars, snapVars
  <2> HIDE DEF A
  <2> QED BY <1>1, <2>2, <2>3, <2>4, <2>5 DEF Next
<1>2. Inv /\ [Next]_vars => [A]_vars
  BY <1>1
<1> QED BY <1>2, Invariant, PTL DEF Spec, SnapNeverRollsBack

(* The queue shown goes only when an empty one follows an empty one.        *)
THEOREM EmptyTwice == Spec => OneEmptyIsNotBelieved
<1> DEFINE A == gQueueItems # <<>> /\ gQueueItems' = <<>> => gQueueEmptyRuns >= 1
<1>1. ASSUME Inv, [Next]_vars PROVE A
  <2>1. CASE QueueDone
    BY <1>1, <2>1 DEF QueueDone, QueueEmpty, QueueRows, Inv, QueueInv
  <2>2. CASE HandleEvent
    BY <2>2, EventLeaves
  <2>3. CASE CommandEnds
    BY <2>3 DEF CommandEnds, CmdDone, CmdFailed, CmdLimb, queueVars
  <2>4. CASE Poll
    BY <2>4 DEF Poll, PollStarts, PollDone, PollFailed, PollLimb, queueVars
  <2>5. CASE WindowOver \/ Flush \/ FireEnds \/ UNCHANGED vars
    BY <2>5 DEF WindowOver, Flush, FireEnds, vars, queueVars
  <2> HIDE DEF A
  <2> QED BY <1>1, <2>1, <2>2, <2>3, <2>4, <2>5 DEF Next
<1>2. Inv /\ [Next]_vars => [A]_vars
  BY <1>1
<1> QED BY <1>2, Invariant, PTL DEF Spec, OneEmptyIsNotBelieved

(* A skip that leaves the debouncer is the command in flight.               *)
THEOREM SkipSent == Spec => SkipIsNeverDropped
<1> DEFINE A == gDeb # None /\ gDeb' = None => ch.cmd = None /\ ch'.cmd = <<gDeb, gHost>>
<1>1. ASSUME Inv, [Next]_vars PROVE A
  <2>1. CASE Flush
    <3>1. ch = [cmd |-> ch.cmd, fire |-> ch.fire, act |-> ch.act, fallback |-> ch.fallback,
                native |-> ch.native]
      BY <1>1 DEF Inv, OutInv, Good, Side
    <3>2. ch.cmd = None /\ ch' = [ch EXCEPT !.cmd = <<gDeb, gHost>>]
      BY <2>1 DEF Flush, StartCommand
    <3> QED BY <3>1, <3>2
  <2>2. CASE HandleEvent
    BY <2>2, EventDebounces
  <2>3. CASE CommandEnds
    BY <2>3 DEF CommandEnds, CmdDone, CmdFailed, CmdLimb
  <2>4. CASE Poll
    BY <2>4 DEF Poll, PollStarts, PollDone, PollFailed, PollLimb
  <2>5. CASE WindowOver \/ FireEnds \/ QueueDone \/ UNCHANGED vars
    BY <2>5 DEF WindowOver, FireEnds, QueueDone, AuxLimb, vars
  <2> HIDE DEF A
  <2> QED BY <1>1, <2>1, <2>2, <2>3, <2>4, <2>5 DEF Next
<1>2. Inv /\ [Next]_vars => [A]_vars
  BY <1>1
<1> QED BY <1>2, Invariant, PTL DEF Spec, SkipIsNeverDropped
=============================================================================
