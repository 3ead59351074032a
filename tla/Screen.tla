------------------------------- MODULE Screen -------------------------------
(***************************************************************************)
(* os9/casquinha.c, from the player to what is drawn of it: the intent, the *)
(* snapshot and its anchor, the cadence of the polls (cq_backoff.c), and   *)
(* the renders that feed cq_view.  One pass of the loop is the command's   *)
(* pump, the poll's, and TickView; between two passes it sleeps in Wait-   *)
(* NextEvent, as long as ComputeSleep says or until an event comes.        *)
(***************************************************************************)
EXTENDS View

CONSTANTS
  Tracks, Duration,
  DrawTicks,       \* the 30 ticks of TickView
  Base, Cap,       \* CQ_POLL_TICKS, CQ_POLL_CAP
  Idle, Background, \* the sleeps of 10 and 60 ticks of ComputeSleep
  Devices, Errors, \* of the player; error codes, "failed" of the transport's
  Media,           \* phases and fills the audio engine goes through
  Boot,            \* TickCount() at launch
  MaxTime, MaxActs \* bound the model

(* The periods and the sleeps end before the clock has gone halfway round;  *)
(* a track id is never that of no track, nor an error code the mark of      *)
(* another answer.                                                          *)
ASSUME ScreenAssumption ==
  /\ Tracks \subseteq Nat \ {NoTrack} /\ Tracks # {}
  /\ Duration \in Nat \ {0} /\ DrawTicks \in Nat \ {0}
  /\ Idle \in Nat \ {0} /\ Background \in Nat /\ Idle <= Background
  /\ AckTicks # 0 /\ 2 * (AckTicks + DrawTicks + 2 * Background) < TickMod
  /\ \A m \in Media : m[1] \in cq_engine_phase /\ m[2] \in Nat
  /\ "now" \notin Errors /\ "asked" \notin Errors
  /\ Base \in Nat \ {0} /\ Cap \in Nat /\ Base <= Cap
  /\ 2 * (Cap + Idle) < TickMod
  /\ Boot \in 0 .. TickMod - 1 /\ MaxTime \in Nat /\ MaxActs \in Nat

VARIABLES
  time,            \* ticks since launch
  player,          \* the server's player; since: when something last changed it
  cached,          \* the document of the server's micro-cache
  gTx, gCmd,       \* a reply is in the transaction until a pass takes it
  gSnap, gSnapTick, last_ts,
  gIntent,         \* at: when it was issued, not wrapped
  current, gLastPoll, gSuspended,
  silence,         \* ticks without a poll in flight or a command's answer
  slept,           \* ticks in the last WaitNextEvent
  gFact, engine, gRxTick, gStarveTick,
  gView, lastDraw,
  pass,            \* where the loop is in its pass: "cmd", "poll", "view", "done"
  acts             \* bounds the model

serverVars == <<player, cached>>
snapVars == <<gSnap, gSnapTick, last_ts>>
pollVars == <<current, gLastPoll, gSuspended, silence>>
clockVars == <<time, slept>>
mediaVars == <<gFact, engine, gRxTick, gStarveTick>>
viewVars == <<gView, lastDraw>>
vars == <<clockVars, serverVars, gTx, gCmd, snapVars, gIntent, pollVars, mediaVars, viewVars,
          pass, acts>>

None == <<>>
TickCount == (Boot + time) % TickMod
Act == acts < MaxActs /\ acts' = acts + 1

-----------------------------------------------------------------------------
(* The renders.                                                             *)
Age(tick) == IF tick = Never THEN Never ELSE Since(TickCount, tick)

BuildViewIn(snap, anchor, intent) ==
  [snap |-> snap, snap_ticks |-> anchor, fact |-> gFact, engine |-> engine[1], fill |-> engine[2],
   rx_dry |-> Age(gRxTick), starve |-> Age(gStarveTick),
   intent |-> intent.kind, intent_ticks |-> intent.ticks, pre |-> intent.pre, now |-> TickCount]

NoIntent == [kind |-> "none", ticks |-> 0, pre |-> NoTrack, at |-> 0]

(* RenderView of a new snapshot.                                            *)
RenderView(snap, anchor) ==
  /\ gView' = cq_view_render(BuildViewIn(snap, anchor, gIntent))
  /\ gIntent' = IF gView'.ack THEN gIntent ELSE NoIntent
  /\ UNCHANGED lastDraw

TickView ==
  /\ pass = "view" /\ pass' = "done" /\ slept' = 0
  /\ LET v == cq_view_render(BuildViewIn(gSnap, gSnapTick, gIntent)) IN
     IF Since(TickCount, lastDraw) < DrawTicks THEN UNCHANGED <<gIntent, viewVars>>
     ELSE /\ gIntent' = IF v.ack THEN gIntent ELSE NoIntent
          /\ IF cq_view_differs(gView, v) THEN gView' = v /\ lastDraw' = TickCount
             ELSE UNCHANGED viewVars
  /\ UNCHANGED <<time, serverVars, gTx, gCmd, snapVars, pollVars, mediaVars, acts>>

-----------------------------------------------------------------------------
Init ==
  /\ time = 0 /\ slept = 0
  /\ player = [track |-> CHOOSE t \in Tracks : TRUE, state |-> "playing", device |-> "active",
               pos |-> 0, since |-> 0]
  /\ cached = None /\ gTx = None /\ gCmd = None
  /\ gSnap = NoSnap /\ gSnapTick = 0 /\ last_ts = 0
  /\ gIntent = NoIntent
  /\ current = Base /\ gLastPoll = 0 /\ gSuspended = FALSE /\ silence = 0
  /\ gFact = NoFact /\ engine = <<"off", 0>> /\ gRxTick = Never /\ gStarveTick = Never
  /\ gView = cq_view_render(BuildViewIn(NoSnap, 0, NoIntent)) /\ lastDraw = 0
  /\ pass = "cmd" /\ acts = 0

-----------------------------------------------------------------------------
(* The player and its bridge, while the loop sleeps: a document is fresh,   *)
(* or, of the micro-cache, the last one again; of one moment there is one.  *)
(* A reply brings it with its stamp or, cut short, without.  When it was    *)
(* made is history, the program reads the stamp only.                       *)
Document(p) ==
  [made |-> time + 1, ts |-> time + 1, track |-> p.track, album |-> p.track, state |-> p.state,
   device |-> p.device, pos |-> p.pos, dur |-> IF p.track = NoTrack THEN 0 ELSE Duration]

Fresh(doc) == \A i \in DOMAIN cached : cached[i].made < doc.made \/ cached[i] = doc

Cut(doc) == [doc EXCEPT !.ts = 0]
Replies(doc) == {<<"now", doc>>, <<"now", Cut(doc)>>}

Obeyed(sel) ==
  CASE sel = "play" -> {[player EXCEPT !.state = "playing", !.device = "active", !.since = time,
                           !.track = IF @ = NoTrack THEN t ELSE @] : t \in Tracks}
    [] sel = "pause" -> {[player EXCEPT !.state = "paused", !.since = time]}
    [] OTHER -> {[player EXCEPT !.track = t, !.pos = 0, !.state = "playing", !.since = time] :
                   t \in Tracks \ {player.track}}

AnswerCommand ==
  /\ pass = "done" /\ gCmd # None /\ gCmd[1] = "asked"
  /\ \/ \E p \in Obeyed(gCmd[2]) :
          /\ Fresh(Document(p)) /\ player' = p /\ cached' = <<Document(p)>>
          /\ gCmd' \in Replies(Document(p))
     \/ \E e \in Errors : gCmd' = <<e>> /\ UNCHANGED serverVars
  /\ UNCHANGED <<clockVars, gTx, snapVars, gIntent, pollVars, mediaVars, viewVars, pass, acts>>

AnswerPoll ==
  /\ pass = "done" /\ gTx # None /\ gTx[1] = "asked"
  /\ \/ cached # None /\ gTx' \in Replies(cached[1]) /\ UNCHANGED cached
     \/ /\ Fresh(Document(player)) /\ cached' = <<Document(player)>>
        /\ gTx' \in Replies(Document(player))
     \/ \E e \in Errors : gTx' = <<e>> /\ UNCHANGED cached
  /\ UNCHANGED <<clockVars, player, gCmd, snapVars, gIntent, pollVars, mediaVars, viewVars, pass, acts>>

(* Somebody else's hand on the player.                                      *)
PlayerChanges ==
  /\ Act /\ pass = "done"
  /\ \E t \in Tracks \cup {NoTrack}, s \in {"playing", "paused", "stopped"}, d \in Devices :
       /\ s = "playing" => t # NoTrack
       /\ player' = [track |-> t, state |-> s, device |-> d, pos |-> 0, since |-> time + 1]
  /\ UNCHANGED <<clockVars, cached, gTx, gCmd, snapVars, gIntent, pollVars, mediaVars, viewVars, pass>>

(* What PumpAux and the audio engine leave for the view: StopAudio closes   *)
(* the wire, a change of server forgets the fact.                           *)
MediaChange ==
  /\ Act /\ pass = "view"
  /\ \/ /\ \E e \in Media : engine' = e
        /\ gRxTick' = (IF engine'[1] = "off" THEN Never ELSE TickCount)
        /\ gStarveTick' \in IF engine'[1] = "on air" THEN {Never, TickCount} ELSE {Never}
        /\ UNCHANGED gFact
     \/ /\ gFact' \in {NoFact} \cup [live : {0, 1}, ts : {0, time + 1}]
        /\ UNCHANGED <<engine, gRxTick, gStarveTick>>
  /\ UNCHANGED <<clockVars, serverVars, gTx, gCmd, snapVars, gIntent, pollVars, viewVars, pass>>

(* WaitNextEvent, a tick of it, and its return: at the end of the sleep, or *)
(* at an event.  The track that plays to its end stops.                     *)
ComputeSleep ==
  IF gTx # None THEN 1 ELSE IF gSuspended /\ engine[1] = "off" THEN Background ELSE Idle

Tick ==
  /\ pass = "done" /\ slept < ComputeSleep /\ slept' = slept + 1
  /\ time < MaxTime /\ time' = time + 1
  /\ player' = IF player.state # "playing" \/ player.track = NoTrack THEN player
               ELSE IF player.pos < Duration THEN [player EXCEPT !.pos = @ + 1]
               ELSE [player EXCEPT !.state = "stopped", !.since = time']
  /\ silence' = IF gTx # None \/ gSuspended THEN 0 ELSE silence + 1
  /\ UNCHANGED <<cached, gTx, gCmd, snapVars, gIntent, current, gLastPoll, gSuspended, mediaVars,
                 viewVars, pass, acts>>

Wake ==
  /\ pass = "done" /\ pass' = "cmd"
  /\ Act \/ (slept = ComputeSleep /\ UNCHANGED acts)
  /\ UNCHANGED <<clockVars, serverVars, gTx, gCmd, snapVars, gIntent, pollVars, mediaVars,
                 viewVars>>

-----------------------------------------------------------------------------
(* The user.  StartCommand drops what comes while a command is in flight;   *)
(* the intent is on the screen all the same.                                *)
SetIntent(kind) ==
  gIntent' = [kind |-> kind, ticks |-> TickCount,
              pre |-> IF gSnap = NoSnap THEN NoTrack ELSE gSnap.track, at |-> time]

StartCommand(sel) == gCmd' = IF gCmd = None THEN <<"asked", sel>> ELSE gCmd

Click ==
  /\ Act /\ pass = "cmd"
  /\ \E kind \in {"skip", "play", "pause"} : SetIntent(kind) /\ StartCommand(kind)
  /\ UNCHANGED <<clockVars, serverVars, gTx, snapVars, pollVars, mediaVars, viewVars, pass>>

Suspend ==
  /\ Act /\ pass = "cmd" /\ ~gSuspended /\ gSuspended' = TRUE /\ silence' = 0
  /\ UNCHANGED <<clockVars, serverVars, gTx, gCmd, snapVars, gIntent, current, gLastPoll,
                 mediaVars, viewVars, pass>>

Resume ==
  /\ pass = "cmd" /\ gSuspended /\ gSuspended' = FALSE /\ gLastPoll' = 0
  /\ UNCHANGED <<clockVars, serverVars, gTx, gCmd, snapVars, gIntent, current, silence, mediaVars,
                 viewVars, pass, acts>>

-----------------------------------------------------------------------------
(* cq_backoff.c.                                                            *)
(* Mutant: no cap. *)
cq_backoff_fail_NoCap == current' = 2 * current

cq_backoff_fail == current' = IF 2 * current > Cap THEN Cap ELSE 2 * current
cq_backoff_ok == current' = Base

(* The jitter is a mix of the tick: any of 0 .. current / 4.                *)
cq_backoff_interval_seeded == current .. current + current \div 4

(* cq_guard.c: an unknown stamp is adopted and moves no mark.               *)
accept_ts(ts) == ts = 0 \/ last_ts = 0 \/ ts >= last_ts

(* Mutant: the anchor moves with every adoption. *)
Anchor_Always(d) == TickCount

Anchor(d) ==
  IF gSnap # NoSnap /\ d.ts > 0 /\ d.ts = gSnap.ts THEN gSnapTick ELSE TickCount

(* AdoptReply, PumpTx: what a reply, or none, leaves behind.                *)
Adopt(d) ==
  /\ cq_backoff_ok
  /\ IF accept_ts(d.ts)
     THEN /\ last_ts' = (IF d.ts = 0 THEN last_ts ELSE d.ts)
          /\ gSnap' = d /\ gSnapTick' = Anchor(d)
     ELSE UNCHANGED snapVars
  /\ RenderView(gSnap', gSnapTick')

AdoptReply(reply) ==
  \/ reply[1] = "now" /\ Adopt(reply[2])
  \/ /\ reply[1] # "now" /\ UNCHANGED snapVars /\ RenderView(gSnap, gSnapTick)
     /\ IF reply[1] = "rate_limited" THEN UNCHANGED current ELSE cq_backoff_fail

(* PollNetwork.  A command's answer pushes the next poll out.  Only the     *)
(* command's answer may be slow to arrive, the poll's is there when given.  *)
PumpCommand ==
  /\ pass = "cmd" /\ pass' = "poll"
  /\ \/ UNCHANGED <<gCmd, snapVars, gIntent, viewVars, current, gLastPoll, silence>>
     \/ /\ gCmd # None /\ gCmd[1] # "asked" /\ gCmd' = None
        /\ AdoptReply(gCmd)
        /\ IF gCmd[1] = "failed" THEN UNCHANGED <<gLastPoll, silence>>
           ELSE gLastPoll' = TickCount /\ silence' = 0
  /\ UNCHANGED <<clockVars, serverVars, gTx, gSuspended, mediaVars, acts>>

PollDue == \E i \in cq_backoff_interval_seeded : Since(TickCount, gLastPoll) >= i
PollMayWait == \E i \in cq_backoff_interval_seeded : Since(TickCount, gLastPoll) < i

PumpPoll ==
  /\ pass = "poll" /\ pass' = "view"
  /\ \/ gTx # None /\ gTx[1] = "asked" /\ UNCHANGED <<gTx, snapVars, gIntent, viewVars, current, gLastPoll>>
     \/ /\ gTx # None /\ gTx[1] # "asked" /\ gTx' = None
        /\ AdoptReply(gTx) /\ UNCHANGED gLastPoll
     \/ /\ gTx = None /\ ~gSuspended /\ PollDue
        /\ gTx' = <<"asked">> /\ gLastPoll' = TickCount
        /\ UNCHANGED <<snapVars, gIntent, viewVars, current>>
     \/ /\ gTx = None /\ (gSuspended \/ PollMayWait)
        /\ UNCHANGED <<gTx, snapVars, gIntent, viewVars, current, gLastPoll>>
  /\ silence' = IF gTx # None \/ gTx' # None \/ gSuspended THEN 0 ELSE silence
  /\ UNCHANGED <<clockVars, serverVars, gCmd, gSuspended, mediaVars, acts>>

-----------------------------------------------------------------------------
Loop == PumpCommand \/ PumpPoll \/ TickView
External == AnswerCommand \/ AnswerPoll \/ PlayerChanges \/ MediaChange \/ Tick \/ Wake
Next == Loop \/ External \/ Click \/ Suspend \/ Resume

Spec == Init /\ [][Next]_vars

-----------------------------------------------------------------------------
(* What a user reads is true, whatever was lost, dropped or answered late:  *)
(* an acknowledgement ends in time; and, but for the draw's own period, the *)
(* words go with the snapshot: never on air, and never waiting for Spotify, *)
(* beside a player that does not play.                                      *)
(* An acknowledgement is up for its period, one of the draw and the sleep   *)
(* before the pass that draws; when the counter wraps since the last draw,  *)
(* one sleep more.                                                          *)
AckEnds ==
  gView.ack =>
    gIntent # NoIntent /\ time - gIntent.at < AckTicks + DrawTicks + 2 * Background

WordsAgree ==
  pass = "done" /\ Since(TickCount, lastDraw) >= DrawTicks + slept =>
    /\ gSnap # NoSnap /\ gSnap.state # "playing" =>
         /\ gView.status \notin {"on air", "waiting for Spotify...", "buffering..."}
         /\ gView.word # "Playing" /\ ~gView.green
    /\ gView.progress.cover = (IF gSnap = NoSnap THEN NoTrack ELSE gSnap.album)
    /\ gView.status = "" <=> engine[1] = "off"

ScreenIsTrue == AckEnds /\ WordsAgree

(* The bar does not run ahead of a player nobody touched since the snapshot *)
(* was made, nor go back while snapshots of one stamp follow one another,   *)
(* the same document served again or a client that has heard nothing new.   *)
Position == position_ms(BuildViewIn(gSnap, gSnapTick, gIntent))

NotAhead ==
  gSnap # NoSnap /\ gSnap.state = "playing" /\ player.since < gSnap.made => Position <= player.pos

BarIsHonest ==
  [][/\ NotAhead'
     /\ gSnap # NoSnap /\ gSnap.ts > 0 /\ gSnap'.ts = gSnap.ts => Position' >= Position]_vars

(* A document served again does not set the bar back, with a stamp or not.  *)
ServedAgain == [][gSnap # NoSnap /\ gSnap' = gSnap => Position' >= Position]_vars

(* The polls come back: in the foreground, and whatever failed before, the  *)
(* next one is out a sleep after the longest interval is over; when the     *)
(* counter wraps meanwhile, two.                                            *)
PollComesBack == silence < Cap + Cap \div 4 + 2 * Idle
=============================================================================
