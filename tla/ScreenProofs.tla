---------------------------- MODULE ScreenProofs ----------------------------
(***************************************************************************)
(* The safety properties of Screen, proved for every clock, interval, sleep,*)
(* period of the draw, server and hand on the player.  Each part of the    *)
(* invariant needs the types only, so each is carried by itself.           *)
(***************************************************************************)
EXTENDS Screen, RingArithmetic

Doc ==
  [made : Nat \ {0}, ts : Nat, track : Tracks \cup {NoTrack}, album : Tracks \cup {NoTrack},
   state : {"playing", "paused", "stopped"}, device : Devices \cup {"active"},
   pos : 0 .. Duration, dur : {0, Duration}]

Player ==
  [track : Tracks \cup {NoTrack}, state : {"playing", "paused", "stopped"},
   device : Devices \cup {"active"}, pos : 0 .. Duration, since : Nat]

Ticks == 0 .. TickMod - 1

(* A transaction or the cache holds a document.                             *)
Brings(tx) == tx # None /\ tx[1] = "now"

ClockInv ==
  /\ time \in 0 .. MaxTime /\ pass \in {"cmd", "poll", "view", "done"}
  /\ slept \in 0 .. Background
  /\ gSnapTick \in Ticks /\ gLastPoll \in Ticks /\ lastDraw \in Ticks

(* The server's documents and the player they are of.                       *)
DocsInv ==
  /\ player \in Player /\ (player.state = "playing" => player.track # NoTrack)
  /\ cached # None => cached = <<cached[1]>> /\ cached[1] \in Doc
  /\ Brings(gTx) => gTx[2] \in Doc
  /\ Brings(gCmd) => gCmd[2] \in Doc
  /\ gSnap # NoSnap => gSnap \in Doc

MediaInv == engine[1] \in cq_engine_phase /\ engine[2] \in Nat

TypeInv == ClockInv /\ DocsInv /\ MediaInv

(* The documents that the server or the client still hold.                  *)
Held(d) ==
  \/ cached # None /\ d = cached[1]
  \/ Brings(gTx) /\ d = gTx[2]
  \/ Brings(gCmd) /\ d = gCmd[2]
  \/ gSnap # NoSnap /\ d = gSnap

(* What a document says of a player nobody touched since.                   *)
Told(d) ==
  d.state = "playing" /\ player.since < d.made =>
    /\ player.state = "playing" /\ d.dur = Duration
    /\ player.pos = Duration \/ d.pos + (time - (d.made - 1)) <= player.pos

(* No two documents of one moment, but for a stamp that was lost, and the   *)
(* cache has the last.                                                      *)
HeldInv ==
  \A d : Held(d) =>
    /\ cached # None /\ d.made <= cached[1].made /\ d.made <= time + 1
    /\ d.ts \in {0, d.made}
    /\ Told(d)
    /\ \A e : Held(e) /\ d.made = e.made => Cut(d) = Cut(e)

(* The anchor is the time of an adoption, after the document was made.      *)
AnchorInv ==
  gSnap # NoSnap =>
    \E a \in gSnap.made - 1 .. time : gSnapTick = (Boot + a) % TickMod

(* An intent is the older, the longer nothing was drawn; the view acknow-   *)
(* ledges none but the present one.                                         *)
IntentInv ==
  /\ gView.ack => gIntent # NoIntent
  /\ gIntent # NoIntent =>
       /\ gIntent.at \in 0 .. time /\ gIntent.ticks = (Boot + gIntent.at) % TickMod
       /\ LET age == time - gIntent.at
              drawn == Since(TickCount, lastDraw) IN
          \/ age < AckTicks + slept
          \/ drawn < DrawTicks + slept /\ age < AckTicks + Background + drawn

IsView(v) ==
  /\ v = [word |-> v.word, ack |-> v.ack, status |-> v.status, pct |-> v.pct,
          green |-> v.green, progress |-> v.progress]
  /\ v.progress = [position |-> v.progress.position, duration |-> v.progress.duration,
                   show |-> v.progress.show, cover |-> v.progress.cover]

ViewInv == IsView(gView) /\ WordsAgree

(* A silent poll channel: the silence began in the last sleep, or the last  *)
(* pass found that the next poll was not due.                               *)
Longest == Cap + Cap \div 4
SinceLook == IF pass = "view" THEN 0 ELSE slept

CadenceInv ==
  /\ current \in Base .. Cap /\ gSuspended \in BOOLEAN /\ silence \in Nat
  /\ silence > 0 =>
       LET quiet == Since(TickCount, gLastPoll) IN
       /\ ~gSuspended /\ slept <= Idle
       /\ \/ silence <= SinceLook
          \/ quiet < Longest + SinceLook /\ silence <= quiet + Idle

Inv == TypeInv /\ HeldInv /\ AnchorInv /\ IntentInv /\ ViewInv /\ CadenceInv

-----------------------------------------------------------------------------
(* Ticks.                                                                   *)
LEMMA Constants ==
  /\ TickMod \in Nat \ {0} /\ Longest \in Nat /\ Longest + 2 * Idle < TickMod
  /\ AckTicks \in Nat \ {0} /\ DrawTicks \in Nat \ {0}
  /\ Idle \in Nat \ {0} /\ Background \in Nat \ {0} /\ Idle <= Background
  /\ 2 * (AckTicks + DrawTicks + 2 * Background) < TickMod
  /\ Base \in Nat \ {0} /\ Cap \in Nat /\ Base <= Cap /\ Boot \in Ticks
<1>1. /\ TickMod \in Nat /\ AckTicks \in Nat \ {0} /\ DrawTicks \in Nat \ {0} /\ Cap \in Nat
      /\ Idle \in Nat \ {0} /\ Background \in Nat /\ Idle <= Background
      /\ Base \in Nat \ {0} /\ Base <= Cap /\ 2 * (Cap + Idle) < TickMod
      /\ 2 * (AckTicks + DrawTicks + 2 * Background) < TickMod /\ Boot \in 0 .. TickMod - 1
  BY ScreenAssumption, ViewAssumption
<1>2. Cap \in Int /\ 4 \in Nat \ {0}
  BY <1>1
<1>3. (Cap \div 4) \in Int /\ (Cap % 4) \in 0 .. 4 - 1 /\ Cap = 4 * (Cap \div 4) + (Cap % 4)
  BY <1>2, Division
<1>4. Longest \in Nat /\ Longest <= 2 * Cap
  BY <1>1, <1>3 DEF Longest
<1> QED
  BY <1>1, <1>4 DEF Ticks

(* The interval with its jitter is within the longest.                      *)
LEMMA Jitter ==
  ASSUME NEW c \in Base .. Cap
  PROVE  c + c \div 4 \in Nat /\ c + c \div 4 <= Longest
<1>1. c \in Int /\ Cap \in Int /\ 4 \in Nat \ {0}
  BY Constants
<1>2. (c \div 4) \in Int /\ (c % 4) \in 0 .. 3 /\ c = 4 * (c \div 4) + (c % 4)
  BY <1>1, Division
<1>3. (Cap \div 4) \in Int /\ (Cap % 4) \in 0 .. 3 /\ Cap = 4 * (Cap \div 4) + (Cap % 4)
  BY <1>1, Division
<1> QED
  BY <1>2, <1>3, Constants DEF Longest

LEMMA SinceTick ==
  ASSUME NEW now \in Int, NEW then \in Int
  PROVE  Since(now, then) \in Ticks
BY Division, Constants DEF Since, Ticks

LEMMA TickCountTick == time \in Nat => TickCount \in Ticks
BY Division, Constants DEF TickCount, Ticks

(* A difference from a tick.                                                *)
LEMMA FromTick ==
  ASSUME NEW n \in Nat \ {0}, NEW a \in Int, NEW b \in 0 .. n - 1
  PROVE  ((a % n) - b) % n = (a - b) % n
<1>1. b % n = b
  BY ModSmall
<1>2. b \in Int
  OBVIOUS
<1>3. ((a % n) - (b % n)) % n = (a - b) % n
  BY <1>2, ModMinus
<1> QED BY <1>1, <1>3

(* One tick on, every difference is one more, or wraps.                     *)
LEMMA SinceStep ==
  ASSUME NEW t \in Nat, NEW tick \in Ticks
  PROVE  LET s == Since((Boot + t) % TickMod, tick)
             n == Since((Boot + (t + 1)) % TickMod, tick) IN
         /\ s \in Ticks
         /\ s # TickMod - 1 => n = s + 1
         /\ n \in {0, s + 1}
<1> DEFINE M == TickMod
           d == Boot + t - tick
<1>0. /\ M \in Nat \ {0} /\ d \in Int /\ tick \in 0 .. M - 1 /\ Boot + t \in Int
      /\ Boot + (t + 1) \in Int /\ 1 \in Int /\ tick \in Int /\ Boot \in Int
  BY Constants DEF Ticks
<1>2. Since((Boot + t) % M, tick) = d % M
  <2> DEFINE c == Boot + t
  <2>1. c \in Int /\ c - tick = d
    BY <1>0
  <2> HIDE DEF c, d, M
  <2>2. ((c % M) - tick) % M = (c - tick) % M
    BY <1>0, <2>1, FromTick
  <2> QED BY <2>1, <2>2, Zenon DEF Since, M, c
<1>3. Since((Boot + (t + 1)) % M, tick) = (d + 1) % M
  <2> DEFINE c == Boot + (t + 1)
  <2>1. c \in Int /\ c - tick = d + 1
    BY <1>0
  <2> HIDE DEF c, d, M
  <2>2. ((c % M) - tick) % M = (c - tick) % M
    BY <1>0, <2>1, FromTick
  <2> QED BY <2>1, <2>2, Zenon DEF Since, M, c
<1>5. (d + 1) % M = ((d % M) + 1) % M
  BY <1>0, ModPlus
<1>6. (d % M) \in 0 .. M - 1
  BY <1>0, Division
<1>7. CASE d % M # M - 1
  <2>1. (d % M) + 1 \in 0 .. M - 1
    BY <1>0, <1>6, <1>7
  <2>2. ((d % M) + 1) % M = (d % M) + 1
    BY <1>0, <2>1, ModSmall
  <2> QED BY <1>2, <1>3, <1>5, <1>6, <1>7, <2>2 DEF Ticks
<1>8. CASE d % M = M - 1
  <2>1. ((d % M) + 1) = M * 1 + 0 /\ M * 1 + 0 \in Int /\ 0 \in 0 .. M - 1
    BY <1>0, <1>8
  <2>2. ((d % M) + 1) % M = 0
    BY <1>0, <2>1, ModOf
  <2> QED BY <1>2, <1>3, <1>5, <1>6, <1>8, <2>2 DEF Ticks
<1> QED BY <1>7, <1>8

(* Between two times the difference is at most what has passed, and just    *)
(* that while it is below the wrap.                                         *)
LEMMA Elapsed ==
  ASSUME NEW t \in Nat, NEW a \in 0 .. t
  PROVE  LET s == Since((Boot + t) % TickMod, (Boot + a) % TickMod) IN
         s \in Ticks /\ s <= t - a /\ (t - a < TickMod => s = t - a)
<1> DEFINE M == TickMod
<1>0. /\ M \in Nat \ {0} /\ Boot + t \in Int /\ Boot + a \in Int /\ t - a \in Int
      /\ (Boot + t) - (Boot + a) = t - a
  BY Constants DEF Ticks
<1>1. Since((Boot + t) % M, (Boot + a) % M) = (t - a) % M
  BY <1>0, ModMinus DEF Since
<1>2. (t - a) % M \in 0 .. M - 1
  BY <1>0, Division
<1>3. CASE t - a < M
  <2>1. t - a \in 0 .. M - 1
    BY <1>0, <1>3
  <2> QED BY <1>0, <1>1, <2>1, ModSmall DEF Ticks
<1>4. CASE ~(t - a < M)
  BY <1>0, <1>1, <1>2, <1>4 DEF Ticks
<1> QED BY <1>3, <1>4

-----------------------------------------------------------------------------
(* The views.                                                               *)
LEMMA RenderedIsView ==
  ASSUME NEW x
  PROVE  IsView(cq_view_render(x))
BY DEF IsView, cq_view_render, NoProgress, Progress

(* Views that do not differ agree but for the position.                     *)
LEMMA NotDiffering ==
  ASSUME NEW a, NEW b, IsView(a), IsView(b), ~cq_view_differs(a, b)
  PROVE  /\ a.word = b.word /\ a.ack = b.ack /\ a.status = b.status /\ a.green = b.green
         /\ a.progress.cover = b.progress.cover
<1> DEFINE Shown(v) == [v EXCEPT !.progress.position = @ \div Second]
<1>1. Shown(a) = Shown(b)
  BY DEF cq_view_differs
<1>2. ASSUME NEW v, IsView(v)
      PROVE  /\ Shown(v).word = v.word /\ Shown(v).ack = v.ack /\ Shown(v).status = v.status
             /\ Shown(v).green = v.green /\ Shown(v).progress.cover = v.progress.cover
  BY <1>2 DEF IsView
<1> HIDE DEF Shown
<1> QED BY <1>1, <1>2

(* A fill gives a percentage.                                               *)
LEMMA PctNat ==
  ASSUME NEW fill \in Nat
  PROVE  (fill * 100) \div Prebuf \in Nat
<1> DEFINE n == Prebuf
           x == fill * 100
           q == x \div n
<1>1. n \in Nat \ {0} /\ x \in Nat /\ x \in Int
  BY ViewAssumption
<1> HIDE DEF n, x
<1>2. q \in Int /\ (x % n) \in 0 .. n - 1 /\ x = n * q + (x % n)
  BY <1>1, Division
<1>3. CASE q <= -1
  <2>1. -q \in Int /\ -q >= 1
    BY <1>2, <1>3
  <2>2. n * (-q) >= n
    BY <1>1, <2>1, Grow
  <2>3. n * (-q) = -(n * q) /\ n * q \in Int
    BY <1>1, <1>2
  <2> HIDE DEF q, x, n
  <2> QED BY <1>1, <1>2, <2>2, <2>3
<1> QED BY <1>2, <1>3 DEF n, x

(* While it buffers there is one, unless the mount is silent.               *)
LEMMA NoPct ==
  ASSUME NEW x, x.fill \in Nat, buffer_pct(x) = -1
  PROVE  x.engine # "buffering" \/ playing_active(x)
<1> DEFINE pct == (x.fill * 100) \div Prebuf
<1>1. pct \in Nat
  BY PctNat
<1>2. buffer_pct(x) =
        IF x.engine # "buffering" \/ (Silent(x) /\ playing_active(x)) THEN -1
        ELSE IF pct > 99 THEN 99 ELSE pct
  BY DEF buffer_pct
<1> HIDE DEF pct
<1> QED BY <1>1, <1>2

(* What the words of a view say of the snapshot and the engine in it.       *)
WordsGo(v, snap, phase) ==
  /\ snap # NoSnap /\ snap.state # "playing" =>
       /\ v.status \notin {"on air", "waiting for Spotify...", "buffering..."}
       /\ v.word # "Playing" /\ ~v.green
  /\ v.progress.cover = (IF snap = NoSnap THEN NoTrack ELSE snap.album)
  /\ v.status = "" <=> phase = "off"

LEMMA WordsOf ==
  ASSUME NEW x, x.engine \in cq_engine_phase, x.fill \in Nat,
         x.snap # NoSnap => x.snap.state \in {"playing", "paused", "stopped"}
  PROVE  WordsGo(cq_view_render(x), x.snap, x.engine)
<1> DEFINE v == cq_view_render(x)
           still == x.snap # NoSnap /\ x.snap.state # "playing"
<1>1. /\ v.status = status(x) /\ v.word = state_word(x)
      /\ v.green <=> x.snap # NoSnap /\ x.snap.state = "playing"
  BY DEF cq_view_render
<1>a. v.progress = IF x.snap = NoSnap THEN NoProgress ELSE Progress(x)
  BY DEF cq_view_render
<1> HIDE DEF v
<1>2. v.progress.cover = (IF x.snap = NoSnap THEN NoTrack ELSE x.snap.album)
  <2>1. CASE x.snap = NoSnap
    <3>1. v.progress = NoProgress
      BY <1>a, <2>1, Zenon
    <3>2. NoProgress.cover = NoTrack
      BY DEF NoProgress
    <3> QED BY <2>1, <3>1, <3>2, Zenon
  <2>2. CASE x.snap # NoSnap
    <3>1. v.progress = Progress(x)
      BY <1>a, <2>2, Zenon
    <3>2. Progress(x).cover = x.snap.album
      BY DEF Progress
    <3> QED BY <2>2, <3>1, <3>2, Zenon
  <2> QED BY <2>1, <2>2
<1>3. still => state_word(x) # "Playing"
  BY DEF state_word
<1>4. buffer_pct(x) = -1 => x.engine # "buffering" \/ playing_active(x)
  BY NoPct
<1>5. still => ~playing_active(x)
  BY DEF playing_active
<1>6. tail_status(x) \in {"playing out...", "standing by"}
  BY DEF tail_status
<1>7. OnAirStatus(x) # "" /\ (still => OnAirStatus(x) = tail_status(x))
  BY <1>6 DEF OnAirStatus
<1>8. status(x) = "" <=> x.engine = "off"
  BY <1>7 DEF status, cq_engine_phase
<1>9. still => status(x) \notin {"on air", "waiting for Spotify...", "buffering..."}
  BY <1>4, <1>5, <1>6, <1>7 DEF status, cq_engine_phase
<1> QED BY <1>1, <1>2, <1>3, <1>8, <1>9 DEF v, WordsGo

(* An acknowledgement is of an intent.                                      *)
LEMMA AckOf ==
  ASSUME NEW snap, NEW anchor, NEW intent,
         cq_view_render(BuildViewIn(snap, anchor, intent)).ack
  PROVE  /\ intent # NoIntent
         /\ SignedSince(TickCount, intent.ticks) < AckTicks
BY DEF cq_view_render, AckActive, BuildViewIn, NoIntent

-----------------------------------------------------------------------------
(* What a reply, or none, does to each group of the client's variables.     *)
LEMMA Rendered ==
  ASSUME NEW r, AdoptReply(r)
  PROVE  /\ \E s, t : gView' = cq_view_render(BuildViewIn(s, t, gIntent))
         /\ gIntent' = IF gView'.ack THEN gIntent ELSE NoIntent
         /\ lastDraw' = lastDraw
BY DEF AdoptReply, Adopt, RenderView

LEMMA Adopted ==
  ASSUME NEW r, AdoptReply(r)
  PROVE  \/ UNCHANGED <<gSnap, gSnapTick>>
         \/ r[1] = "now" /\ gSnap' = r[2] /\ gSnapTick' = Anchor(r[2])
BY DEF AdoptReply, Adopt, snapVars

LEMMA BackedOff ==
  ASSUME NEW r, AdoptReply(r), current \in Base .. Cap
  PROVE  current' \in Base .. Cap
BY Constants DEF AdoptReply, Adopt, cq_backoff_ok, cq_backoff_fail

-----------------------------------------------------------------------------
(* The clock and the ticks taken from it.                                   *)
LEMMA ClockStep ==
  ASSUME ClockInv, [Next]_vars
  PROVE  ClockInv'
<1>0. TickCount \in Ticks /\ 0 \in Ticks /\ MaxTime \in Nat
  <2>1. MaxTime \in Nat
    BY ScreenAssumption, Zenon
  <2>. time \in Nat
    BY <2>1 DEF ClockInv
  <2>2. 0 \in Ticks
    BY Constants DEF Ticks
  <2> QED BY <2>1, <2>2, TickCountTick, Zenon
<1>1. ASSUME PumpCommand PROVE ClockInv'
  <2>1. CASE UNCHANGED <<gCmd, snapVars, gIntent, viewVars, current, gLastPoll, silence>>
    BY <1>1, <2>1 DEF PumpCommand, ClockInv, clockVars, snapVars, viewVars
  <2>2. CASE AdoptReply(gCmd)
    <3>1. gSnapTick' \in Ticks
      BY <1>0, <2>2, Adopted DEF Anchor, ClockInv
    <3>2. gLastPoll' \in Ticks
      BY <1>0, <1>1 DEF PumpCommand, ClockInv, clockVars
    <3> QED BY <1>1, <2>2, <3>1, <3>2, Rendered DEF PumpCommand, ClockInv, clockVars
  <2> QED BY <1>1, <2>1, <2>2 DEF PumpCommand
<1>2. ASSUME PumpPoll PROVE ClockInv'
  <2>1. CASE AdoptReply(gTx)
    <3>1. gSnapTick' \in Ticks
      BY <1>0, <2>1, Adopted DEF Anchor, ClockInv
    <3>2. gLastPoll' \in Ticks
      BY <1>0, <1>2 DEF PumpPoll, ClockInv, clockVars
    <3> QED BY <1>2, <2>1, <3>1, <3>2, Rendered DEF PumpPoll, ClockInv, clockVars
  <2>2. CASE UNCHANGED <<snapVars, gIntent, viewVars, current>>
    BY <1>0, <1>2, <2>2 DEF PumpPoll, ClockInv, clockVars, snapVars, viewVars
  <2> QED BY <1>2, <2>1, <2>2 DEF PumpPoll
<1>3. ASSUME TickView PROVE ClockInv'
  BY <1>0, <1>3, Constants DEF TickView, ClockInv, snapVars, pollVars, viewVars
<1>4. ASSUME Tick PROVE ClockInv'
  <2>1. ComputeSleep <= Background /\ ComputeSleep \in Nat
    BY Constants DEF ComputeSleep
  <2>2. slept' \in 0 .. Background
    BY <1>4, <2>1, Constants DEF Tick, ClockInv
  <2> QED BY <1>0, <1>4, <2>2 DEF Tick, ClockInv, snapVars, viewVars
<1>5. ASSUME Resume PROVE ClockInv'
  BY <1>0, <1>5 DEF Resume, ClockInv, clockVars, snapVars, viewVars
<1>6. ASSUME Suspend PROVE ClockInv'
  BY <1>6 DEF Suspend, ClockInv, clockVars, snapVars, viewVars
<1>7. ASSUME \/ AnswerCommand \/ AnswerPoll \/ PlayerChanges \/ MediaChange \/ Wake \/ Click
             \/ UNCHANGED vars
      PROVE  ClockInv'
  BY <1>7 DEF AnswerCommand, AnswerPoll, PlayerChanges, MediaChange, Wake, Click, vars, ClockInv,
              snapVars, viewVars, pollVars, clockVars
<1> QED
  BY <1>1, <1>2, <1>3, <1>4, <1>5, <1>6, <1>7 DEF Next, Loop, External

(* The engine's phase is one of four.                                       *)
LEMMA MediaStep ==
  ASSUME MediaInv, [Next]_vars
  PROVE  MediaInv'
<1>1. ASSUME MediaChange PROVE MediaInv'
  BY <1>1, ScreenAssumption DEF MediaChange, MediaInv
<1>2. ASSUME ~MediaChange PROVE UNCHANGED engine
  BY <1>2 DEF Next, Loop, External, PumpCommand, PumpPoll, TickView, AnswerCommand, AnswerPoll,
              PlayerChanges, Tick, Wake, Click, Suspend, Resume, vars, mediaVars
<1> QED BY <1>1, <1>2 DEF MediaInv

-----------------------------------------------------------------------------
(* The server.                                                              *)
LEMMA ObeyedPlayer ==
  ASSUME DocsInv, time \in Nat, NEW sel, NEW p \in Obeyed(sel)
  PROVE  /\ p \in Player /\ (p.state = "playing" => p.track # NoTrack)
         /\ p.since = time
<1>0. /\ player \in Player /\ (player.state = "playing" => player.track # NoTrack)
      /\ "active" \in Devices \cup {"active"}
  BY DEF DocsInv
<1>a. Duration \in Nat /\ \A t \in Tracks : t # NoTrack
  BY ScreenAssumption
<1>1. CASE sel = "play"
  <2>1. PICK t \in Tracks : p = [player EXCEPT !.state = "playing", !.device = "active",
                                   !.since = time, !.track = IF @ = NoTrack THEN t ELSE @]
    BY <1>1 DEF Obeyed
  <2> QED BY <1>0, <1>a, <2>1 DEF Player
<1>2. CASE sel = "pause"
  <2>1. p = [player EXCEPT !.state = "paused", !.since = time]
    BY <1>2 DEF Obeyed
  <2> QED BY <1>0, <1>a, <2>1 DEF Player
<1>3. CASE sel \notin {"play", "pause"}
  <2>1. PICK t \in Tracks : p = [player EXCEPT !.track = t, !.pos = 0, !.state = "playing",
                                   !.since = time]
    BY <1>3 DEF Obeyed
  <2>2. p = [track |-> t, state |-> "playing", device |-> player.device, pos |-> 0,
             since |-> time]
    BY <1>0, <2>1 DEF Player
  <2> QED BY <1>0, <1>a, <2>2 DEF Player
<1> QED BY <1>1, <1>2, <1>3

LEMMA DocumentDoc ==
  ASSUME time \in Nat, NEW p \in Player, p.state = "playing" => p.track # NoTrack
  PROVE  /\ Document(p) \in Doc /\ Document(p) # NoSnap
         /\ Document(p).made = time + 1 /\ Document(p).ts = time + 1
         /\ Document(p).state = p.state /\ Document(p).pos = p.pos
         /\ p.state = "playing" => Document(p).dur = Duration
BY DEF Document, Doc, Player, NoSnap

(* Without its stamp a document says the same.                              *)
LEMMA CutDoc ==
  ASSUME NEW d \in Doc
  PROVE  /\ Cut(d) \in Doc /\ Cut(d).ts = 0 /\ Cut(Cut(d)) = Cut(d)
         /\ Cut(d).made = d.made /\ Cut(d).state = d.state /\ Cut(d).pos = d.pos
         /\ Cut(d).dur = d.dur
         /\ \A e \in Doc : Cut(e) = Cut(d) /\ e.ts = d.ts => e = d
<1> DEFINE Fields(x, ts) ==
             [made |-> x.made, ts |-> ts, track |-> x.track, album |-> x.album, state |-> x.state,
              device |-> x.device, pos |-> x.pos, dur |-> x.dur]
<1>1. ASSUME NEW x \in Doc PROVE Cut(x) = Fields(x, 0) /\ x = Fields(x, x.ts)
  BY DEF Doc, Cut
<1>2. Cut(d) \in Doc
  BY <1>1 DEF Doc
<1>3. ASSUME NEW e \in Doc, Cut(e) = Cut(d), e.ts = d.ts PROVE e = d
  <2>1. Fields(e, 0) = Fields(d, 0)
    BY <1>1, <1>3, Zenon
  <2>2. /\ e.made = d.made /\ e.track = d.track /\ e.album = d.album /\ e.state = d.state
        /\ e.device = d.device /\ e.pos = d.pos /\ e.dur = d.dur
    BY <2>1
  <2>3. Fields(e, e.ts) = Fields(d, d.ts)
    BY <1>3, <2>2
  <2> QED BY <1>1, <2>3, Zenon
<1>4. /\ Cut(d).ts = 0 /\ Cut(d).made = d.made /\ Cut(d).state = d.state /\ Cut(d).pos = d.pos
      /\ Cut(d).dur = d.dur
  BY <1>1
<1>5. Cut(Cut(d)) = Cut(d)
  BY <1>1, <1>2
<1> QED BY <1>2, <1>3, <1>4, <1>5

LEMMA ReplyOf ==
  ASSUME NEW d, NEW tx, tx \in Replies(d)
  PROVE  tx # None /\ tx[1] = "now" /\ tx[2] \in {d, Cut(d)}
BY DEF Replies, None

(* A document of this moment: of the player as it is left, newer than the   *)
(* cached one or the same.                                                  *)
Publishes(n) ==
  /\ n = Document(player') /\ Fresh(n) /\ cached' = <<n>>
  /\ player' = player \/ player'.since = time

LEMMA AnsweredCommand ==
  ASSUME TypeInv, AnswerCommand
  PROVE  /\ player' \in Player /\ (player'.state = "playing" => player'.track # NoTrack)
         /\ \/ \E n : Publishes(n) /\ gCmd' \in Replies(n)
            \/ UNCHANGED serverVars /\ gCmd' # None /\ gCmd'[1] # "now"
         /\ UNCHANGED <<time, gTx, gSnap, gSnapTick>>
<1>0. time \in Nat /\ DocsInv /\ UNCHANGED <<time, gTx, gSnap, gSnapTick>>
  <2>1. MaxTime \in Nat
    BY ScreenAssumption
  <2> QED BY <2>1 DEF AnswerCommand, TypeInv, ClockInv, snapVars, clockVars
<1>1. ASSUME NEW p \in Obeyed(gCmd[2]), Fresh(Document(p)), player' = p,
             cached' = <<Document(p)>>, gCmd' \in Replies(Document(p))
      PROVE  /\ player' \in Player /\ (player'.state = "playing" => player'.track # NoTrack)
             /\ \E n : Publishes(n) /\ gCmd' \in Replies(n)
  BY <1>0, <1>1, ObeyedPlayer DEF Publishes
<1>2. ASSUME NEW e \in Errors, gCmd' = <<e>>, UNCHANGED serverVars
      PROVE  /\ player' \in Player /\ (player'.state = "playing" => player'.track # NoTrack)
             /\ gCmd' # None /\ gCmd'[1] # "now"
  <2>1. e # "now"
    BY ScreenAssumption, Zenon
  <2> QED BY <1>0, <1>2, <2>1 DEF DocsInv, serverVars, None
<1> QED BY <1>0, <1>1, <1>2 DEF AnswerCommand

LEMMA AnsweredPoll ==
  ASSUME TypeInv, AnswerPoll
  PROVE  /\ \/ \E n : Publishes(n) /\ gTx' \in Replies(n)
            \/ cached # None /\ gTx' \in Replies(cached[1]) /\ UNCHANGED cached
            \/ UNCHANGED cached /\ gTx' # None /\ gTx'[1] # "now"
         /\ UNCHANGED <<time, player, gCmd, gSnap, gSnapTick>>
<1>1. UNCHANGED <<time, player, gCmd, gSnap, gSnapTick>>
  BY DEF AnswerPoll, snapVars, clockVars
<1>2. ASSUME NEW e \in Errors, gTx' = <<e>>
      PROVE  gTx' # None /\ gTx'[1] # "now"
  <2>1. e # "now"
    BY ScreenAssumption, Zenon
  <2> QED BY <1>2, <2>1 DEF None
<1>3. ASSUME Fresh(Document(player)), cached' = <<Document(player)>>,
             gTx' \in Replies(Document(player))
      PROVE  \E n : Publishes(n) /\ gTx' \in Replies(n)
  BY <1>1, <1>3 DEF Publishes
<1> QED BY <1>1, <1>2, <1>3 DEF AnswerPoll

(* No other step brings a document, and none but these change the player.   *)
LEMMA OtherSteps ==
  ASSUME Next \/ UNCHANGED vars, ~AnswerCommand, ~AnswerPoll
  PROVE  /\ cached' = cached
         /\ gTx' = gTx \/ ~Brings(gTx)'
         /\ gCmd' = gCmd \/ ~Brings(gCmd)'
         /\ \/ UNCHANGED <<gSnap, gSnapTick>>
            \/ Brings(gTx) /\ gSnap' = gTx[2] /\ gSnapTick' = Anchor(gTx[2])
            \/ Brings(gCmd) /\ gSnap' = gCmd[2] /\ gSnapTick' = Anchor(gCmd[2])
         /\ UNCHANGED <<time, player>> \/ PlayerChanges \/ Tick
<1>1. CASE PumpCommand
  BY <1>1, Adopted DEF PumpCommand, Brings, snapVars, serverVars, clockVars, None
<1>2. CASE PumpPoll
  BY <1>2, Adopted DEF PumpPoll, Brings, snapVars, serverVars, clockVars, None
<1>3. CASE Click
  BY <1>3 DEF Click, StartCommand, Brings, snapVars, serverVars, clockVars
<1>4. CASE \/ TickView \/ MediaChange \/ PlayerChanges \/ Tick \/ Wake \/ Suspend \/ Resume
           \/ UNCHANGED vars
  BY <1>4 DEF TickView, MediaChange, PlayerChanges, Tick, Wake, Suspend, Resume, vars, snapVars,
              serverVars, clockVars
<1> QED BY <1>1, <1>2, <1>3, <1>4 DEF Next, Loop, External

LEMMA DocsStep ==
  ASSUME TypeInv, [Next]_vars
  PROVE  DocsInv'
<1>0. DocsInv /\ time \in Nat /\ player \in Player
  BY DEF TypeInv, ClockInv, DocsInv
<1>1. ASSUME NEW n, Publishes(n), player' \in Player,
             player'.state = "playing" => player'.track # NoTrack
      PROVE  n \in Doc /\ cached' = <<cached'[1]>> /\ cached'[1] = n
  BY <1>0, <1>1, DocumentDoc DEF Publishes, Document
<1>2. CASE AnswerCommand
  <2>1. /\ player' \in Player /\ (player'.state = "playing" => player'.track # NoTrack)
        /\ \/ \E n : Publishes(n) /\ gCmd' \in Replies(n)
           \/ UNCHANGED serverVars /\ gCmd' # None /\ gCmd'[1] # "now"
        /\ UNCHANGED <<gTx, gSnap>>
    BY <1>2, AnsweredCommand
  <2>2. CASE UNCHANGED serverVars /\ gCmd' # None /\ gCmd'[1] # "now"
    BY <1>0, <2>1, <2>2 DEF DocsInv, Brings, serverVars
  <2>3. ASSUME NEW n, Publishes(n), gCmd' \in Replies(n) PROVE DocsInv'
    BY <1>0, <1>1, <2>1, <2>3, ReplyOf, CutDoc DEF DocsInv, Brings
  <2> QED BY <2>1, <2>2, <2>3
<1>3. CASE AnswerPoll
  <2>1. /\ \/ \E n : Publishes(n) /\ gTx' \in Replies(n)
           \/ cached # None /\ gTx' \in Replies(cached[1]) /\ UNCHANGED cached
           \/ UNCHANGED cached /\ gTx' # None /\ gTx'[1] # "now"
        /\ UNCHANGED <<player, gCmd, gSnap>>
    BY <1>3, AnsweredPoll
  <2>2. ASSUME NEW n, Publishes(n), gTx' \in Replies(n) PROVE DocsInv'
    <3>1. n \in Doc /\ cached' = <<cached'[1]>> /\ cached'[1] = n
      BY <1>0, <1>1, <2>1, <2>2 DEF DocsInv
    <3> QED BY <1>0, <2>1, <2>2, <3>1, ReplyOf, CutDoc DEF DocsInv, Brings
  <2>3. CASE UNCHANGED cached
    BY <1>0, <2>1, <2>3, <2>2, ReplyOf, CutDoc DEF DocsInv, Brings
  <2> QED BY <2>1, <2>2, <2>3
<1>4. CASE ~AnswerCommand /\ ~AnswerPoll
  <2>1. /\ cached' = cached
        /\ gTx' = gTx \/ ~Brings(gTx)'
        /\ gCmd' = gCmd \/ ~Brings(gCmd)'
        /\ \/ gSnap' = gSnap
           \/ Brings(gTx) /\ gSnap' = gTx[2]
           \/ Brings(gCmd) /\ gSnap' = gCmd[2]
        /\ player' = player \/ PlayerChanges \/ Tick
    BY <1>4, OtherSteps
  <2>2. player' \in Player /\ (player'.state = "playing" => player'.track # NoTrack)
    <3>1. CASE PlayerChanges
      <4>1. PICK t \in Tracks \cup {NoTrack}, s \in {"playing", "paused", "stopped"}, d \in Devices :
              /\ s = "playing" => t # NoTrack
              /\ player' = [track |-> t, state |-> s, device |-> d, pos |-> 0, since |-> time + 1]
        BY <3>1 DEF PlayerChanges
      <4>2. Duration \in Nat
        BY ScreenAssumption
      <4> QED BY <1>0, <4>1, <4>2 DEF Player
    <3>2. CASE Tick
      <4>1. Duration \in Nat /\ time' = time + 1
        BY <3>2, ScreenAssumption DEF Tick
      <4>2. CASE player' = [player EXCEPT !.pos = @ + 1] /\ player.pos < Duration
        <5>1. player.pos + 1 \in 0 .. Duration
          BY <1>0, <4>1, <4>2 DEF Player
        <5> QED BY <1>0, <4>2, <5>1 DEF Player, DocsInv
      <4>3. CASE player' = [player EXCEPT !.state = "stopped", !.since = time']
        <5>1. player' = [track |-> player.track, state |-> "stopped", device |-> player.device,
                         pos |-> player.pos, since |-> time + 1]
          BY <1>0, <4>1, <4>3 DEF Player
        <5> QED BY <1>0, <5>1 DEF Player
      <4>4. CASE player' = player
        BY <1>0, <4>4 DEF DocsInv
      <4> QED BY <3>2, <4>2, <4>3, <4>4 DEF Tick
    <3> QED BY <1>0, <2>1, <3>1, <3>2 DEF DocsInv
  <2> QED BY <1>0, <2>1, <2>2 DEF DocsInv, Brings
<1> QED BY <1>2, <1>3, <1>4

-----------------------------------------------------------------------------
(* A new document: it is told of the player of this moment, and of an older *)
(* player only what it was told.                                            *)
LEMMA PublishedHeld ==
  ASSUME TypeInv, HeldInv, NEW n, Publishes(n), time' = time,
         player' \in Player, player'.state = "playing" => player'.track # NoTrack,
         \A d : Held(d)' => Held(d) \/ d \in {n, Cut(n)}
  PROVE  HeldInv'
<1>0. time \in Nat /\ (cached # None => cached = <<cached[1]>> /\ cached[1] \in Doc)
  <2>1. MaxTime \in Nat
    BY ScreenAssumption
  <2> QED BY <2>1 DEF TypeInv, ClockInv, DocsInv
<1>1. /\ n \in Doc /\ n.made = time + 1 /\ n.ts = time + 1 /\ n.state = player'.state
      /\ n.pos = player'.pos /\ (n.state = "playing" => n.dur = Duration)
      /\ cached' = <<n>> /\ cached' # None /\ cached'[1] = n
  BY <1>0, DocumentDoc DEF Publishes, Document, None
<1>2. Told(n)' /\ Told(Cut(n))'
  <2>1. Told(n)'
    BY <1>0, <1>1 DEF Told, Player, Doc
  <2> QED BY <1>1, <2>1, CutDoc DEF Told
<1>3. ASSUME NEW d, Held(d)
      PROVE  /\ d \in Doc /\ d.made \in Nat /\ d.made <= time + 1
             /\ d.made <= time \/ Cut(d) = Cut(n)
  <2>1. cached # None /\ d.made <= cached[1].made /\ d.made <= time + 1 /\ Held(cached[1])
    BY <1>3 DEF HeldInv, Held
  <2>2. cached[1].made < n.made \/ cached[1] = n
    BY <1>0, <2>1 DEF Publishes, Fresh
  <2>3. d \in Doc /\ d.made \in Nat /\ cached[1].made \in Nat
    BY <1>0, <1>3, <2>1 DEF Held, TypeInv, DocsInv, Doc
  <2>4. d.made = cached[1].made => Cut(d) = Cut(cached[1])
    BY <1>3, <2>1 DEF HeldInv
  <2> QED BY <1>0, <1>1, <2>1, <2>2, <2>3, <2>4
<1>4. ASSUME NEW d, Held(d) PROVE Told(d)'
  <2>0. d \in Doc /\ n \in Doc /\ Told(d)
    BY <1>1, <1>3, <1>4 DEF HeldInv
  <2>1. CASE Cut(d) = Cut(n)
    BY <1>2, <2>0, <2>1, CutDoc DEF Told
  <2>2. CASE player' = player
    BY <2>0, <2>2 DEF Told, Publishes
  <2>3. CASE Cut(d) # Cut(n) /\ player'.since = time
    BY <1>0, <1>3, <1>4, <2>3 DEF Told
  <2> QED BY <2>1, <2>2, <2>3 DEF Publishes
<1>5. ASSUME NEW d, Held(d)'
      PROVE  /\ d \in Doc /\ (Held(d) \/ Cut(d) = Cut(n)) /\ d.ts \in {0, d.made}
             /\ d.made \in Nat /\ d.made <= time + 1
             /\ d.made = time + 1 => Cut(d) = Cut(n)
  <2>1. CASE Held(d)
    BY <1>0, <1>3, <2>1 DEF HeldInv
  <2>2. CASE d \in {n, Cut(n)}
    BY <1>0, <1>1, <2>2, CutDoc
  <2> QED BY <1>5, <2>1, <2>2
<1>6. ASSUME NEW d, NEW e, Held(d)', Held(e)', d.made = e.made PROVE Cut(d) = Cut(e)
  <2>1. CASE Held(d) /\ Held(e)
    BY <1>6, <2>1 DEF HeldInv
  <2>2. CASE Cut(d) = Cut(n) \/ Cut(e) = Cut(n)
    <3>1. d \in Doc /\ e \in Doc
      BY <1>5, <1>6
    <3>2. d.made = time + 1
      BY <1>1, <1>6, <2>2, <3>1, CutDoc
    <3> QED BY <1>5, <1>6, <3>2
  <2> QED BY <1>5, <1>6, <2>1, <2>2
<1>7. ASSUME NEW d, Held(d)'
      PROVE  /\ d.made <= cached'[1].made /\ d.made <= time' + 1
             /\ Told(d)'
  <2>1. d.made <= time + 1
    BY <1>5, <1>7
  <2>2. Told(d)'
    BY <1>2, <1>4, <1>7
  <2> QED BY <1>1, <2>1, <2>2
<1> QED BY <1>1, <1>5, <1>6, <1>7 DEF HeldInv

(* The last document, served again.                                         *)
LEMMA ServedHeld ==
  ASSUME TypeInv, HeldInv, cached # None, UNCHANGED <<time, player, cached>>,
         \A d : Held(d)' => Held(d) \/ d = Cut(cached[1])
  PROVE  HeldInv'
<1> DEFINE c == cached[1]
<1>1. Held(c) /\ c \in Doc
  BY DEF Held, TypeInv, DocsInv
<1> HIDE DEF c
<1>2. ASSUME NEW d, Held(d)'
      PROVE  \E e : /\ Held(e) /\ Cut(d) = Cut(e) /\ d.made = e.made /\ d.ts \in {0, d.made}
                    /\ (Told(e) => Told(d))
  <2>1. CASE Held(d)
    BY <2>1 DEF HeldInv
  <2>2. CASE d = Cut(c)
    BY <1>1, <2>2, CutDoc DEF Told
  <2> QED BY <1>2, <2>1, <2>2 DEF c
<1>3. ASSUME NEW d, Held(d)'
      PROVE  /\ d.made <= cached'[1].made /\ d.made <= time' + 1 /\ d.ts \in {0, d.made}
             /\ Told(d)'
             /\ \A e : Held(e)' /\ d.made = e.made => Cut(d) = Cut(e)
  <2>1. d.made <= cached[1].made /\ d.made <= time + 1 /\ d.ts \in {0, d.made} /\ Told(d)
    BY <1>2, <1>3 DEF HeldInv
  <2>2. ASSUME NEW e, Held(e)', d.made = e.made PROVE Cut(d) = Cut(e)
    <3>1. PICK f : Held(f) /\ Cut(d) = Cut(f) /\ d.made = f.made
      BY <1>2, <1>3
    <3>2. PICK g : Held(g) /\ Cut(e) = Cut(g) /\ e.made = g.made
      BY <1>2, <2>2
    <3> QED BY <2>2, <3>1, <3>2 DEF HeldInv
  <2> QED BY <2>1, <2>2 DEF Told
<1> QED BY <1>3 DEF HeldInv

LEMMA HeldStep ==
  ASSUME TypeInv, HeldInv, DocsInv', [Next]_vars
  PROVE  HeldInv'
<1>0. time \in Nat /\ player \in Player /\ player' \in Player
  <2>1. MaxTime \in Nat
    BY ScreenAssumption
  <2> QED BY <2>1 DEF TypeInv, ClockInv, DocsInv
<1>1. ASSUME cached' = cached, \A d : Held(d)' => Held(d), UNCHANGED <<time, player>>
      PROVE  HeldInv'
  BY <1>1 DEF HeldInv, Told
<1>2. CASE AnswerCommand
  <2>1. /\ \/ \E n : Publishes(n) /\ gCmd' \in Replies(n)
           \/ UNCHANGED serverVars /\ gCmd' # None /\ gCmd'[1] # "now"
        /\ UNCHANGED <<time, gTx, gSnap>>
    BY <1>2, AnsweredCommand
  <2>2. CASE UNCHANGED serverVars /\ gCmd' # None /\ gCmd'[1] # "now"
    BY <1>1, <2>1, <2>2 DEF Held, Brings, serverVars
  <2>3. ASSUME NEW n, Publishes(n), gCmd' \in Replies(n) PROVE HeldInv'
    <3>1. \A d : Held(d)' => Held(d) \/ d \in {n, Cut(n)}
      BY <2>1, <2>3, ReplyOf DEF Held, Brings, Publishes
    <3> QED BY <2>1, <2>3, <3>1, PublishedHeld DEF DocsInv
  <2> QED BY <2>1, <2>2, <2>3
<1>3. CASE AnswerPoll
  <2>1. /\ \/ \E n : Publishes(n) /\ gTx' \in Replies(n)
           \/ cached # None /\ gTx' \in Replies(cached[1]) /\ UNCHANGED cached
           \/ UNCHANGED cached /\ gTx' # None /\ gTx'[1] # "now"
        /\ UNCHANGED <<time, player, gCmd, gSnap>>
    BY <1>3, AnsweredPoll
  <2>2. ASSUME NEW n, Publishes(n), gTx' \in Replies(n) PROVE HeldInv'
    <3>1. \A d : Held(d)' => Held(d) \/ d \in {n, Cut(n)}
      BY <2>1, <2>2, ReplyOf DEF Held, Brings, Publishes
    <3> QED BY <2>1, <2>2, <3>1, PublishedHeld DEF DocsInv
  <2>3. CASE UNCHANGED cached /\ gTx' # None /\ gTx'[1] # "now"
    <3>1. \A d : Held(d)' => Held(d)
      BY <2>1, <2>3 DEF Held, Brings
    <3> QED BY <1>1, <2>1, <2>3, <3>1
  <2>4. CASE cached # None /\ gTx' \in Replies(cached[1]) /\ UNCHANGED cached
    <3>1. gTx'[2] \in {cached[1], Cut(cached[1])}
      BY <2>4, ReplyOf
    <3>2. \A d : Held(d)' => Held(d) \/ d = Cut(cached[1])
      BY <2>1, <2>4, <3>1 DEF Held, Brings
    <3> QED BY <2>1, <2>4, <3>2, ServedHeld
  <2> QED BY <2>1, <2>2, <2>3, <2>4
<1>4. CASE ~AnswerCommand /\ ~AnswerPoll
  <2>1. /\ cached' = cached
        /\ gTx' = gTx \/ ~Brings(gTx)'
        /\ gCmd' = gCmd \/ ~Brings(gCmd)'
        /\ \/ gSnap' = gSnap
           \/ Brings(gTx) /\ gSnap' = gTx[2]
           \/ Brings(gCmd) /\ gSnap' = gCmd[2]
        /\ UNCHANGED <<time, player>> \/ PlayerChanges \/ Tick
    BY <1>4, OtherSteps
  <2>2. \A d : Held(d)' => Held(d)
    BY <2>1 DEF Held, Brings
  <2>3. ASSUME time' \in {time, time + 1}, \A d : Held(d) => Told(d)' PROVE HeldInv'
    <3>1. ASSUME NEW d, Held(d)
          PROVE  d.made <= time' + 1
      <4>1. d.made \in Nat /\ d.made <= time + 1
        BY <3>1 DEF Held, HeldInv, TypeInv, DocsInv, Doc
      <4> QED BY <1>0, <2>3, <4>1
    <3> QED BY <2>1, <2>2, <2>3, <3>1 DEF HeldInv
  <2>4. ASSUME NEW d, Held(d), PlayerChanges \/ Tick PROVE Told(d)'
    <3>1. /\ d \in Doc /\ d.made <= time + 1 /\ Told(d) /\ d.made \in Nat \ {0}
          /\ d.pos \in 0 .. Duration
      BY <2>4 DEF Held, HeldInv, TypeInv, DocsInv, Doc
    <3>2. CASE player'.since = time + 1
      BY <1>0, <2>4, <3>1, <3>2 DEF Told, Tick, PlayerChanges, Player
    <3>3. CASE Tick /\ player'.since # time + 1
      <4>1. /\ time' = time + 1 /\ Duration \in Nat
            /\ \/ player' = player /\ (player.state # "playing" \/ player.track = NoTrack)
               \/ player.pos < Duration /\ player' = [player EXCEPT !.pos = @ + 1]
        BY <3>3, <1>0, ScreenAssumption DEF Tick, Player
      <4>2. CASE player.pos < Duration /\ player' = [player EXCEPT !.pos = @ + 1]
        <5>1. /\ player'.pos = player.pos + 1 /\ player'.since = player.since
              /\ player'.state = player.state /\ player.pos \in Nat
          BY <1>0, <4>1, <4>2 DEF Player
        <5> QED BY <1>0, <3>1, <4>1, <4>2, <5>1 DEF Told
      <4>3. CASE player' = player /\ (player.state # "playing" \/ player.track = NoTrack)
        BY <3>1, <4>3 DEF Told, TypeInv, DocsInv
      <4> QED BY <4>1, <4>2, <4>3
    <3>4. PlayerChanges => player'.since = time + 1
      BY DEF PlayerChanges
    <3> QED BY <2>4, <3>2, <3>3, <3>4
  <2>5. PlayerChanges \/ Tick => time' \in {time, time + 1}
    BY DEF PlayerChanges, Tick, clockVars
  <2> QED BY <1>1, <2>1, <2>2, <2>3, <2>4, <2>5
<1> QED BY <1>2, <1>3, <1>4

-----------------------------------------------------------------------------
(* Time does not go back, and a step is a tick at most.                     *)
LEMMA TimeStep ==
  ASSUME ClockInv, [Next]_vars
  PROVE  time \in Nat /\ (time' = time \/ Tick)
<1>0. MaxTime \in Nat
  BY ScreenAssumption
<1>1. time \in Nat
  BY <1>0 DEF ClockInv
<1>2. time' = time \/ Tick
  BY DEF Next, Loop, External, PumpCommand, PumpPoll, TickView, AnswerCommand, AnswerPoll,
         PlayerChanges, MediaChange, Tick, Wake, Click, Suspend, Resume, vars, clockVars
<1> QED BY <1>1, <1>2

LEMMA AnchorStep ==
  ASSUME TypeInv, HeldInv, AnchorInv, [Next]_vars
  PROVE  AnchorInv'
<1>0. time \in Nat /\ time' \in {time, time + 1}
  BY TimeStep DEF TypeInv, Tick
<1>1. ASSUME UNCHANGED <<gSnap, gSnapTick>> PROVE AnchorInv'
  <2> SUFFICES ASSUME gSnap' # NoSnap
               PROVE  \E a \in gSnap'.made - 1 .. time' : gSnapTick' = (Boot + a) % TickMod
    BY DEF AnchorInv
  <2>1. PICK a \in gSnap.made - 1 .. time : gSnapTick = (Boot + a) % TickMod
    BY <1>1 DEF AnchorInv
  <2>2. gSnap.made \in Nat \ {0}
    BY <1>1 DEF TypeInv, DocsInv, Doc
  <2>3. a \in gSnap'.made - 1 .. time'
    BY <1>0, <1>1, <2>1, <2>2
  <2> QED BY <1>1, <2>1, <2>3
<1>2. ASSUME NEW d, Held(d), gSnap' = d, gSnapTick' = Anchor(d) PROVE AnchorInv'
  <2>1. d.made <= time + 1 /\ d.made \in Nat \ {0} /\ d.ts \in {0, d.made} /\ d.ts \in Nat
    BY <1>2 DEF Held, HeldInv, TypeInv, DocsInv, Doc
  <2>2. CASE gSnap # NoSnap /\ d.ts > 0 /\ d.ts = gSnap.ts
    <3>1. PICK a \in gSnap.made - 1 .. time : gSnapTick = (Boot + a) % TickMod
      BY <2>2 DEF AnchorInv
    <3>2. gSnapTick' = (Boot + a) % TickMod
      BY <1>2, <2>1, <2>2, <3>1 DEF Anchor
    <3>3. gSnap.made = d.made
      <4>1. Held(gSnap) /\ gSnap.made \in Nat \ {0} /\ gSnap.ts \in {0, gSnap.made}
        BY <2>2 DEF Held, HeldInv, TypeInv, DocsInv, Doc
      <4> QED BY <2>1, <2>2, <4>1
    <3>4. a \in gSnap'.made - 1 .. time'
      BY <1>0, <1>2, <2>1, <3>1, <3>3
    <3> QED BY <3>2, <3>4 DEF AnchorInv
  <2>3. CASE ~(gSnap # NoSnap /\ d.ts > 0 /\ d.ts = gSnap.ts)
    <3>1. gSnapTick' = (Boot + time) % TickMod
      BY <1>2, <2>3 DEF Anchor, TickCount
    <3>2. time \in gSnap'.made - 1 .. time'
      BY <1>0, <1>2, <2>1
    <3> QED BY <3>1, <3>2 DEF AnchorInv
  <2> QED BY <2>2, <2>3
<1>3. CASE AnswerCommand \/ AnswerPoll
  BY <1>1, <1>3, AnsweredCommand, AnsweredPoll
<1>4. CASE ~AnswerCommand /\ ~AnswerPoll
  <2>1. \/ UNCHANGED <<gSnap, gSnapTick>>
        \/ Brings(gTx) /\ gSnap' = gTx[2] /\ gSnapTick' = Anchor(gTx[2])
        \/ Brings(gCmd) /\ gSnap' = gCmd[2] /\ gSnapTick' = Anchor(gCmd[2])
    BY <1>4, OtherSteps
  <2> QED BY <1>1, <1>2, <2>1 DEF Held
<1> QED BY <1>3, <1>4

-----------------------------------------------------------------------------
(* The intent and its acknowledgement.                                      *)
(* While it is there it has not come to look like one of the future.        *)
LEMMA StillAck ==
  ASSUME ClockInv, IntentInv, gIntent # NoIntent, SignedSince(TickCount, gIntent.ticks) < AckTicks
  PROVE  time - gIntent.at < AckTicks
<1> DEFINE age == time - gIntent.at
           drawn == Since(TickCount, lastDraw)
<1>0. MaxTime \in Nat
  BY ScreenAssumption
<1>1. time \in Nat /\ lastDraw \in Int /\ lastDraw \in Ticks /\ TickCount \in Int
  BY <1>0, TickCountTick, Constants DEF ClockInv, Ticks
<1>2. gIntent.at \in 0 .. time /\ gIntent.ticks = (Boot + gIntent.at) % TickMod
  BY DEF IntentInv
<1>3. drawn \in Ticks
  BY <1>1, SinceTick
<1>a. slept \in 0 .. Background
  BY DEF ClockInv
<1>4. /\ age < AckTicks + slept \/ (drawn < DrawTicks + slept /\ age < AckTicks + Background + drawn)
      /\ age \in Nat
  BY <1>1, <1>2, <1>3 DEF IntentInv
<1>5. 2 * age < TickMod /\ age < TickMod
  <2> HIDE DEF age, drawn
  <2> QED BY <1>3, <1>4, <1>a, Constants DEF Ticks
<1>6. Since(TickCount, gIntent.ticks) = age
  BY <1>1, <1>2, <1>5, Elapsed DEF TickCount
<1> QED BY <1>4, <1>5, <1>6, Constants DEF SignedSince

LEMMA IntentStep ==
  ASSUME ClockInv, IntentInv, IsView(gView), [Next]_vars
  PROVE  IntentInv'
<1> DEFINE age == time - gIntent.at
           drawn == Since(TickCount, lastDraw)
<1>0. /\ time \in Nat /\ (time' = time \/ Tick) /\ lastDraw \in Ticks
      /\ slept \in 0 .. Background /\ slept \in Nat
  BY TimeStep DEF ClockInv
<1>a. drawn \in Ticks /\ drawn \in Nat
  <2>1. TickCount \in Int /\ lastDraw \in Int
    BY <1>0, TickCountTick, Constants DEF Ticks
  <2>2. drawn \in Ticks
    BY <2>1, SinceTick
  <2> QED BY <2>2, Constants DEF Ticks
<1>b. ASSUME gIntent # NoIntent
      PROVE  /\ gIntent.at \in 0 .. time /\ gIntent.ticks = (Boot + gIntent.at) % TickMod
             /\ age \in Nat
             /\ \/ age < AckTicks + slept
                \/ drawn < DrawTicks + slept /\ age < AckTicks + Background + drawn
  BY <1>0, <1>b DEF IntentInv
<1>1. ASSUME UNCHANGED <<clockVars, lastDraw, gIntent, gView>>
      PROVE  IntentInv'
  BY <1>1 DEF IntentInv, TickCount, clockVars
<1>2. ASSUME NEW r, AdoptReply(r), UNCHANGED clockVars
      PROVE  IntentInv'
  <2>1. /\ \E s, t : gView' = cq_view_render(BuildViewIn(s, t, gIntent))
        /\ gIntent' = IF gView'.ack THEN gIntent ELSE NoIntent
        /\ lastDraw' = lastDraw
    BY <1>2, Rendered
  <2>2. gView'.ack => gIntent # NoIntent
    BY <2>1, AckOf
  <2> QED BY <1>2, <2>1, <2>2 DEF IntentInv, TickCount, clockVars
<1>3. CASE PumpCommand
  BY <1>1, <1>2, <1>3 DEF PumpCommand, viewVars
<1>4. CASE PumpPoll
  BY <1>1, <1>2, <1>4 DEF PumpPoll, viewVars
<1>5. CASE Click
  <2>1. PICK kind \in {"skip", "play", "pause"} : SetIntent(kind)
    BY <1>5 DEF Click
  <2>2. gIntent' # NoIntent /\ gIntent'.at = time /\ gIntent'.ticks = TickCount
    BY <2>1 DEF SetIntent, NoIntent
  <2>3. UNCHANGED <<clockVars, lastDraw, gView>>
    BY <1>5 DEF Click, viewVars
  <2>4. time - time < AckTicks + slept
    BY <1>0, Constants
  <2> QED BY <1>0, <2>2, <2>3, <2>4 DEF IntentInv, TickCount, clockVars
<1>6. CASE Suspend \/ Resume \/ MediaChange \/ AnswerCommand \/ AnswerPoll \/ PlayerChanges \/ Wake
  BY <1>1, <1>6 DEF Suspend, Resume, MediaChange, AnswerCommand, AnswerPoll, PlayerChanges, Wake,
                    viewVars
<1>7. CASE UNCHANGED vars
  BY <1>1, <1>7 DEF vars, viewVars
<1>8. CASE Tick
  <2>1. /\ time' = time + 1 /\ slept' = slept + 1
        /\ UNCHANGED <<gIntent, gView, lastDraw>>
    BY <1>8 DEF Tick, viewVars
  <2>2. drawn # TickMod - 1 => Since(TickCount, lastDraw)' = drawn + 1
    BY <1>0, <2>1, SinceStep DEF TickCount
  <2>3. ASSUME gIntent # NoIntent
        PROVE  /\ gIntent.at \in 0 .. time' /\ gIntent.ticks = (Boot + gIntent.at) % TickMod
               /\ time' - gIntent.at = age + 1
               /\ \/ age + 1 < AckTicks + (slept + 1)
                  \/ /\ Since(TickCount, lastDraw)' < DrawTicks + (slept + 1)
                     /\ age + 1 < AckTicks + Background + Since(TickCount, lastDraw)'
    <3>1. /\ gIntent.at \in 0 .. time /\ gIntent.ticks = (Boot + gIntent.at) % TickMod
          /\ age \in Nat
          /\ age < AckTicks + slept \/ (drawn < DrawTicks + slept /\ age < AckTicks + Background + drawn)
      BY <1>b, <2>3
    <3>2. gIntent.at \in 0 .. time' /\ time' - gIntent.at = age + 1
      BY <1>0, <2>1, <3>1
    <3> HIDE DEF drawn, age
    <3>3. age < AckTicks + slept => age + 1 < AckTicks + (slept + 1)
      BY <1>0, <3>1, Constants
    <3>4. drawn < DrawTicks + slept => drawn # TickMod - 1
      BY <1>0, <1>a, Constants
    <3>5. drawn < DrawTicks + slept /\ age < AckTicks + Background + drawn =>
            drawn + 1 < DrawTicks + (slept + 1) /\ age + 1 < AckTicks + Background + (drawn + 1)
      BY <1>0, <1>a, <3>1, Constants
    <3> QED BY <2>2, <3>1, <3>2, <3>3, <3>4, <3>5
  <2> QED BY <2>1, <2>3 DEF IntentInv
<1>9. CASE TickView
  <2> DEFINE v == cq_view_render(BuildViewIn(gSnap, gSnapTick, gIntent))
  <2>0. time' = time /\ slept' = 0 /\ TickCount' = TickCount
    BY <1>9 DEF TickView, TickCount
  <2>1. CASE drawn < DrawTicks
    <3>1. UNCHANGED <<gIntent, gView, lastDraw>>
      BY <1>9, <2>1 DEF TickView, viewVars
    <3>2. gIntent # NoIntent => drawn < DrawTicks + 0 /\ age < AckTicks + Background + drawn
      <4> SUFFICES ASSUME gIntent # NoIntent
                   PROVE  drawn < DrawTicks + 0 /\ age < AckTicks + Background + drawn
        OBVIOUS
      <4>1. /\ age \in Nat
            /\ age < AckTicks + slept \/ age < AckTicks + Background + drawn
        BY <1>b
      <4> HIDE DEF age, drawn
      <4> QED BY <1>0, <1>a, <2>1, <4>1, Constants
    <3> QED BY <1>b, <2>0, <3>1, <3>2 DEF IntentInv
  <2>2. CASE ~(drawn < DrawTicks)
    <3>1. /\ gIntent' = IF v.ack THEN gIntent ELSE NoIntent
          /\ gView' = v \/ (gView' = gView /\ ~cq_view_differs(gView, v))
      BY <1>9, <2>2 DEF TickView, viewVars
    <3>2. v.ack => gIntent # NoIntent /\ age < AckTicks + 0
      <4>1. v.ack => gIntent # NoIntent /\ age < AckTicks
        BY AckOf, StillAck
      <4> QED BY <4>1, Constants
    <3>3. gView'.ack = v.ack
      BY <3>1, RenderedIsView, NotDiffering
    <3> QED BY <1>b, <2>0, <3>1, <3>2, <3>3 DEF IntentInv
  <2> QED BY <2>1, <2>2
<1> QED
  BY <1>3, <1>4, <1>5, <1>6, <1>7, <1>8, <1>9 DEF Next, Loop, External

-----------------------------------------------------------------------------
(* The words: a pass of TickView leaves them in agreement, or has just      *)
(* drawn; until the next pass nothing they depend on moves.                 *)
LEMMA ViewStep ==
  ASSUME TypeInv, ViewInv, [Next]_vars
  PROVE  ViewInv'
<1>1. ASSUME NEW r, AdoptReply(r), pass' # "done" PROVE ViewInv'
  <2>1. IsView(gView')
    BY <1>1, Rendered, RenderedIsView
  <2> QED BY <1>1, <2>1 DEF ViewInv, WordsAgree
<1>2. CASE PumpCommand
  BY <1>1, <1>2 DEF PumpCommand, viewVars, ViewInv, WordsAgree
<1>3. CASE PumpPoll
  BY <1>1, <1>3 DEF PumpPoll, viewVars, ViewInv, WordsAgree
<1>4. CASE Click \/ Suspend \/ Resume \/ MediaChange \/ Wake
  BY <1>4 DEF Click, Suspend, Resume, MediaChange, Wake, viewVars, ViewInv, WordsAgree
<1>5. CASE AnswerCommand \/ AnswerPoll \/ PlayerChanges \/ UNCHANGED vars
  BY <1>5 DEF AnswerCommand, AnswerPoll, PlayerChanges, vars, viewVars, snapVars, mediaVars,
              ViewInv, WordsAgree, TickCount, clockVars
<1>7. CASE Tick
  <2> DEFINE drawn == Since(TickCount, lastDraw)
  <2>1. /\ time' = time + 1 /\ slept' = slept + 1 /\ pass = "done" /\ lastDraw' = lastDraw
        /\ UNCHANGED <<gView, gSnap, engine>>
    BY <1>7 DEF Tick, viewVars, snapVars, mediaVars
  <2>2. time \in Nat /\ lastDraw \in Ticks /\ slept \in Nat
    BY TimeStep DEF TypeInv, ClockInv
  <2>3. drawn \in Ticks /\ Since(TickCount, lastDraw)' \in {0, drawn + 1}
    BY <2>1, <2>2, SinceStep DEF TickCount
  <2>4. Since(TickCount, lastDraw)' >= DrawTicks + slept' => drawn >= DrawTicks + slept
    <3>1. drawn \in Nat
      BY <2>3, Constants DEF Ticks
    <3> HIDE DEF drawn
    <3> QED BY <2>1, <2>2, <2>3, <3>1, Constants
  <2> QED BY <2>1, <2>4 DEF ViewInv, WordsAgree
<1>6. CASE TickView
  <2> DEFINE x == BuildViewIn(gSnap, gSnapTick, gIntent)
             v == cq_view_render(x)
  <2>1. /\ time' = time /\ slept' = 0 /\ UNCHANGED <<gSnap, engine>>
        /\ IF Since(TickCount, lastDraw) < DrawTicks THEN UNCHANGED viewVars
           ELSE \/ gView' = v /\ lastDraw' = TickCount
                \/ ~cq_view_differs(gView, v) /\ UNCHANGED viewVars
    BY <1>6 DEF TickView, snapVars, mediaVars
  <2>2. IsView(v) /\ IsView(gView)
    BY RenderedIsView DEF ViewInv
  <2>3. /\ x.snap = gSnap /\ x.engine = engine[1] /\ x.fill = engine[2]
        /\ x.engine \in cq_engine_phase /\ x.fill \in Nat
        /\ x.snap # NoSnap => x.snap.state \in {"playing", "paused", "stopped"}
    BY DEF BuildViewIn, TypeInv, MediaInv, DocsInv, Doc
  <2> HIDE DEF x
  <2>4. /\ gSnap # NoSnap /\ gSnap.state # "playing" =>
             /\ v.status \notin {"on air", "waiting for Spotify...", "buffering..."}
             /\ v.word # "Playing" /\ ~v.green
        /\ v.progress.cover = (IF gSnap = NoSnap THEN NoTrack ELSE gSnap.album)
        /\ v.status = "" <=> engine[1] = "off"
    <3>1. WordsGo(cq_view_render(x), x.snap, x.engine)
      BY <2>3, WordsOf, Zenon
    <3> QED BY <2>3, <3>1 DEF WordsGo
  <2> HIDE DEF v
  <2>5. TickCount' = TickCount /\ TickCount \in Int /\ TickCount \in Ticks
    BY <2>1, TimeStep, TickCountTick, Constants DEF TickCount, TypeInv, Ticks
  <2>6. CASE Since(TickCount, lastDraw) < DrawTicks
    <3>1. Since(TickCount, lastDraw) \in Int /\ DrawTicks \in Int
      BY <2>5, SinceTick, Constants DEF TypeInv, ClockInv, Ticks
    <3>2. UNCHANGED viewVars /\ ~(Since(TickCount', lastDraw') >= DrawTicks + slept')
      BY <2>1, <2>5, <2>6, <3>1 DEF viewVars
    <3> QED BY <2>2, <3>2 DEF ViewInv, WordsAgree, viewVars
  <2>7. CASE gView' = v /\ lastDraw' = TickCount
    <3>1. Since(TickCount', lastDraw') = 0
      <4>1. TickCount - TickCount = 0 /\ 0 \in 0 .. TickMod - 1
        BY <2>5, Constants
      <4>2. 0 % TickMod = 0
        BY <4>1, ModSmall, Constants
      <4> QED BY <2>5, <2>7, <4>1, <4>2 DEF Since
    <3>2. ~(Since(TickCount', lastDraw') >= DrawTicks + slept')
      BY <2>1, <3>1, Constants
    <3> QED BY <2>2, <2>7, <3>2 DEF ViewInv, WordsAgree
  <2>8. CASE ~cq_view_differs(gView, v) /\ UNCHANGED viewVars
    <3>1. /\ gView'.word = v.word /\ gView'.status = v.status /\ gView'.green = v.green
          /\ gView'.progress.cover = v.progress.cover /\ IsView(gView')
      BY <2>2, <2>8, NotDiffering DEF viewVars
    <3> QED BY <2>1, <2>4, <3>1 DEF ViewInv, WordsAgree
  <2> QED BY <2>1, <2>6, <2>7, <2>8
<1> QED
  BY <1>2, <1>3, <1>4, <1>5, <1>6, <1>7 DEF Next, Loop, External

-----------------------------------------------------------------------------
(* The cadence.                                                             *)
LEMMA CadenceStep ==
  ASSUME ClockInv, CadenceInv, [Next]_vars
  PROVE  CadenceInv'
<1> DEFINE quiet == Since(TickCount, gLastPoll)
<1>0. /\ time \in Nat /\ (time' = time \/ Tick) /\ gLastPoll \in Ticks
      /\ slept \in Nat /\ current \in Base .. Cap /\ silence \in Nat /\ gSuspended \in BOOLEAN
  BY TimeStep DEF ClockInv, CadenceInv
<1>1. quiet \in Ticks /\ quiet \in Nat
  <2>1. quiet \in Ticks
    BY <1>0, SinceStep DEF TickCount
  <2> QED BY <2>1, Constants DEF Ticks
<1>a. ASSUME current' \in Base .. Cap, gSuspended' \in BOOLEAN, silence' = 0
      PROVE  CadenceInv'
  <2>1. silence' \in Nat /\ ~(silence' > 0)
    BY <1>a
  <2> QED BY <1>a, <2>1, Zenon DEF CadenceInv
<1>b. ASSUME UNCHANGED <<clockVars, gLastPoll, gSuspended, silence>>, current' \in Base .. Cap,
             pass # "view", pass' # "view"
      PROVE  CadenceInv'
  BY <1>b DEF CadenceInv, TickCount, clockVars, SinceLook
<1>3. CASE PumpCommand
  <2>1. current' \in Base .. Cap
    BY <1>0, <1>3, BackedOff DEF PumpCommand
  <2>2. /\ UNCHANGED <<clockVars, gSuspended>> /\ pass = "cmd" /\ pass' = "poll"
        /\ \/ gLastPoll' = gLastPoll /\ silence' = silence
           \/ silence' = 0
    BY <1>3 DEF PumpCommand
  <2> QED BY <1>0, <1>a, <1>b, <2>1, <2>2
<1>4. CASE PumpPoll
  <2>1. current' \in Base .. Cap
    BY <1>0, <1>4, BackedOff DEF PumpPoll
  <2>2. /\ UNCHANGED <<clockVars, gSuspended>> /\ pass = "poll" /\ pass' = "view"
        /\ silence' = IF gTx # None \/ gTx' # None \/ gSuspended THEN 0 ELSE silence
    BY <1>4 DEF PumpPoll
  <2>3. CASE silence' = 0
    BY <1>0, <1>a, <2>1, <2>2, <2>3
  <2>4. CASE silence' > 0
    <3>1. /\ gTx = None /\ gTx' = None /\ ~gSuspended /\ silence' = silence
      BY <2>2, <2>4
    <3>2. PollMayWait /\ gLastPoll' = gLastPoll
      BY <1>4, <3>1 DEF PumpPoll, None
    <3>3. PICK i \in current .. current + current \div 4 : quiet < i
      BY <3>2 DEF PollMayWait, cq_backoff_interval_seeded
    <3>4. current + current \div 4 \in Nat /\ current + current \div 4 <= Longest
      BY <1>0, Jitter
    <3>5. quiet < Longest
      <4> DEFINE most == current + current \div 4
      <4>1. i \in current .. most /\ most \in Nat /\ most <= Longest /\ current \in Nat
        BY <1>0, <3>3, <3>4, Constants
      <4> HIDE DEF most, quiet
      <4> QED BY <1>1, <3>3, <4>1, Constants
    <3>6. quiet' = quiet
      BY <2>2, <3>2 DEF TickCount, clockVars
    <3>7. slept <= Idle /\ (silence <= slept \/ silence <= quiet + Idle)
      BY <2>2, <2>4, <3>1 DEF CadenceInv, SinceLook
    <3> HIDE DEF quiet
    <3>8. silence' <= quiet + Idle
      BY <1>0, <1>1, <3>1, <3>7, Constants
    <3>9. slept' = slept /\ SinceLook' = 0 /\ quiet < Longest + 0
      BY <1>1, <2>2, <3>5, Constants DEF SinceLook, clockVars
    <3> QED BY <1>0, <2>1, <2>2, <3>1, <3>6, <3>7, <3>8, <3>9 DEF CadenceInv, quiet
  <2> QED BY <1>0, <2>2, <2>3, <2>4
<1>5. CASE Tick
  <2>1. /\ time' = time + 1 /\ pass = "done" /\ pass' = "done" /\ slept' = slept + 1
        /\ slept < ComputeSleep /\ UNCHANGED <<current, gLastPoll, gSuspended>>
        /\ silence' = IF gTx # None \/ gSuspended THEN 0 ELSE silence + 1
    BY <1>5 DEF Tick
  <2>2. CASE gTx # None \/ gSuspended
    BY <1>0, <1>a, <2>1, <2>2
  <2>3. CASE gTx = None /\ ~gSuspended
    <3>1. ComputeSleep = Idle /\ silence' = silence + 1
      BY <2>1, <2>3 DEF ComputeSleep
    <3>2. quiet # TickMod - 1 => quiet' = quiet + 1
      BY <1>0, <2>1, SinceStep DEF TickCount
    <3>3. SinceLook = slept /\ SinceLook' = slept + 1
      BY <2>1 DEF SinceLook
    <3>4. silence > 0 => silence <= slept \/ (quiet < Longest + slept /\ silence <= quiet + Idle)
      BY <3>3 DEF CadenceInv
    <3> HIDE DEF quiet
    <3>5. slept + 1 <= Idle
      BY <1>0, <2>1, <3>1, Constants
    <3>6. CASE silence <= slept
      <4>1. silence' \in Nat /\ slept' <= Idle /\ silence' <= SinceLook'
        BY <1>0, <2>1, <3>1, <3>3, <3>5, <3>6
      <4> QED BY <1>0, <2>1, <2>3, <4>1 DEF CadenceInv
    <3>7. CASE quiet < Longest + slept /\ silence <= quiet + Idle
      <4>1. quiet # TickMod - 1
        BY <1>0, <1>1, <3>5, <3>7, Constants
      <4>2. /\ silence' \in Nat /\ slept' <= Idle /\ quiet' = quiet + 1
            /\ quiet + 1 < Longest + (slept + 1) /\ silence' <= (quiet + 1) + Idle
        BY <1>0, <1>1, <2>1, <3>1, <3>2, <3>5, <3>7, <4>1, Constants
      <4> QED BY <1>0, <2>1, <2>3, <3>3, <4>2 DEF CadenceInv, quiet
    <3> QED BY <1>0, <3>4, <3>6, <3>7
  <2> QED BY <2>2, <2>3
<1>6. CASE Suspend
  <2>1. current' = current /\ gSuspended' = TRUE /\ silence' = 0
    BY <1>6 DEF Suspend
  <2> QED BY <1>0, <1>a, <2>1
<1>9. CASE Resume
  <2>1. current' = current /\ gSuspended' = FALSE /\ silence' = silence /\ gSuspended
    BY <1>9 DEF Resume
  <2>2. silence = 0
    BY <1>0, <2>1 DEF CadenceInv
  <2> QED BY <1>0, <1>a, <2>1, <2>2
<1>7. CASE TickView
  <2>1. /\ UNCHANGED <<time, current, gLastPoll, gSuspended, silence>> /\ slept' = 0
        /\ pass = "view" /\ pass' = "done"
    BY <1>7 DEF TickView, pollVars
  <2>2. SinceLook = 0 /\ SinceLook' = 0 /\ slept' <= Idle
    BY <2>1, Constants DEF SinceLook
  <2> QED BY <2>1, <2>2 DEF CadenceInv, TickCount
<1>8. CASE AnswerCommand \/ AnswerPoll \/ PlayerChanges \/ MediaChange \/ Wake \/ Click \/ UNCHANGED vars
  <2>1. /\ UNCHANGED <<clockVars, current, gLastPoll, gSuspended, silence>>
        /\ pass' = pass \/ (pass = "done" /\ pass' = "cmd")
    BY <1>8 DEF AnswerCommand, AnswerPoll, PlayerChanges, MediaChange, Wake, Click, vars, pollVars
  <2>2. SinceLook' = SinceLook
    BY <2>1 DEF SinceLook, clockVars
  <2> QED BY <2>1, <2>2 DEF CadenceInv, TickCount, clockVars
<1> QED
  BY <1>3, <1>4, <1>5, <1>6, <1>7, <1>8, <1>9 DEF Next, Loop, External

-----------------------------------------------------------------------------
(* At launch: no document, nothing said.                                    *)
LEMMA InitInv == Init => Inv
<1> SUFFICES ASSUME Init PROVE Inv
  OBVIOUS
<1>0. /\ Duration \in Nat /\ MaxTime \in Nat /\ 0 \in Ticks /\ 0 \in 0 .. MaxTime
      /\ \A t \in Tracks : t # NoTrack
  <2>1. Duration \in Nat /\ MaxTime \in Nat /\ \A t \in Tracks : t # NoTrack
    BY ScreenAssumption
  <2>2. 0 \in Ticks
    BY Constants DEF Ticks
  <2> QED BY <2>1, <2>2
<1>1. ClockInv
  BY <1>0, Constants DEF Init, ClockInv
<1>2. DocsInv
  <2>1. (CHOOSE t \in Tracks : TRUE) \in Tracks
    <3>1. Tracks # {}
      BY ScreenAssumption
    <3> QED BY <3>1
  <2>2. player \in Player /\ player.track # NoTrack
    BY <1>0, <2>1 DEF Init, Player
  <2> QED BY <2>2 DEF Init, DocsInv, Brings
<1>3. MediaInv
  BY DEF Init, MediaInv, cq_engine_phase
<1>4. HeldInv /\ AnchorInv
  BY DEF Init, HeldInv, AnchorInv, Held, Brings
<1>5. IntentInv
  <2>1. ~gView.ack
    BY AckOf DEF Init
  <2> QED BY <2>1 DEF Init, IntentInv
<1>6. ViewInv
  BY RenderedIsView DEF Init, ViewInv, WordsAgree
<1>7. CadenceInv
  <2>1. Base \in Base .. Cap /\ 0 \in Nat /\ ~(0 > 0)
    BY Constants
  <2> QED BY <2>1, Zenon DEF Init, CadenceInv
<1> QED BY <1>1, <1>2, <1>3, <1>4, <1>5, <1>6, <1>7 DEF Inv, TypeInv

LEMMA NextInv ==
  ASSUME Inv, [Next]_vars
  PROVE  Inv'
<1>1. ClockInv' /\ DocsInv' /\ MediaInv'
  BY ClockStep, DocsStep, MediaStep DEF Inv, TypeInv
<1>2. HeldInv' /\ AnchorInv'
  BY <1>1, HeldStep, AnchorStep DEF Inv
<1>3. IntentInv' /\ ViewInv' /\ CadenceInv'
  BY IntentStep, ViewStep, CadenceStep DEF Inv, TypeInv, ViewInv
<1> QED BY <1>1, <1>2, <1>3 DEF Inv, TypeInv

(* The documents held, the anchor, the intent, the words and the cadence    *)
(* stay as described, whatever the user, the server, the network and the    *)
(* engine do.                                                               *)
THEOREM Invariant == Spec => []Inv
<1>1. Inv /\ [Next]_vars => Inv'
  BY NextInv
<1> QED BY <1>1, InitInv, PTL DEF Spec

(* AckEnds and WordsAgree: an acknowledgement ends in time (its own period, *)
(* one of the draw, and the sleeps) though replies may never come and the   *)
(* clock wraps, and the words go with the snapshot.                         *)
THEOREM ScreenTrue == Spec => []ScreenIsTrue
<1>1. Inv => ScreenIsTrue
  <2> SUFFICES ASSUME Inv PROVE AckEnds
    BY DEF Inv, ViewInv, ScreenIsTrue
  <2> SUFFICES ASSUME gView.ack
               PROVE  /\ gIntent # NoIntent
                      /\ time - gIntent.at < AckTicks + DrawTicks + 2 * Background
    BY DEF AckEnds
  <2> DEFINE age == time - gIntent.at
             drawn == Since(TickCount, lastDraw)
  <2>1. /\ gIntent # NoIntent /\ gIntent.at \in 0 .. time
        /\ \/ age < AckTicks + slept
           \/ drawn < DrawTicks + slept /\ age < AckTicks + Background + drawn
    BY DEF Inv, IntentInv
  <2>2. time \in Nat /\ lastDraw \in Int /\ TickCount \in Int /\ slept \in 0 .. Background
    <3>1. MaxTime \in Nat
      BY ScreenAssumption
    <3> QED BY <3>1, TickCountTick, Constants DEF Inv, TypeInv, ClockInv, Ticks
  <2>3. drawn \in Ticks /\ age \in Nat
    BY <2>1, <2>2, SinceTick
  <2> HIDE DEF age, drawn
  <2>4. age < AckTicks + DrawTicks + 2 * Background
    BY <2>1, <2>2, <2>3, Constants DEF Ticks
  <2> QED BY <2>1, <2>4 DEF age
<1> QED BY <1>1, Invariant, PTL

(* PollComesBack: whatever fails, and however often, the next poll is out   *)
(* when the longest interval and the sleep it ends in are over.             *)
THEOREM PollBack == Spec => []PollComesBack
<1>1. Inv => PollComesBack
  <2> SUFFICES ASSUME Inv, silence > 0 PROVE silence < Longest + 2 * Idle
    BY Constants DEF Inv, CadenceInv, PollComesBack, Longest
  <2> DEFINE quiet == Since(TickCount, gLastPoll)
  <2>1. /\ silence \in Nat /\ slept <= Idle
        /\ silence <= SinceLook \/ (quiet < Longest + SinceLook /\ silence <= quiet + Idle)
    BY DEF Inv, CadenceInv
  <2>2. slept \in Nat /\ SinceLook \in {0, slept}
    BY DEF Inv, TypeInv, ClockInv, SinceLook
  <2>3. quiet \in Nat
    <3>1. MaxTime \in Nat
      BY ScreenAssumption
    <3>2. TickCount \in Int /\ gLastPoll \in Int
      BY <3>1, TickCountTick, Constants DEF Inv, TypeInv, ClockInv, Ticks
    <3>3. quiet \in Ticks
      BY <3>2, SinceTick
    <3> QED BY <3>3, Constants DEF Ticks
  <2> HIDE DEF quiet
  <2> QED BY <2>1, <2>2, <2>3, Constants
<1> QED BY <1>1, Invariant, PTL

-----------------------------------------------------------------------------
(* The bar.                                                                 *)
PositionOf(s, since) ==
  LET pos == s.pos + (IF s.state = "playing" THEN since ELSE 0)
  IN IF pos < 0 THEN 0 ELSE IF s.dur > 0 /\ pos > s.dur THEN s.dur ELSE pos

LEMMA PositionIs == Position = PositionOf(gSnap, Since(TickCount, gSnapTick))
BY DEF Position, position_ms, BuildViewIn, PositionOf

(* Never ahead of a player that nobody touched since the snapshot: a        *)
(* counter that wraps only sets the bar back.                               *)
LEMMA InvNotAhead ==
  ASSUME Inv
  PROVE  NotAhead
<1> SUFFICES ASSUME gSnap # NoSnap, gSnap.state = "playing", player.since < gSnap.made
             PROVE  Position <= player.pos
  BY DEF NotAhead
<1> DEFINE since == Since(TickCount, gSnapTick)
<1>1. PICK a \in gSnap.made - 1 .. time : gSnapTick = (Boot + a) % TickMod
  BY DEF Inv, AnchorInv
<1>2. /\ gSnap.made \in Nat \ {0} /\ gSnap.pos \in 0 .. Duration /\ player.pos \in 0 .. Duration
      /\ time \in Nat /\ Duration \in Nat \ {0}
  <2>1. Duration \in Nat \ {0} /\ MaxTime \in Nat
    BY ScreenAssumption
  <2> QED BY <2>1 DEF Inv, TypeInv, ClockInv, DocsInv, Doc, Player
<1>3. /\ gSnap.dur = Duration
      /\ player.pos = Duration \/ gSnap.pos + (time - (gSnap.made - 1)) <= player.pos
  BY DEF Inv, HeldInv, Held, Told
<1>4. since \in Nat /\ since <= time - a
  <2>1. a \in 0 .. time
    BY <1>1, <1>2
  <2>2. since \in Ticks /\ since <= time - a
    BY <1>1, <1>2, <2>1, Elapsed DEF TickCount
  <2> HIDE DEF since
  <2> QED BY <2>2, Constants DEF Ticks
<1>5. PositionOf(gSnap, since) <= player.pos
  <2> HIDE DEF since
  <2> QED BY <1>1, <1>2, <1>3, <1>4 DEF PositionOf
<1> QED BY <1>5, PositionIs

(* Ages at two moments of a session shorter than the range of the counter.  *)
LEMMA Within ==
  ASSUME NEW a \in Nat, NEW t \in Nat, NEW u \in Nat, NEW m \in Nat, NEW r \in Nat,
         t <= m, u <= m, m < r
  PROVE  t - a < r /\ u - a < r
OBVIOUS

(* An age only grows.                                                       *)
LEMMA Later ==
  ASSUME NEW a \in Nat, NEW t \in Nat, NEW u \in Nat, a <= t, a <= u, t <= u
  PROVE  t - a \in Nat /\ u - a \in Nat /\ t - a <= u - a
OBVIOUS

(* BarIsHonest, for sessions shorter than the range of the tick counter     *)
(* (2.3 years): the bar is never ahead, and while snapshots of one stamp    *)
(* follow one another it does not go back.  Past that range the difference  *)
(* of ticks itself wraps.                                                   *)
THEOREM HonestBar ==
  ASSUME MaxTime < TickMod
  PROVE  Spec => BarIsHonest
<1>1. ASSUME Inv, Inv', [Next]_vars, gSnap # NoSnap, gSnap.ts > 0, gSnap'.ts = gSnap.ts
      PROVE  Position' >= Position
  <2> DEFINE since == Since(TickCount, gSnapTick)
             later == Since(TickCount', gSnapTick')
  <2>1. /\ gSnap \in Doc /\ gSnap.pos \in 0 .. Duration /\ gSnap.dur \in {0, Duration}
        /\ time \in Nat /\ Duration \in Nat \ {0} /\ MaxTime \in Nat
        /\ gSnapTick \in Ticks /\ time \in 0 .. MaxTime /\ time' \in 0 .. MaxTime
    <3>1. Duration \in Nat \ {0} /\ MaxTime \in Nat
      BY ScreenAssumption
    <3> QED BY <1>1, <3>1 DEF Inv, TypeInv, ClockInv, DocsInv, Doc
  <2>2. gSnap' = gSnap /\ gSnapTick' = gSnapTick
    <3>1. CASE AnswerCommand \/ AnswerPoll
      BY <1>1, <3>1, AnsweredCommand, AnsweredPoll DEF Inv
    <3>2. CASE ~AnswerCommand /\ ~AnswerPoll
      <4>1. \/ UNCHANGED <<gSnap, gSnapTick>>
            \/ \E d : Held(d) /\ gSnap' = d /\ gSnapTick' = Anchor(d)
        BY <1>1, <3>2, OtherSteps DEF Held
      <4>2. ASSUME NEW d, Held(d), gSnap' = d, gSnapTick' = Anchor(d)
            PROVE  gSnap' = gSnap /\ gSnapTick' = gSnapTick
        <5>1. /\ Held(gSnap) /\ d.ts = gSnap.ts /\ gSnap.ts \in {0, gSnap.made} /\ d.ts \in {0, d.made}
              /\ d \in Doc
          BY <1>1, <4>2 DEF Held, Inv, HeldInv, TypeInv, DocsInv
        <5>2. d.made = gSnap.made
          BY <1>1, <5>1
        <5>3. Cut(d) = Cut(gSnap)
          BY <1>1, <4>2, <5>1, <5>2 DEF Inv, HeldInv
        <5>4. d = gSnap
          BY <2>1, <5>1, <5>3, CutDoc
        <5> QED BY <1>1, <4>2, <5>1, <5>4 DEF Anchor
      <4> QED BY <4>1, <4>2
    <3> QED BY <3>1, <3>2
  <2>3. since \in Nat /\ later \in Nat /\ since <= later
    <3>1. PICK a \in gSnap.made - 1 .. time : gSnapTick = (Boot + a) % TickMod
      BY <1>1 DEF Inv, AnchorInv
    <3>2. time' \in {time, time + 1} /\ gSnap.made \in Nat \ {0}
      BY <1>1, <2>1, TimeStep DEF Inv, TypeInv, Tick, Doc
    <3>3. /\ a \in 0 .. time /\ a \in 0 .. time' /\ time' \in Nat
          /\ time - a < TickMod /\ time' - a < TickMod
      <4>1. a \in 0 .. time /\ a \in 0 .. time' /\ time' \in Nat
        BY <2>1, <3>1, <3>2
      <4>2. TickMod \in Nat
        BY Constants
      <4>3. /\ a \in Nat /\ time \in Nat /\ MaxTime \in Nat
            /\ time <= MaxTime /\ time' <= MaxTime
        BY <2>1, <4>1
      <4>4. time - a < TickMod /\ time' - a < TickMod
        BY <4>1, <4>2, <4>3, Within
      <4> QED BY <4>1, <4>4
    <3>4. since = time - a
      BY <2>1, <3>1, <3>3, Elapsed DEF TickCount
    <3>5. later = time' - a
      BY <2>2, <3>1, <3>3, Elapsed DEF TickCount
    <3> HIDE DEF since, later
    <3>6. /\ time \in Nat /\ time' \in Nat /\ a \in Nat
          /\ a <= time /\ a <= time' /\ time <= time'
      BY <2>1, <3>2, <3>3
    <3>7. time - a \in Nat /\ time' - a \in Nat /\ time - a <= time' - a
      BY <3>6, Later
    <3> QED BY <3>4, <3>5, <3>7
  <2>4. PositionOf(gSnap, since) <= PositionOf(gSnap, later)
    <3> HIDE DEF since, later
    <3> QED BY <2>1, <2>3 DEF PositionOf
  <2>5. Position = PositionOf(gSnap, since)
    BY PositionIs
  <2>6. Position' = PositionOf(gSnap, later)
    BY <2>2 DEF Position, position_ms, BuildViewIn, PositionOf
  <2>7. PositionOf(gSnap, since) \in Int /\ PositionOf(gSnap, later) \in Int
    <3> HIDE DEF since, later
    <3> QED BY <2>1, <2>3 DEF PositionOf
  <2> HIDE DEF since, later
  <2> QED BY <2>4, <2>5, <2>6, <2>7
<1>2. Inv /\ Inv' /\ [Next]_vars =>
        [/\ NotAhead'
         /\ (gSnap # NoSnap /\ gSnap.ts > 0 /\ gSnap'.ts = gSnap.ts => Position' >= Position)]_vars
  <2>1. Inv' => NotAhead'
    BY InvNotAhead, PTL
  <2> QED BY <1>1, <2>1
<1> QED BY <1>2, Invariant, PTL DEF Spec, BarIsHonest
=============================================================================
