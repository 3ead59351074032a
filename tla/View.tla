-------------------------------- MODULE View --------------------------------
(***************************************************************************)
(* cq_view.c: what the player area says, as a function of one input.  Times *)
(* are ticks of a counter that wraps; positions and stamps are counted in  *)
(* ticks as well (the code converts 60 ticks to 1000 ms).                  *)
(***************************************************************************)
EXTENDS Integers

CONSTANTS
  TickMod,         \* TickCount() is a 32-bit counter
  AckTicks,        \* CQ_VIEW_ACK_TICKS
  StarveTicks,     \* CQ_VIEW_STARVE_TICKS
  DryTicks,        \* CQ_VIEW_DRY_TICKS
  FactStale,       \* CQ_VIEW_FACT_STALE_MS
  Second,          \* ticks in a second of the position shown
  Prebuf, Chunk    \* prebuf_target, chunk_bytes

ASSUME ViewAssumption ==
  /\ TickMod \in Nat /\ AckTicks \in Nat /\ AckTicks < TickMod \div 2
  /\ {StarveTicks, DryTicks, FactStale, Second, Prebuf, Chunk} \subseteq Nat \ {0}

NoTrack == 0
Never == -1        \* of an age: no wire open, not starved in this listen
NoSnap == [state |-> "none"]
NoFact == [live |-> -1]
cq_engine_phase == {"off", "tuning", "buffering", "on air"}

Since(now, then) == (now - then) % TickMod

(* The difference read as a signed long.                                    *)
SignedSince(now, then) ==
  LET d == Since(now, then) IN IF 2 * d >= TickMod THEN d - TickMod ELSE d

intent_reflected(in) ==
  LET s == in.snap IN
  /\ s # NoSnap
  /\ \/ /\ in.intent = "skip"
        /\ s.track # NoTrack
        /\ IF in.pre # NoTrack THEN s.track # in.pre ELSE s.state = "playing"
     \/ in.intent = "play" /\ s.state = "playing"
     \/ in.intent = "pause" /\ s.state # "playing"

fact_usable(in) ==
  /\ in.fact # NoFact
  /\ ~(in.snap # NoSnap /\ in.snap.ts > 0 /\ in.fact.ts > 0 /\ in.snap.ts - in.fact.ts > FactStale)

playing_active(in) ==
  in.snap # NoSnap /\ in.snap.state = "playing" /\ in.snap.device = "active"

Silent(in) == fact_usable(in) /\ in.fact.live = 0

mount_anomaly(in) ==
  IF fact_usable(in) THEN in.fact.live = 0 /\ playing_active(in)
  ELSE in.snap # NoSnap /\ in.snap.state = "playing" /\ in.rx_dry >= DryTicks

tail_status(in) == IF in.fill > Chunk THEN "playing out..." ELSE "standing by"

(* The pending intent.                                                      *)
AckActive(in) ==
  /\ in.intent # "none" /\ SignedSince(in.now, in.intent_ticks) < AckTicks
  /\ ~intent_reflected(in)

state_word(in) ==
  IF AckActive(in)
  THEN CASE in.intent = "skip" -> "Skipping..." [] in.intent = "play" -> "Starting..."
         [] OTHER -> "Pausing..."
  ELSE IF in.snap = NoSnap THEN ""
  ELSE CASE in.snap.state = "playing" -> "Playing" [] in.snap.state = "paused" -> "Paused"
         [] OTHER -> "Stopped"

buffer_pct(in) ==
  IF in.engine # "buffering" \/ (Silent(in) /\ playing_active(in)) THEN -1
  ELSE LET pct == (in.fill * 100) \div Prebuf IN IF pct > 99 THEN 99 ELSE pct

OnAirStatus(in) ==
  CASE in.snap # NoSnap /\ in.snap.state # "playing" -> tail_status(in)
    [] OTHER -> CASE mount_anomaly(in) -> "waiting for Spotify..."
    [] OTHER -> CASE Silent(in) -> tail_status(in)
    [] OTHER -> IF in.starve \in 0 .. StarveTicks - 1 THEN "buffering..." ELSE "on air"

status(in) ==
  CASE in.engine = "off" -> ""
    [] in.engine = "tuning" -> "tuning in..."
    [] in.engine = "buffering" ->
         IF buffer_pct(in) = -1 THEN "waiting for Spotify..." ELSE "buffering N%"
    [] in.engine = "on air" -> OnAirStatus(in)

position_ms(in) ==
  LET s == in.snap
      pos == s.pos + (IF s.state = "playing" THEN Since(in.now, in.snap_ticks) ELSE 0)
  IN IF pos < 0 THEN 0 ELSE IF s.dur > 0 /\ pos > s.dur THEN s.dur ELSE pos

NoProgress == [position |-> 0, duration |-> 0, show |-> FALSE, cover |-> NoTrack]
Progress(in) ==
  [position |-> position_ms(in), duration |-> in.snap.dur, show |-> in.snap.dur > 0,
   cover |-> in.snap.album]

cq_view_render(in) ==
  [word |-> state_word(in), ack |-> AckActive(in), status |-> status(in), pct |-> buffer_pct(in),
   green |-> in.snap # NoSnap /\ in.snap.state = "playing",
   progress |-> IF in.snap = NoSnap THEN NoProgress ELSE Progress(in)]

(* Of the position, whole seconds.                                          *)
(* Mutant: the status is not compared. *)
cq_view_differs_NoStatus(a, b) ==
  LET Shown(v) == <<v.word, v.ack, v.pct, v.green,
                    [v.progress EXCEPT !.position = @ \div Second]>>
  IN Shown(a) # Shown(b)

cq_view_differs(a, b) ==
  LET Shown(v) == [v EXCEPT !.progress.position = @ \div Second]
  IN Shown(a) # Shown(b)
=============================================================================
