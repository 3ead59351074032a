----------------------------- MODULE Reconciler -----------------------------
(***************************************************************************)
(* os9/casquinha.c, the reconciler: what the user asked for, what was sent *)
(* and what the server's replicas answer.  One event loop; an action is a  *)
(* pass of it in which one limb finds something to do: an event, the end   *)
(* of a transaction, the settled debounce, a poll that is due.  The        *)
(* transactions end in any order, with any document, however stale, with   *)
(* an error code, or in a failure.                                         *)
(***************************************************************************)
EXTENDS Integers, Sequences

CONSTANTS
  Tracks,    \* track ids in documents and queues, each the id of a uri
  Hits,      \* those of search results
  NoTrack,   \* no track_id in the document; no uri to fall back to
  MaxTs,     \* bounds the model: server timestamps
  Lengths,   \* bounds the model: rows a queue may have
  MaxActs,   \* bounds the model: gestures of the user
  MaxHosts,  \* bounds the model: servers the user goes through
  Gestures   \* bounds the model: the kinds of gesture

ASSUME ReconcilerAssumption ==
  /\ NoTrack \notin Tracks \cup Hits
  /\ MaxTs \in Nat /\ 0 \in Lengths /\ Lengths \subseteq Nat /\ MaxActs \in Nat /\ MaxHosts \in Nat \ {0}

VARIABLES
  ch,         \* the outgoing side, a record: see Channels
  gTx,        \* the /now poll in flight: <<its server>>
  gSnap,
  last_ts,    \* gGuard
  best,       \* history: the newest document adopted of this server
  gQueueItems, gQueueEmptyRuns,
  auto,       \* [first, pending]: gAutoStart /\ ~gAutoWoke, gAutoPlayPending
  starts,     \* history: what the launch has started by itself
  gDeb,       \* the debounced skip
  gHost,
  speaks,     \* whether that server has play/from
  acts        \* bounds the model

snapVars == <<gSnap, last_ts, best>>
queueVars == <<gQueueItems, gQueueEmptyRuns>>
autoVars == <<auto, starts>>
hostVars == <<gHost, speaks>>
loopVars == <<hostVars, acts>>
vars == <<ch, gTx, snapVars, queueVars, autoVars, gDeb, loopVars>>

None == <<>>
Queues == UNION {[1 .. n -> Tracks] : n \in Lengths}

(* A /now document; "ending" is playing within 10 s of the end.             *)
Docs == {d \in [ts : 0 .. MaxTs, state : {"playing", "ending", "paused", "stopped"},
                track : Tracks \cup {NoTrack}] : d.track = NoTrack <=> d.state = "stopped"}
Playing(d) == d.state \in {"playing", "ending"}

-----------------------------------------------------------------------------
(* What goes out.  A selector is a tuple; in flight it has its server.      *)
(* <<"now">> is any command sent at once: volume, seek, wake, the script's  *)
(* play, pause and prev, the launch's wake and play; its reply is the same. *)
Rests == UNION {{SubSeq(q, k, Len(q)) : k \in 1 .. Len(q) + 1} : q \in Queues}

Selectors ==
  {<<"play">>, <<"pause">>, <<"prev">>, <<"next">>, <<"now">>, <<"context">>}
    \cup {<<"from", u, q>> : u \in Tracks \cup Hits, q \in Rests}
Fires == {<<"play1", u>> : u \in Tracks \cup Hits}

Channels == [cmd : {None} \cup (Selectors \X (1 .. MaxHosts)),   \* gCmd
             fire : {None} \cup (Fires \X (1 .. MaxHosts)),      \* gFire
             act : {None} \cup Selectors \cup Fires,             \* gLastAction
             fallback : Tracks \cup Hits \cup {NoTrack},                   \* gFallbackUri
             native : {-1, 0, 1}]                                \* gNativePlay

StartCommand(c, sel) == IF c.cmd = None THEN [c EXCEPT !.cmd = <<sel, gHost>>] ELSE c

StartFire(c, sel) ==
  IF c.act = sel THEN c
  ELSE [c EXCEPT !.act = sel, !.fire = IF @ = None THEN <<sel, gHost>> ELSE @]

ActionCommand(c, sel) == IF c.act = sel THEN c ELSE StartCommand([c EXCEPT !.act = sel], sel)

PlayItem(c, u) == StartFire(c, <<"play1", u>>)

(* Mutant: a play/from is prepared although a command is in flight. *)
PlayFrom_Overlaps(c, u, rest) ==
  IF c.native = -1 THEN PlayItem(c, u)
  ELSE ActionCommand([c EXCEPT !.fallback = u], <<"from", u, rest>>)

PlayFrom(c, u, rest) ==
  IF c.native = -1 THEN PlayItem(c, u)
  ELSE IF c.cmd # None THEN c
  ELSE ActionCommand([c EXCEPT !.fallback = u], <<"from", u, rest>>)

PlayRow(c, q, row) == PlayFrom(c, q[row], SubSeq(q, row + 1, Len(q)))

(* The row after the current track, 0 for none.                             *)
QueueNextRow(q) ==
  LET at == {i \in DOMAIN q : q[i] = gSnap.track}
      first == CHOOSE i \in at : \A j \in at : i <= j IN
  IF q = <<>> THEN 0
  ELSE IF at = {} THEN 1
  ELSE IF first < Len(q) THEN first + 1 ELSE 0

-----------------------------------------------------------------------------
(* AdoptReply.  A reply is an error code or a document with whether our     *)
(* device is the active one.  c is the outgoing side with the transaction   *)
(* answered still in flight.                                                *)

(* Mutant: an older document is told by being older than the one before it. *)
cq_guard_accept_ts_Snap(ts) == ts = 0 \/ gSnap.ts = 0 \/ ts >= gSnap.ts

cq_guard_accept_ts(ts) == ts = 0 \/ last_ts = 0 \/ ts >= last_ts

(* Playing near the end, then stopped: the next row.  gAutoNexted, set here *)
(* and cleared by a playing document, never adds to this test.              *)
Watchdog(c, d) ==
  IF d.state = "stopped" /\ gSnap.state = "ending" /\ QueueNextRow(gQueueItems) # 0
  THEN PlayRow(c, gQueueItems, QueueNextRow(gQueueItems)) ELSE c

(* The first snapshot of the launch decides what the launch starts.         *)
LaunchSends(d, active) == auto.first /\ (~active \/ d.state = "paused")

AutoStart(c, d, active) == IF LaunchSends(d, active) THEN StartCommand(c, <<"now">>) ELSE c

AutoFlags(d, active) ==
  [first |-> FALSE,
   pending |-> (auto.pending \/ (auto.first /\ active /\ d.state = "stopped")) /\ ~Playing(d)]

Accepts(r) == r[1] = "doc" /\ cq_guard_accept_ts(r[2].ts)

(* The snapshot's side.                                                     *)
AdoptSnap(r) ==
  IF Accepts(r)
  THEN LET d == r[2] IN
       /\ gSnap' = d
       /\ last_ts' = IF d.ts = 0 THEN last_ts ELSE d.ts
       /\ best' = IF d.ts > best THEN d.ts ELSE best
       /\ auto' = AutoFlags(d, r[3])
       /\ starts' = IF LaunchSends(d, r[3]) THEN starts + 1 ELSE starts
  ELSE UNCHANGED <<snapVars, autoVars>>

(* The outgoing side: a command's reply settles the play/from fallback.     *)
NotFound(c) == PlayItem([c EXCEPT !.native = -1, !.fallback = NoTrack], c.fallback)
Healthy(c) == [c EXCEPT !.native = 1, !.fallback = NoTrack]

(* Whether it can be play/from's: a command's, with a uri to fall back to.  *)
Asked(c, isCmd) == isCmd /\ c.fallback # NoTrack

AdoptOut(c, isCmd, r) ==
  LET heard == IF Asked(c, isCmd) THEN Healthy(c) ELSE c IN
  CASE r[1] = "error" -> c
    [] r[1] = "not_found" -> IF Asked(c, isCmd) THEN NotFound(c) ELSE c
    [] r[1] = "doc" ->
         IF Accepts(r) THEN AutoStart(Watchdog(heard, r[2]), r[2], r[3]) ELSE heard

(* What a server may answer: play/from is not found where it is not spoken, *)
(* an album may be gone, anything may fail upstream.  The device matters to *)
(* the first snapshot alone.                                                *)
DocReplies == {"doc"} \X Docs \X (IF auto.first THEN BOOLEAN ELSE {TRUE})
Replies(sel) ==
  CASE sel[1] = "from" /\ ~speaks -> {<<"error">>, <<"not_found">>}
    [] sel[1] = "context" -> {<<"error">>, <<"not_found">>} \cup DocReplies
    [] OTHER -> {<<"error">>} \cup DocReplies

-----------------------------------------------------------------------------
Init ==
  /\ ch = [cmd |-> None, fire |-> None, act |-> None, fallback |-> NoTrack, native |-> 0]
  /\ gTx = None
  /\ gSnap = [ts |-> 0, state |-> "stopped", track |-> NoTrack]
  /\ last_ts = 0 /\ best = 0
  /\ gQueueItems = <<>> /\ gQueueEmptyRuns = 0
  /\ auto \in [first : BOOLEAN, pending : {FALSE}]     \* not with OPTION held
  /\ starts = 0
  /\ gDeb = None
  /\ gHost = 1 /\ speaks \in BOOLEAN
  /\ acts = 0

(* HandleEvent: the user's gestures.                                        *)
Event(kind) ==
  /\ kind \in Gestures /\ acts < MaxActs /\ acts' = acts + 1
  /\ UNCHANGED <<gSnap, queueVars, autoVars>>

Sends(c) == ch' = c /\ UNCHANGED <<gTx, last_ts, best, gDeb, hostVars>>

Debounced(sel) ==
  gDeb' = sel /\ UNCHANGED <<ch, gTx, last_ts, best, hostVars>>

ClickPrev == Event("skip") /\ Debounced(<<"prev">>)

NextCommand ==
  /\ Event("skip")
  /\ IF ~Playing(gSnap) /\ QueueNextRow(gQueueItems) # 0
     THEN Sends(PlayRow(ch, gQueueItems, QueueNextRow(gQueueItems)))
     ELSE Debounced(<<"next">>)

TogglePlay ==
  Event("toggle") /\ Sends(ActionCommand(ch, IF Playing(gSnap) THEN <<"pause">> ELSE <<"play">>))

Immediate == Event("script") /\ Sends(StartCommand(ch, <<"now">>))

DoubleClick ==
  /\ Event("row")
  /\ \/ \E row \in DOMAIN gQueueItems : Sends(PlayRow(ch, gQueueItems, row))
     \/ \E u \in Hits : Sends(PlayFrom(ch, u, gQueueItems))

PlayContextAlbum == Event("album") /\ Sends(ActionCommand(ch, <<"context">>))

(* Mutant: the fire in flight to the old server is forgotten. *)
ApplyServerChange_KeepsFire ==
  /\ gHost < MaxHosts /\ gHost' = gHost + 1 /\ speaks' \in BOOLEAN
  /\ ch' = [ch EXCEPT !.cmd = None]
  /\ gTx' = None
  /\ last_ts' = 0 /\ best' = 0
  /\ UNCHANGED gDeb

ApplyServerChange ==
  /\ gHost < MaxHosts /\ gHost' = gHost + 1 /\ speaks' \in BOOLEAN
  /\ ch' = [ch EXCEPT !.cmd = None, !.fire = None]
  /\ gTx' = None
  /\ last_ts' = 0 /\ best' = 0
  /\ UNCHANGED gDeb

(* The script's server command, or a resume that finds another server in    *)
(* the preferences.                                                         *)
ServerChange == Event("server") /\ ApplyServerChange

HandleEvent ==
  \/ ClickPrev \/ NextCommand \/ TogglePlay \/ Immediate \/ DoubleClick \/ PlayContextAlbum
  \/ ServerChange

(* ActionRepeat: the window in which a repeat is swallowed has passed.      *)
WindowOver ==
  /\ ch.act # None /\ ch' = [ch EXCEPT !.act = None]
  /\ UNCHANGED <<gTx, snapVars, queueVars, autoVars, gDeb, loopVars>>

-----------------------------------------------------------------------------
(* PollNetwork.  PumpTx of the command ...                                  *)
CmdLimb == UNCHANGED <<gTx, queueVars, gDeb, loopVars>>

CmdDone ==
  /\ CmdLimb /\ ch.cmd # None
  /\ \E r \in Replies(ch.cmd[1]) :
       /\ AdoptSnap(r)
       /\ ch' = [AdoptOut(ch, TRUE, r) EXCEPT !.cmd = None]

CmdFailed ==
  /\ CmdLimb /\ ch.cmd # None
  /\ ch' = [ch EXCEPT !.cmd = None]
  /\ UNCHANGED <<snapVars, autoVars>>

(* ... the debounced skip, once it has settled and no command is in flight, *)
(* Mutant: the skip is taken whether or not a command is in flight. *)
Flush_Anyway ==
  /\ gDeb # None
  /\ gDeb' = None /\ ch' = StartCommand(ch, gDeb)
  /\ UNCHANGED <<gTx, snapVars, queueVars, autoVars, loopVars>>

(* Mutant: the skip comes after the poll's early return. *)
Flush_AfterPoll ==
  /\ gDeb # None /\ ch.cmd = None /\ gTx = None
  /\ gDeb' = None /\ ch' = StartCommand(ch, gDeb)
  /\ UNCHANGED <<gTx, snapVars, queueVars, autoVars, loopVars>>

Flush ==
  /\ gDeb # None /\ ch.cmd = None
  /\ gDeb' = None /\ ch' = StartCommand(ch, gDeb)
  /\ UNCHANGED <<gTx, snapVars, queueVars, autoVars, loopVars>>

(* ... and the poll; when it may start is Shelf's matter.                   *)
PollLimb == UNCHANGED <<queueVars, gDeb, loopVars>>

PollStarts ==
  /\ PollLimb /\ gTx = None /\ gTx' = <<gHost>>
  /\ UNCHANGED <<ch, snapVars, autoVars>>

PollDone ==
  /\ PollLimb /\ gTx # None /\ gTx' = None
  /\ \E r \in {<<"error">>} \cup DocReplies : AdoptSnap(r) /\ ch' = AdoptOut(ch, FALSE, r)

PollFailed ==
  /\ PollLimb /\ gTx # None /\ gTx' = None
  /\ UNCHANGED <<ch, snapVars, autoVars>>

-----------------------------------------------------------------------------
(* PumpAux: the end of the fire, and of a queue poll.                       *)
AuxLimb == UNCHANGED <<gTx, snapVars, gDeb, loopVars>>

FireEnds ==
  /\ AuxLimb /\ ch.fire # None /\ ch' = [ch EXCEPT !.fire = None]
  /\ UNCHANGED <<queueVars, autoVars>>

(* Rows: adopted; a launch that found the device stopped plays their head.  *)
(* Mutant: the start that was put off for the queue is not used up. *)
QueueRows_KeepsPending(q) ==
  LET plays == auto.pending /\ ~Playing(gSnap) IN
  /\ gQueueItems' = q /\ gQueueEmptyRuns' = 0
  /\ auto' = auto
  /\ starts' = IF plays THEN starts + 1 ELSE starts
  /\ ch' = IF plays THEN PlayRow(ch, q, 1) ELSE ch

QueueRows(q) ==
  LET plays == auto.pending /\ ~Playing(gSnap) IN
  /\ gQueueItems' = q /\ gQueueEmptyRuns' = 0
  /\ auto' = [auto EXCEPT !.pending = FALSE]
  /\ starts' = IF plays THEN starts + 1 ELSE starts
  /\ ch' = IF plays THEN PlayRow(ch, q, 1) ELSE ch

(* No rows: the queue shown goes when they are missing twice; it has gone   *)
(* when the count, here, stays at two.                                     *)
(* Mutant: the first empty answer is believed. *)
QueueEmpty_AtOnce ==
  /\ gQueueEmptyRuns' = IF gQueueEmptyRuns < 2 THEN gQueueEmptyRuns + 1 ELSE 2
  /\ gQueueItems' = <<>>
  /\ UNCHANGED <<ch, autoVars>>

QueueEmpty ==
  /\ gQueueEmptyRuns' = IF gQueueEmptyRuns < 2 THEN gQueueEmptyRuns + 1 ELSE 2
  /\ gQueueItems' = IF gQueueEmptyRuns' = 2 THEN <<>> ELSE gQueueItems
  /\ UNCHANGED <<ch, autoVars>>

QueueDone ==
  /\ AuxLimb
  /\ \/ QueueEmpty
     \/ \E q \in Queues \ {<<>>} : QueueRows(q)

-----------------------------------------------------------------------------
Poll == PollStarts \/ PollDone \/ PollFailed
CommandEnds == CmdDone \/ CmdFailed

Next ==
  HandleEvent \/ WindowOver \/ CommandEnds \/ Flush \/ Poll \/ FireEnds \/ QueueDone

Spec == Init /\ [][Next]_vars

(* A command polled by every pass ends, in Transport's PolledEnds; and the  *)
(* pass in which it ends goes on to the debounced skip before anything else *)
(* can take the channel.                                                    *)
FairSpec == Spec /\ WF_vars(CommandEnds) /\ SF_vars(Flush)

-----------------------------------------------------------------------------
(* Every uri sent is a track's or a hit's, with the rows of a queue behind  *)
(* it: nothing is played that nobody listed, nor the uri of no track.       *)
TypeOK ==
  /\ ch \in Channels
  /\ gTx \in {None} \cup {<<h>> : h \in 1 .. MaxHosts}
  /\ gSnap \in Docs /\ last_ts \in 0 .. MaxTs /\ best \in 0 .. MaxTs
  /\ gQueueItems \in Queues /\ gQueueEmptyRuns \in 0 .. 2
  /\ auto \in [first : BOOLEAN, pending : BOOLEAN]
  /\ starts \in Nat
  /\ gDeb \in {None, <<"prev">>, <<"next">>}
  /\ gHost \in 1 .. MaxHosts /\ speaks \in BOOLEAN
  /\ acts \in 0 .. MaxActs

(* Nothing in flight is for a server the user has left: its reply would be  *)
(* adopted as the new server's.                                             *)
InFlightIsCurrent ==
  /\ ch.cmd # None => ch.cmd[2] = gHost
  /\ ch.fire # None => ch.fire[2] = gHost
  /\ gTx # None => gTx[1] = gHost

(* The uri kept to fall back to is the one of the play/from in flight, so   *)
(* that a server without play/from is made to play what was clicked; and no *)
(* play goes out without a uri, when a not_found finds none kept.           *)
FallbackIsWhatWasClicked ==
  /\ ch.cmd # None /\ ch.cmd[1][1] = "from" => ch.fallback = ch.cmd[1][2]
  /\ ch.fire # None => ch.fire[1][2] # NoTrack

(* A launch starts playback by itself at most once: the wake, the resume or *)
(* the head of the queue, whatever arrives in whatever order afterwards.    *)
LaunchStartsOnce == starts <= 1

(* A document older than one adopted of the same server, on either channel, *)
(* never becomes the snapshot.                                              *)
SnapNeverRollsBack == [][gSnap' # gSnap => gSnap'.ts = 0 \/ gSnap'.ts >= best]_vars

(* The queue shown is emptied only when the queue reads empty twice with no *)
(* row in between.                                                          *)
OneEmptyIsNotBelieved ==
  [][gQueueItems # <<>> /\ gQueueItems' = <<>> => gQueueEmptyRuns >= 1]_vars

(* A skip taken from the debouncer is sent, never dropped on a busy channel.*)
SkipIsNeverDropped ==
  [][gDeb # None /\ gDeb' = None => ch.cmd = None /\ ch'.cmd = <<gDeb, gHost>>]_vars

(* A debounced skip leaves in the end.                                      *)
DebouncedIsSent == gDeb # None ~> gDeb = None

(* What casquinha.c says of the not_found that turns play/from off: it is   *)
(* provably the play/from's.  Then only a server without play/from is taken *)
(* for one.                                                                 *)
NotFoundIsOurs == ch.native = -1 => ~speaks
=============================================================================
