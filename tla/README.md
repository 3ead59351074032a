# Casquinha: specifications and proofs

Casquinha is a Spotify remote for Mac OS 9: a cooperative event loop that polls a
small gopher server, plays its Icecast mount through a decoder of its own, and
draws what it knows. The parts that are hard to get right are the ones where
something else runs in the middle: a preemptive decode task, the Sound interrupt,
replies that arrive late, out of order, or not at all. This directory models them in
TLA+, checks them with TLC and proves what matters most with TLAPS.

Paths are relative to the repository, with `src/` for its root
(`src/os9/casquinha.c`, `src/src/cq_*.c`).

## 1. Inventory

| Component | Source | State | Operations | Hard behaviour | What makes it correct | Modules |
|---|---|---|---|---|---|---|
| Decode pipeline | `cq_decring.c`, `cq_mp3.c` | comp ring, stage, PCM ring, their cursors, eof | claim, commit, eof, idle, reset, pump | three contexts, wraps, tail gate against splices | nothing lost, doubled, reordered or torn; no deadlock of the gate; a dead stream plays out | DecRing, AudioPipe |
| Audio engine | `casquinha.c` 1500-2109, 2174-2209 | `gAuSt`, `gStream`, `gComp`, `gPlaying`, `gRingSkip`, `gMPDecode`, `gDecTask/Cmd/Ack` | StartStream, ServiceAudio, StopAudio, Park/QuitDecTask, DecodeTaskProc, AudioDoubleBack | loop, task and interrupt interleave; the task may die; a stop at any point | resets never race a pass, one pump, no loss before the pipeline, every listen and the quit end | AudioEngine |
| Transport | `cq_transport_ot.c`, `cq_transport_posix.c` | state, status, buffer, endpoint, ticks, cancelled | new, start, poll, drain, cancel, free, notifier | partial sends and reads, resets, deadlines, back-pressure | an endpoint is closed once, deadlines hold, every polled transaction ends | Transport, Transaction |
| Reconciler | `casquinha.c` 640-1030, 1365-1426, 2283-2326, `cq_guard`, `cq_debounce` | snapshot, guard, command, poll and fire channels, single-shot flags, play/from's fallback | AdoptReply, PollNetwork, StartCommand, StartFire, ActionRepeat, PlayFrom, NextCommand, ApplyServerChange | replies of several channels in any order, dropped overlaps | the snapshot never goes back, the launch starts once, a skip is sent, the fallback is what was clicked | Reconciler |
| Screen | `casquinha.c` 120-144, 2115-2171, `cq_view`, `cq_backoff` | intent, snapshot and anchor, interval, last view | SetIntent, RenderView, TickView, backoff | inputs of different ages, a clock that wraps, a loop that sleeps, a caching server, documents without a stamp | words agree with the snapshot, an acknowledgement ends, the bar is honest, the poll comes back | Screen, View |
| Auxiliary transactions | `casquinha.c` 953-980, 1591-1596, 2198-2248, 2327-2392, `cq_cache` | cover and cache, queue poll and kick, fact and probe, playlist | start, end, evict, suspend, resume, server change | a budget of connections, answers that outlive what was asked | nothing kept of another album or server, an open stream is left alone, a due kick is served | Auxiliary |
| Shelf | `casquinha.c` 1136-1179, 1245-1480, 2250-2282 | search, drill, four lists, the list on the screen | RunSearch, StartArtistAlbums, FillResults, ResultKindAt, double click, Add to Queue | two requests in flight for one list | a row means what it shows, the back row names the artist of its albums | Shelf |
| Codecs and lists | `cq_codec`, `cq_track`, `cq_reflist`, `cq_pls`, ParseHttpUrl | none | parse | repeated keys, gaps, numbering | run inside Shelf and Auxiliary | Wire |
| minimp3 | `minimp3.h`, `cq_mp3dec.c` | decoder state | decode a frame | external | only what it consumes and yields | DecRing |
| Drawing, covers' decode, menus, preferences, log | `casquinha.c` | Toolbox | | | not modelled: input and output only | |

They interact by calls on the event loop (the reconciler, the auxiliary transactions
and the shelf own transports, the audio engine owns the stream's), by the cursors that
loop, task and interrupt share, by the words `gDecCmd` and `gDecAck`, and through the
snapshot, which the screen shows, the reconciler decides from and the cover follows.

`PROJECT.json` lists the hazards line by line, with the properties that cover them.

## 2. Modules

```
RingArithmetic   AudioPipe           Wire              View       Transaction
      |              ^              /      \             |             ^
 DecRingProofs -> DecRing       Shelf    Auxiliary     Screen      Transport      Reconciler
      |              |            |          |           |             |              |
      |         AudioEngine  ShelfProofs     |     ScreenProofs  TransportProofs      |
      |              |                AuxiliaryProofs                          ReconcilerProofs
      +---- AudioEngineProofs
```

ScreenProofs and TransportProofs also use RingArithmetic. Each `MC...` module gives the constants TLC needs and nothing else. Every component that
sits on transactions takes from Transport what its properties say: a transaction ends
(`PolledEnds`), with whatever it received; so elsewhere "in flight" is one variable
and the end is an action that may come at any time.

### DecRing and AudioPipe

One **cell** stands for a run of bytes no longer than a frame header (4 bytes), so a
header is whole in its cell. A cell of the stream is named by its position, and `src`
says what `cq_mp3_parse` finds there: no header, or one with a frame length and a
format. Splice junk, frames cut short and changes of format are streams.

| Model | Code |
|---|---|
| `Fill(n)`, `Commit`, `cq_decring_eof` | `cq_decring_claim`, the copy by its caller, `cq_decring_commit`, `cq_decring_eof` |
| `TopUp`, `Copy`, `Release` | the top-up of the stage: read `comp_wr`, copy, barrier, publish `comp_rd` |
| `RingFullOrDry` | the two breaks at the head of the decode loop |
| `Gate`, `Hold`, `Resync`, `Flush` | the tail gate and its three ways out |
| `DecodeFrame`, `SkipJunk` | `cq_mp3dec_frame` and what follows it; a call never consumes nothing on a gated head |
| `Emit`, `Publish` | the copy to the PCM ring, barrier, publish `pcm_wr` |
| `Compact` | the memmove at the end of a pass |
| `Take(n)` | the reader at interrupt time |
| `cq_decring_reset` | `cq_decring_reset` with both PCM cursors zeroed, as its callers do |

The pump is cut at every point where another context can see or change what it shares;
between them it works on its private stage. Cursors count modulo `CursorMod` (2^32)
and the PCM cursors do wrap, after 6.8 hours. `fed`, `taken`, `emitted`, `heard` are
history variables. minimp3 is external: `Found` says which frame a call may take.

AudioPipe is what the pipeline promises, without rings, stages or contexts: bytes arrive
in order, each is consumed once and in order, as part of a frame whose PCM joins the
output or as junk, and the output is played in order. `ImplementsPipe` is the
refinement; a frame counts as consumed when its PCM is published.

### AudioEngine

Extends DecRing: the loop takes `Fill`, `Commit`, `cq_decring_eof`, `ResetRings` (and
`PumpStep` inline), the task `PumpStep`, the interrupt moves `pcm_rd` itself because it
trims and plays in one go.

- `main` is where the event loop is, cut where the task or the interrupt can change what
  it reads next: around the park, between the drain, the pump, the start, the two halves
  of the trim and the two halves of the played-out test.
- `ParkThen(w)` orders PARK and continues at `w` when the task has acknowledged
  (`Parked`) or has been given up (`ParkTimeout`).
- The task reads the command, makes a pass if it is RUN, and acknowledges.
- `torn` records that a reset happened inside a live pass. The pass then ends with a
  `memmove` of a negative length, so the model stops there; the other runs' properties
  are stated for behaviours without it and `engine_park` shows how it comes about.

Abstractions: `gPlaying` also stands for the channel existing. The transport is a buffer
of at most `RxMax` cells which fills as the server likes and may end at any poll. The
response header is `HeadLen` cells without a stream position, and the mount's stream
starts with a frame; mounts without header end or without frame are there as such. The
quit is taken at the end of an iteration, as in the code.

### Transport and Transaction

Transport is one transaction in either implementation, `impl` chosen once. `t` is
`struct cq_transport`. For `"ot"` a poll is one slice (`open_and_connect`,
`pump_connect`, `pump_send`, `pump_recv`) followed by the deadlines (`Settle`); the
connect may be synchronous or reported by `conn_notifier`, which only stores the event,
before or after `OTLook` shows it. For `"posix"` a transaction runs to its end in its
first poll (`run`), a stream connects and sends in the first and is read without
blocking in the next (`pump_stream`). Every provider call may fail where the code
checks it. `TickCount` counts modulo `TickMod`. A cell stands for a run of bytes, and a
loop of reads takes any number of cells that its high-water test allows. The connect
tick is the start tick (`cq_tx_start` sets both).

Transaction is what `cq_transport.h` promises: received in order, never after the end or
a cancel, ended once, and success only with something to hand over or the whole of a
reply that was closed in order.

The POSIX double waits for a silent peer as long as its socket does: the time bounds and
`PolledEnds` are stated for `"ot"`, which is what ships.

### Reconciler

`ch` is the outgoing side as one record: the command, the fire, the last action
(`gLastAction`), the fallback uri and `gNativePlay`. A step of a limb is an operator on
that record, composed as the code composes its calls: `AdoptOut` is AdoptReply's error
branch, `Healthy` or `NotFound`, `Watchdog` and `AutoStart` in that order, `PlayFrom`
leads to `ActionCommand` to `StartCommand`, or to `PlayItem` and `StartFire`. While
AdoptReply runs, the transaction answered is still in flight, which is why the commands
it starts in answer to a command are dropped; `CmdDone` clears it afterwards.

The server answers anything: any document however old, an error, a `not_found` where it
may. `speaks` says whether it has play/from. What a document holds is reduced to its
stamp, state (`ending` is playing within 10 s of the end) and track. Selectors whose
replies and effects are the same are one, `"now"`. Left out: the hold of the volume
slider, and a transaction that cannot be allocated. `gAutoNexted` never adds to its
test (it is cleared by every playing document and the snapshot before the stop is
one), so it has no variable. `auto.first` is false at the start when OPTION is held.

### Screen and View

View is `cq_view.c` as functions of one record. Screen runs it in the event loop, with the
player, a server whose micro-cache may serve the last document again, commands dropped
while another is in flight, replies that fail or come late, polls backing off, suspend
and resume, and a fact and engine that change under it, or go away with the stream or
the server. Positions, stamps and ticks are one unit. The jitter of
`cq_backoff_interval_seeded` is any value of its range.

- **The loop.** A pass is the command's pump, the poll's, TickView. Between two passes
  WaitNextEvent sleeps: `Tick` is a tick of the sleep, `slept` counts them, and `Wake` ends
  it after `ComputeSleep` ticks (1 with a poll in flight, `Idle` without, `Background` when
  suspended and not listening), or sooner at an event. A command in flight does not shorten
  the sleep (2757-2760), so what the screen promises it promises within a sleep. In the code
  the three are 1, 10 and 60 ticks.
- **Documents.** A reply brings its document with a stamp or, cut short, without
  (`Replies`, `Cut`; `ts` is then 0, as `cq_now.c:50` reads it). `accept_ts` adopts it and moves
  no mark, and `Anchor` takes it for new every time (790). When a document was made is a
  history field, `made`, which the program does not see.

### Auxiliary, Shelf, Wire

Auxiliary has the automatic starters (cover, queue poll, fact) under `TxInFlight` and in
the foreground only, and the playlist that opens a stream; the user's transactions are
there as what they take of the budget (`gArtistTx` takes nothing: the code omits it). An
image is a pair of album and of the server it was asked of, both fixed when the request
starts, so that a wrong one can be told. The kick of the queue poll waits for its tick
(`KickDue`, 120 ticks in the code) and is then due; the poll starts when the kick is due or
the interval since the last one is over (`CadenceDue`), and clears the kick in both cases.
`unseen` is history: the queue's last change, settling on the server while the kick waits, and
forgotten when a poll is asked after that. Shelf has the search and the drill; `shown` is what
FillResults last wrote, `ResultKindAt` what a click computes, and a double click that plays
ends in Reconciler's commands. The back row's name is `gBrowseArtist`, set when a drill begins
and cleared by a search; `albumsOf` is history, the artist whose reply filled the albums. A
drill does not drop a search in flight, whose late reply leaves the browse and repaints the
list over the newer drill (2264-2265): the model does it, and as no text says which should
win, no property does either. Both modules read bodies
with Wire, where a body is a sequence of lines split at TABs. `cq_fields_parse` is stated
by its outcome, the value of a key's last line, where the code replaces as it goes: the
position of a field in `cq_fields` is looked at by nobody.

## 3. Fairness

- **DecRing**: the producer commits what it has claimed, the task wakes every 5 ms and
  never blocks in a pass, the Sound Manager keeps interrupting while the channel
  plays. Nothing obliges the server to send.
- **AudioEngine**: weak fairness of the loop, the task and the interrupt; none of the
  user, the server or the death of the task. The park's timeout fires only for a dead
  task, the code's own assumption (`casquinha.c:1750-1753`: 500 ms against 10).
- **Transport**: the loop polls, the clock runs, the caller of a stream drains it. The
  peer owes nothing.
- **Reconciler**: a command ends (Transport's `PolledEnds`); the flush is strongly fair
  because PollNetwork comes to it in the pass in which the command ends, right after
  it (947 and 983), before an event can take the channel again.
- **Auxiliary**: every transaction ends, the clock goes on; the queue poll's start is strongly fair because
  PumpAux comes to it in every pass, before the fact (2327 and 2383), so room that
  comes again and again is found. Room may be taken by the user for ever only by
  gestures, which are bounded.
- **Screen** has no fairness: "eventually" is a bound in ticks (`AckEnds`, `PollComesBack`)
  that counts the loop's sleeps. A tick passes only in a sleep, and a sleep ends at its
  time at the latest: the passes themselves take no time, which is what the 1, 10 and 60
  ticks of `ComputeSleep` suppose (the code has a probe for limbs that do not, `LOOP_PROBE`).

## 4. Runs

| Run | Checks | Bounds |
|---|---|---|
| `decring` | types, cursors, both rings, stage, the gate's two action properties, the refinement of AudioPipe, a dead stream plays out | five spliced streams of 10 cells, frames of 1 to 3; comp ring 4, stage 7, PCM ring 4, cursors modulo 8 |
| `engine` | cursors, one pump, no loss before the pipeline, played out is complete, park returns, quit ends, the tail is played | one stream of 5 cells, comp ring 2, stage 5, PCM ring 6, two listens, three mounts, the task may die |
| `transport` | endpoints, deadlines both ways, buffer, refinement of Transaction, ends | both implementations, replies to 4 cells, high-water 2, reads of 2, deadlines 2 and 4, polls up to 2 ticks apart, ticks modulo 8 from two boots |
| `reconciler` | nothing in flight to a server that was left, the fallback is what was clicked and no play lacks a uri, one start per launch, no roll-back, one empty queue is not believed, a skip is sent, and in the end | one track in queues of 0 or 2 rows and one search hit, stamps 0 to 2, two gestures of any kind, two servers |
| `shelf` | types, rows mapped, the back row names the artist | two queries, two artists, bodies with gaps, repeated keys, junk and errors, five gestures |
| `auxiliary` | nothing of another album or server, stream not overwritten, a due kick is used up and a settled change asked for | two albums in a cache of one, budget 3, two gestures, two servers |
| `screen` | words, acknowledgement, bar, poll | two tracks of 2 ticks, 4 ticks of time, two gestures, outside changes or early wakes, sleeps of 1 and 2, interval 1 to 2, all phases of the engine, refusals and failures, ticks modulo 14 from a boot at 11 |
| `engine_park` | *violated*: resets only while parked | one stream of 7 cells, two listens |
| `engine_deadtask` | *violated*: a dead task goes inline | the same |
| `engine_heldtail` | *violated*: a dead stream ends | one listen, the task does not die |
| `reconciler_notfound` | *violated*: a not_found that is taken for play/from's is play/from's | stamps 0 and 1, three gestures on rows and albums, one server |
| `shelf_click` | *violated*: a click acts on the row it hits | as `shelf` |

The bounds are chosen so that the boundaries are met. The comp ring is smaller than the
stream and the stage divides neither, so both wrap at every offset; cursors wrap within
a listen; the PCM ring holds one or two frames, so it fills; the stage is one cell
deeper than the realignment threshold; staging before playback is smaller than header
and stream; two listens suffice for what a listen can leave to the next. A reply is
longer than the high-water mark and a read, the watchdog and a poll's delay fit
below the wrap, and one boot is just before it. The queue's two rows are enough for a
next row and for none after it; a hit that is in no queue tells a fallback from a row.
The cache of one evicts at the second album. In `screen` the acknowledgement, the draw's period,
a background sleep, the interval and its cap end within the time the run has, and the clock
wraps. In `auxiliary` one gesture makes the change and the other competes with its poll; the
poll of `/now`, the cover and the fact fill the budget by themselves.

Deadlock is not checked where the system does stop: a stream that has ended and been
played, an application that has quit, a freed transaction, a shelf whose user is done,
time that has run out. It is checked for Reconciler and Auxiliary, which never stop.

Reconciler's and Transport's `TypeOK` are in no run: the first is a theorem, the second part of
the invariant that TransportProofs proves. DecRing's `PumpInv` is an ingredient of the proof.

Every property of a passing run has a **mutant**: a definition commented `Mutant:` beside
the one it replaces, a plausible slip in that code which TLC shows to violate it.

**Disagreements found** (`findings` in `PROJECT.json` quotes the lines):

1. `engine_park`: the acknowledgement of an earlier PARK is taken for the present one when
   the task is in its first RUN pass; the reset races it.
2. `engine_deadtask`: the fallback to inline decoding is forgotten by the next listen.
3. `engine_heldtail`: a stream that dies in mid-frame never counts as played out.
4. `reconciler_notfound`: `gFallbackUri` outlives its play/from (swallowed as a repeat, or
   failed otherwise), and an album's `not_found` turns play/from off for the launch.
5. `shelf_click`: RunSearch leaves the drill at once, the rows change with the reply;
   in between a click on a row acts on another.

Four more disagreements with comments beside the code have configurations that are not
among the runs; `tlc -config` on the MC module violates each:

- `DecRing_eof_gate.cfg`: at the end of the stream the gate opens for the whole backlog,
  where `cq_decring.c:114-118` says its true last frame.
- `DecRing_flush.cfg`: a deep stage that `cq_mp3_sync` cannot confirm *yet* is discarded
  with the good frames at its end, where `cq_mp3.h:39-41` says the caller accumulates more
  bytes and retries.
- `Auxiliary_refetch.cfg`: any start of a queue poll uses the kick up (2337). When the
  cadence's interval is over as a fire ends, the refetch is instant and the one two seconds
  later is not made; the comment at 2216-2219 wants the opposite. `KickIsServed` says what
  remains true: a kick that becomes due is served, and the change is asked for by the
  cadence in the end.
- `Screen_unstamped.cfg`: the guard of the anchor against a document served twice (787-790)
  needs a stamp; without one the bar goes back. `BarIsHonest` is stated for documents with
  a stamp.

## 5. Proofs

**DecRingProofs**, for all sizes that satisfy `SizesAssumption` (the ring sizes divide
2^32 and are below it, the largest decoded frame fits the PCM ring, a stage above the
realignment threshold has room for two frames and a header) and any set of streams:
`Invariant`, each safety invariant of `decring` (`TypeCorrect`, `CursorsNeverCross`,
`CompNeverTorn`, `StageInOrder`, `PcmNeverTorn`), and the refinement `Implements`.

None of the invariants is inductive alone: that a cell is intact when it is copied needs
to know which count each cursor stands for, and a cursor modulo `CursorMod` determines
the distance only because the distance is bounded by the ring. `IInv` is the conjunction
of `TypeOK`, `CursorsSafe`, `CompIntact`, `StageContiguous`, `PcmIntact` and `PumpInv`,
the last saying what the pump's locals mean between its steps and what is in the cells
not yet published. Each action has a lemma `...Step` with one step per conjunct; the
decode loop's six share `DecodeLoopStep`. The refinement maps every pump step to a stutter, a
`Skip` or a `Frame` (lemmas `...Pipe`). `RingArithmetic` holds the facts about `%` on
which both rings rest; they are cited by name, `%` being beyond the solvers in context.

Its two action properties are theorems as well. `DeepNeverHeld`: a pass with room for a
frame leaves no more than `Deep` cells staged, so the gate cannot hold a deep stage for ever
(the deadlock of `b27`, `cq_decring.c:121-124`). `DecodeExits` lists the ways out of the
decode loop; the one that holds the stage as it is does so below the threshold, or behind
a confirmed header, and there the gate fails only because the second of two frames is not
whole (`AlignedIsShallow`, which is where `2 * MaxFrameLen <= Deep` is used).
`ResyncSkipsJunk`: what realigning and flushing jump over holds no confirmed header, *except*
behind a header that still awaits its successor. The exception is needed: as first stated,
without it, the property was true only because frames of the run had at most two cells.
With three, the false header at the end of junk makes `cq_mp3_sync` answer "not yet"
and the flush takes the confirmed frames that follow it. `FirstConfirmed` is the lemma:
the search takes the first header that is confirmed unless an unconfirmed one stops it.

**AudioEngineProofs** lifts this to the engine, for all sizes, stagings, mounts and
numbers of listens that `EngineAssumption` admits, whether or not the task may die:
every invariant of `engine` (`EngineTypes`, `EngineCursors`, `PumpAlone`, `NothingLost`),
`PlayedOutIsComplete`, and that the pipeline inside the engine is the abstract pipe of
AudioPipe across all listens (`EngineImplementsPipe`). `RingsOnly` shows that a step of
the engine is a step of the pipeline, a reset or the choice of a stream, so that the
lemmas of DecRingProofs carry over; a reset is safe for the pipeline even when it tears a
pass, because the model follows nothing after it (`torn`). `EInv` adds where the loop may
be in each state of the listen, who may pump (a loop that pumps has no task or a dead
one), where the cells that reached the transport are, and that a pipeline found idle is
at rest: `PumpMore`, that a pass which goes on has something in hand, is what makes
`cq_decring_idle`, which looks at two cursors and the stage only, tell the truth while
the task is in mid-pass. `ClaimFits` and `HandoffGood` hold the one numeric argument:
the handoff stops short of its end only when the ring is full, and the staging is no
larger than the ring. These theorems say nothing about whether a reset *is* torn:
`engine_park` shows that it may be.

**ReconcilerProofs**, for any tracks, stamps, queue lengths, gestures and servers: all six
safety properties of `reconciler`, and `TypeOK`, which is inductive by itself (`NextTyped`): a
helper keeps the side in `Channels`, because a row is a track of a queue (`QueueSeq`,
`NextRowIsRow`) and the fallback is played only where there is one (`Asked`), so that nothing
is sent that no queue or search listed. `Inv` has four parts. `OutInv` says of the outgoing
side that it is *good*: its transactions are the present server's, and the fallback is
that of the play/from in flight. As the code composes helpers, so does the proof: one
lemma per helper says that a good side is left good, with the weaker `Side` for the
moment inside AdoptReply when a command has been answered, its fallback is cleared, and
the command is not yet gone. `GuardInv` ties the guard's stamp to the newest document
adopted, which makes `SnapNeverRollsBack` a consequence of the guard. `LaunchInv` says
that an unused flag means no start yet. The action properties follow from the invariant
action by action.

**AuxiliaryProofs**, for any albums, cache size, budget, playlists and servers: the two
safety properties of `auxiliary`. The cache is a sequence of entries good for the present
server; `CachePut` shows that putting keeps it so, without double keys, within its
size. The cover in flight was asked of this server because a change of server drops it
with the cache.

**TransportProofs**, for every length of request and reply, every high-water mark, read,
deadline, clock and pace of the polls that `TransportAssumption` admits (the connect's
deadline is the shorter, and the longer plus a poll's delay fits below the wrap): the
three invariants of `transport`, `NoEarlyTimeout`, and that both implementations keep the
promise of Transaction (`Implements`). `Inv` adds three parts. `LifeInv` says which
transactions may have an endpoint. `FlowInv` says where the bytes are: received, drained,
on the wire, or lost in a reset, which makes "the whole of the reply" of an orderly close
true. `ClockInv` says that the difference of two wrapped ticks is the age until the age
is past the last deadline, and that the last poll left less than the deadlines: what
`DeadlinesHold` needs to survive a tick. A poll of Open Transport's makes a candidate of
the struct and then puts the deadlines to it: one lemma per state (`...Slice`) shows the
candidate `Settled`, `DeadlinesSettled` and `PollInv` take it from there for all four and
for the polls of a POSIX stream.

**ScreenProofs**, for any tracks, clock, periods, intervals, engine and hand on the player
that `ScreenAssumption` and `ViewAssumption` admit (the periods end before the clock has
gone halfway round, the sleeps included): the three properties of `screen`, whatever the
server's cache, the network and the user do. The parts of `Inv` rest on the types alone, so each is carried
by a lemma of its own (`...Step`).

- `HeldInv` is about the documents anybody still holds, in the cache, in a reply on its way
  or in the snapshot: those of one moment are the same but for a stamp that was lost, none is newer than the cache's, and
  one made after the last touch of the player tells no more of the track than has been
  played since (`Told`). `AnchorInv`: the anchor's tick is that of an adoption, after the
  document was made. Together they are `BarIsHonest` (`InvNotAhead`, `Later`): the bar is not
  ahead, and neither a pass nor a document of the same stamp sets it back. Nothing is said of
  one without a stamp, which does set it back (`Screen_unstamped.cfg`).
- `IntentInv` ties the age of an intent to the time since the last draw, in wrapped ticks:
  an acknowledgement ends in its own period, one of the draw, and the sleep before the pass
  that draws. There is a second sleep in the bound because the counter may wrap between the
  last draw and the end of that sleep, and TickView then waits for its period again.
- `CadenceInv` counts the ticks of silence against those since the last poll and in the sleep,
  which is what makes the longest interval with its jitter (`Longest`) and the sleeps bound
  the silence; for the same reason they are two.

`HonestBar` has a hypothesis, `MaxTime < TickMod`: sessions within the range of the tick
counter (2^32 ticks, 2.3 years). It is not an artefact: `PositionOf` computes with the
difference of two ticks, which starts over at the wrap if no document came in between,
and the bar would then go back. The other two theorems hold for any length.

**ShelfProofs**, for lists of any length and any content of the replies: the three properties
of `shelf`. `Inv` says that the screen shows the lists *as last filled* (`Filled`), in the mode
it was filled in and, in a drill, under the name of the artist the albums were asked for,
because a drill in flight is always the one last named (`DrillNamed`): a search that clears
the name also drops the drill. `RowsMapped` is the arithmetic of `ResultKindAt` against the concatenation
of FillResults (`Joined`, `TwoLists`, `ThreeLists`), for every row and the one beyond. Of Wire it
proves what it uses: a body has finitely many fields, each the value of a line with that
key and a TAB (`FieldsOfReply`), a list ends at its first gap and there is one (`FirstGap`,
by the pigeonhole), and rows are fields (`RowIsField`). Assumed of a body is only that it is a
sequence of lines, and that the artists its lines give are `Artists`: that no other line
passes for one, a line without a TAB say, is part of `TypeCorrect`.

**Model-checked only**: liveness (`DeadStreamPlaysOut`, `ParkReturns`, `QuitEnds`,
`TailIsPlayed`, `PolledEnds`, `StreamEndIsSeen`, `DebouncedIsSent`, `KickIsServed`), which
needs fairness. Every other property of a passing run is a theorem. Nothing recursive is
left: what a recursive parse computes would be an induction over data, out of this
prover's reach, which is why Wire states its parsers by their outcome.

## 6. Not modelled

- What the decoder computes (`minimp3.h`), the decode of covers and all drawing.
- Menus, windows, the parsing and writing of preferences, the Apple Event's text: what
  they start is an action of the module whose state it changes.
- The debug log, its counters and its UDP mirror: nothing reads them.
- The hold of the volume slider, transactions that cannot be allocated in Reconciler, the
  split of bytes into lines and the conversion of numbers and escapes in the codecs.
- The budget's promise: `TxInFlight` is modelled with the omission of `gArtistTx`; the
  user's transactions are never gated, so the code promises no bound to check.

## 7. Next

The volume hold in Screen; hazards that no property
covers yet (`PROJECT.json`), as far as the code says what it wants there.
