---------------------------- MODULE AudioEngine ----------------------------
(***************************************************************************)
(* os9/casquinha.c, the audio engine: who feeds, pumps, plays and resets   *)
(* the decode pipeline of DecRing.  Three contexts run it:                 *)
(*   - the event loop, cut where another context can get in between: the   *)
(*     user's toggle, ServiceAudio (the wire, the header, the sync, the    *)
(*     handoff, the start, the trim, the end), StopAudio and the quit;     *)
(*   - the decode task, preemptive, told PARK, RUN or QUIT by the loop,    *)
(*     which acknowledges a command after a full pass in that mode;        *)
(*   - AudioDoubleBack, at Sound interrupt time, while the channel exists. *)
(* Without the task (gMPDecode = 0) the loop pumps inline.                 *)
(*                                                                         *)
(* A reset of the rings under a pass in progress leaves the pass with a    *)
(* stage_len below its used, a negative length for the memmove that ends   *)
(* it: the model stops there, torn.                                        *)
(***************************************************************************)
EXTENDS DecRing

CONSTANTS
  HeadLen,    \* cells of the HTTP response header
  CompMax,    \* CQ_AUD_COMP_MAX: the pre-play staging
  HeadMax,    \* 8 KB: give up without the end of the header
  SyncMax,    \* 32 KB: give up without a frame
  RxMax,      \* the transport's high-water mark
  Chunk,      \* CQ_AUD_CHUNK
  Prebuf,     \* CQ_AUD_PREBUF_PCM
  Target,     \* CQ_AUD_RING_TARGET
  Slack,      \* CQ_AUD_TRIM_SLACK
  Mounts,     \* what answers: "mount", "nohead" (no header), "noframe" (no MP3)
  MayDie,     \* whether the decode task may die
  MaxListens  \* bounds the model

ASSUME EngineAssumption ==
  /\ {HeadMax, SyncMax, CompMax, Prebuf, Target, Slack} \subseteq Nat
  /\ HeadLen \in 1 .. HeadMax /\ HeadMax < CompMax /\ SyncMax < CompMax
  /\ CompMax <= CompSize /\ RxMax \in Nat \ {0} /\ MaxListens \in Nat
  /\ Chunk \in Nat \ {0} /\ 2 * Chunk <= Prebuf /\ Prebuf <= PcmSize
  /\ Prebuf <= Target + Slack /\ Target + Slack < PcmSize /\ Target > 0 /\ Slack > 0
  /\ MayDie \in BOOLEAN /\ Mounts \subseteq {"mount", "nohead", "noframe"}

VARIABLES
  main,       \* where the event loop is
  why,        \* what ParkDecTask returns to
  gAuSt, mount,
  gStream,    \* the stream's transport exists
  st,         \* cq_tx_poll's answer: the stream has ended
  rx,         \* cells buffered in the transport
  sent,       \* history: cells that reached the transport
  gCompLen,
  gPlaying,   \* the Sound channel plays
  gRingSkip, fill,
  gMPDecode, gDecTask, gDecCmd, gDecAck,
  task, cmd,  \* where the decode task is, the command it read
  timedOut,   \* history: a park gave up on the task
  torn,       \* a reset raced a pass
  listens, gRunning

loopVars == <<main, why, fill, st>>
wireVars == <<gAuSt, mount, gStream, rx, sent, gCompLen>>
playVars == <<gPlaying, gRingSkip>>
mpVars   == <<gMPDecode, gDecTask, gDecCmd, gDecAck, task, cmd, timedOut>>
userVars == <<listens, gRunning>>
engineVars == <<loopVars, wireVars, playVars, mpVars, userVars, torn>>
ringVars == vars
allVars  == <<ringVars, engineVars>>

Goto(m) == main' = m /\ UNCHANGED why
Least(a, b) == IF a < b THEN a ELSE b

-----------------------------------------------------------------------------
(* Parking and stopping.                                                    *)
TaskAlive == task \notin {"none", "dead", "done"}

(* ParkDecTask, then whatever w names.                                      *)
ParkThen(w) ==
  /\ main' = "park" /\ why' = w
  /\ gDecCmd' = IF gDecTask THEN "PARK" ELSE gDecCmd

Parked ==
  /\ main = "park"
  /\ ~gDecTask \/ gDecAck = "PARK"
  /\ Goto(why)
  /\ UNCHANGED <<ringVars, fill, st, wireVars, playVars, mpVars, userVars, torn>>

(* The ~500 ms bound: "only trips if the task died".                        *)
ParkTimeout ==
  /\ main = "park" /\ gDecTask /\ gDecAck # "PARK" /\ task = "dead"
  /\ gMPDecode' = FALSE /\ timedOut' = TRUE
  /\ Goto(why)
  /\ UNCHANGED <<ringVars, fill, st, wireVars, playVars, gDecTask, gDecCmd, gDecAck, task,
                 cmd, userVars, torn>>

(* The rings are reset.  A dead task's pass is gone; a live one is torn.    *)
Reset ==
  /\ ResetRings
  /\ claimed' = 0 /\ take' = 0 /\ used' = 0 /\ pump' = "off"
  /\ torn' = (TaskAlive /\ pump # "off")
  /\ UNCHANGED <<src, frame>>

(* StopAudio: the channel and the stream go before the park ...             *)
Stop(w) ==
  /\ gPlaying' = FALSE /\ gStream' = FALSE /\ rx' = 0 /\ gAuSt' = "AU_IDLE" /\ gCompLen' = 0
  /\ ParkThen(w)
  /\ UNCHANGED <<mount, gRingSkip, gMPDecode, gDecTask, gDecAck, task, cmd, timedOut,
                 fill, torn>>

(* ... and the rings after it.                                              *)
StopReset ==
  /\ main \in {"reset", "quitreset"}
  /\ Reset
  /\ gRingSkip' = 0
  /\ Goto(IF main = "reset" THEN "loop" ELSE "quit")
  /\ UNCHANGED <<fill, st, wireVars, gPlaying, mpVars, userVars>>

-----------------------------------------------------------------------------
(* The user.                                                                *)
StartStream ==
  /\ main = "loop" /\ gRunning /\ gAuSt = "AU_IDLE" /\ listens < MaxListens
  /\ listens' = listens + 1
  /\ gAuSt' = "AU_HTTP" /\ gStream' = TRUE /\ rx' = 0 /\ sent' = 0
  /\ mount' \in Mounts /\ src' \in Streams
  /\ UNCHANGED <<compVars, stageVars, pump, pcmVars, loopVars, gCompLen, playVars, mpVars,
                 gRunning, torn>>

ToggleOff ==
  /\ main = "loop" /\ gRunning /\ gAuSt # "AU_IDLE"
  /\ Stop("reset")
  /\ UNCHANGED <<ringVars, sent, st, userVars>>

Quit ==
  /\ main = "loop" /\ gRunning
  /\ gRunning' = FALSE
  /\ Stop("quitreset")
  /\ UNCHANGED <<ringVars, sent, st, listens>>

(* QuitDecTask: park again, order the exit, join or terminate.              *)
QuitDecTask ==
  /\ main = "quit"
  /\ IF gDecTask THEN ParkThen("order") ELSE Goto("exit") /\ UNCHANGED gDecCmd
  /\ UNCHANGED <<ringVars, fill, st, wireVars, playVars, gMPDecode, gDecTask, gDecAck, task,
                 cmd, timedOut, userVars, torn>>

OrderExit ==
  /\ main = "order"
  /\ gDecCmd' = "QUIT" /\ Goto("join")
  /\ UNCHANGED <<ringVars, fill, st, wireVars, playVars, gMPDecode, gDecTask, gDecAck, task,
                 cmd, timedOut, userVars, torn>>

(* The join waits for the exit; its timeout terminates a dead task.         *)
Join ==
  /\ main = "join" /\ task \in {"done", "dead"}
  /\ gDecTask' = FALSE /\ Goto("exit")
  /\ UNCHANGED <<ringVars, fill, st, wireVars, playVars, gMPDecode, gDecCmd, gDecAck, task,
                 cmd, timedOut, userVars, torn>>

-----------------------------------------------------------------------------
(* ServiceAudio before playback: poll and drain into gComp, strip the       *)
(* header, find the first confirmed frame.                                  *)
Poll(n, ended) ==
  /\ gStream /\ n \in 0 .. RxMax - rx /\ sent + n <= HeadLen + StreamLen
  /\ sent' = sent + n /\ st' = ended

(* Mutant: drains into gComp without asking how much room it has left.      *)
PreplayRoom_Whole == CompMax
PreplayRoom == CompMax - gCompLen

ServicePreplay(n, ended) ==
  /\ main = "loop" /\ gRunning /\ gAuSt \in {"AU_HTTP", "AU_SYNC"}
  /\ Poll(n, ended)
  /\ IF ended
     THEN Stop("reset")
     ELSE LET got == Least(rx + n, PreplayRoom)
          IN  /\ gCompLen' = gCompLen + got /\ rx' = rx + n - got
              /\ Goto("header")
              /\ UNCHANGED <<gAuSt, mount, gStream, fill, playVars, mpVars, torn>>
  /\ UNCHANGED <<ringVars, userVars>>

(* Mutant: forgets the body that came in with the end of the header.        *)
AfterHeader_Dropped == 0
AfterHeader == gCompLen - HeadLen
HeaderEnds  == mount # "nohead" /\ gCompLen >= HeadLen

ServiceHeader ==
  /\ main = "header"
  /\ IF gAuSt = "AU_HTTP" /\ ~HeaderEnds /\ gCompLen > HeadMax
     THEN Stop("reset")
     ELSE /\ IF gAuSt = "AU_HTTP" /\ HeaderEnds
             THEN gAuSt' = "AU_SYNC" /\ gCompLen' = AfterHeader
             ELSE UNCHANGED <<gAuSt, gCompLen>>
          /\ Goto("sync")
          /\ UNCHANGED <<mount, gStream, rx, fill, playVars, mpVars, torn>>
  /\ UNCHANGED <<ringVars, sent, st, userVars>>

(* The mount starts with a frame; its successor's header confirms it.       *)
Synced == gAuSt = "AU_SYNC" /\ mount = "mount" /\ gCompLen >= src[0].len + 1

(* Out of memory, no channel, no frame: the listen is given up.             *)
GiveUp == Stop("reset") /\ UNCHANGED <<sent, st>>

(* StartDecTask (which may fail), ParkDecTask.                              *)
OpenAudioOutput ==
  /\ \/ UNCHANGED <<gDecTask, gDecAck, task>> /\ ParkThen("open")
     \/ /\ ~gDecTask
        /\ gDecTask' = TRUE /\ task' = "read" /\ gDecCmd' = "PARK" /\ gDecAck' = "PARK"
        /\ main' = "park" /\ why' = "open"
  /\ UNCHANGED <<fill, st, wireVars, playVars, gMPDecode, cmd, timedOut, torn>>

ServiceSync ==
  /\ main = "sync"
  /\ \/ Synced /\ (GiveUp \/ OpenAudioOutput)
     \/ ~Synced /\ gAuSt = "AU_SYNC" /\ gCompLen > SyncMax /\ GiveUp
     \/ /\ ~Synced /\ ~(gAuSt = "AU_SYNC" /\ gCompLen > SyncMax)
        /\ Goto("loop")
        /\ UNCHANGED <<fill, st, wireVars, playVars, mpVars, torn>>
  /\ UNCHANGED <<ringVars, userVars>>

(* ... the rest of OpenAudioOutput, once ParkDecTask has returned.          *)
Open ==
  /\ main = "open"
  /\ gMPDecode' = gDecTask
  /\ Reset
  /\ gPlaying' = FALSE /\ gRingSkip' = 0 /\ gAuSt' = "AU_PLAY"
  /\ Goto("handoff")
  /\ UNCHANGED <<fill, st, mount, gStream, rx, sent, gCompLen, gDecTask, gDecCmd, gDecAck,
                 task, cmd, timedOut, userVars>>

(* The synced remainder goes to the pipeline, claim by claim.               *)
Handoff ==
  /\ main = "handoff"
  /\ \/ /\ Fill(Least(Contig, gCompLen))
        /\ gCompLen' = gCompLen - claimed'
        /\ UNCHANGED main
     \/ Commit /\ UNCHANGED <<main, gCompLen>>
     \/ /\ claimed = 0 /\ (gCompLen = 0 \/ Contig = 0)
        /\ main' = "run" /\ gCompLen' = 0
        /\ UNCHANGED ringVars
  /\ UNCHANGED <<why, fill, st, gAuSt, mount, gStream, rx, sent, playVars, mpVars, userVars,
                 torn>>

Run ==
  /\ main = "run"
  /\ gDecCmd' = IF gMPDecode THEN "RUN" ELSE gDecCmd
  /\ Goto("pump")
  /\ UNCHANGED <<ringVars, fill, st, wireVars, playVars, gMPDecode, gDecTask, gDecAck, task,
                 cmd, timedOut, userVars, torn>>

-----------------------------------------------------------------------------
(* ServiceAudio in playback: the wire ...                                   *)
ServiceWire(n, ended) ==
  /\ main = "loop" /\ gRunning /\ gAuSt = "AU_PLAY" /\ Poll(n, ended)
  /\ rx' = rx + n
  /\ Goto("drain")
  /\ UNCHANGED <<ringVars, fill, gAuSt, mount, gStream, gCompLen, playVars, mpVars, userVars,
                 torn>>

ServiceNoWire ==
  /\ main = "loop" /\ gRunning /\ gAuSt = "AU_PLAY" /\ ~gStream
  /\ Goto("pump")
  /\ UNCHANGED <<ringVars, fill, st, wireVars, playVars, mpVars, userVars, torn>>

(* DrainStreamToDec, twice when the stream has ended.                       *)
Drain ==
  /\ main \in {"drain", "last"}
  /\ \/ Fill(Least(Contig, rx)) /\ rx' = rx - claimed'
     \/ Commit /\ UNCHANGED rx
  /\ UNCHANGED <<loopVars, gAuSt, mount, gStream, sent, gCompLen, playVars, mpVars, userVars,
                 torn>>

Drained == claimed = 0 /\ (Contig = 0 \/ rx = 0)

DrainEnds ==
  /\ main = "drain" /\ Drained
  /\ Goto(IF st THEN "last" ELSE "pump")
  /\ UNCHANGED <<ringVars, fill, st, wireVars, playVars, mpVars, userVars, torn>>

StreamEnds ==
  /\ main = "last" /\ Drained
  /\ gStream' = FALSE /\ rx' = 0
  /\ cq_decring_eof
  /\ Goto("pump")
  /\ UNCHANGED <<fill, st, gAuSt, mount, sent, gCompLen, playVars, mpVars, userVars, torn>>

(* Mutant: the loop pumps whether or not the task does.                     *)
Inline_Always == TRUE
Inline == ~gMPDecode

(* ... the pump, inline or not ...                                          *)
ServicePump ==
  \/ /\ main = "pump" /\ ~Inline
     /\ Goto("start")
     /\ UNCHANGED <<ringVars, fill, st, wireVars, playVars, mpVars, userVars, torn>>
  \/ /\ (main = "pump" /\ Inline) \/ main = "pumping"
     /\ PumpStep
     /\ Goto(IF pump' = "off" THEN "start" ELSE "pumping")
     /\ UNCHANGED <<fill, st, wireVars, playVars, mpVars, userVars, torn>>

(* Mutant: sits on the tail of a dead stream.                               *)
MayStart_NoTail == ~gPlaying /\ PcmAvail >= Prebuf
MayStart == ~gPlaying /\ (PcmAvail >= Prebuf \/ (~gStream /\ PcmAvail > 0))

(* ... StartDoubleBuffer, which fills both hardware buffers first ...       *)
StartDoubleBuffer ==
  /\ main = "start" /\ MayStart
  /\ \/ /\ gPlaying' = TRUE
        /\ Take(Least(PcmAvail, 2 * Chunk))
        /\ Goto("trim")
        /\ UNCHANGED <<fill, st, wireVars, gRingSkip, mpVars, torn>>
     \/ GiveUp /\ UNCHANGED ringVars
  /\ UNCHANGED userVars

NoStart ==
  /\ main = "start" /\ ~MayStart
  /\ Goto("trim")
  /\ UNCHANGED <<ringVars, fill, st, wireVars, playVars, mpVars, userVars, torn>>

(* ... the latency trim, whose fill may be stale when it is used ...        *)
TrimRead ==
  /\ main = "trim"
  /\ IF gPlaying /\ gRingSkip = 0 /\ PcmAvail > Target + Slack
     THEN fill' = PcmAvail /\ Goto("skip")
     ELSE UNCHANGED fill /\ Goto("check")
  /\ UNCHANGED <<ringVars, st, wireVars, playVars, mpVars, userVars, torn>>

TrimWrite ==
  /\ main = "skip"
  /\ gRingSkip' = fill - Target
  /\ Goto("check") /\ fill' = 0
  /\ UNCHANGED <<ringVars, st, wireVars, gPlaying, mpVars, userVars, torn>>

(* Mutant: forgets what the pump holds in its stage.                        *)
Idle_CompOnly == comp_wr = comp_rd
Idle == cq_decring_idle

(* ... and the end: nothing left to decode, then nothing left to play.      *)
Check ==
  /\ main = "check"
  /\ Goto(IF ~gStream /\ Idle /\ gPlaying THEN "drained" ELSE "loop")
  /\ UNCHANGED <<ringVars, fill, st, wireVars, playVars, mpVars, userVars, torn>>

PlayedOutStop ==
  /\ main = "drained"
  /\ IF pcm_wr = pcm_rd
     THEN GiveUp
     ELSE Goto("loop") /\ UNCHANGED <<fill, st, wireVars, playVars, mpVars, torn>>
  /\ UNCHANGED <<ringVars, userVars>>

-----------------------------------------------------------------------------
(* DecodeTaskProc.                                                          *)
TaskRead ==
  /\ task = "read"
  /\ cmd' = gDecCmd
  /\ task' = CASE gDecCmd = "QUIT" -> "done" [] gDecCmd = "RUN" -> "pass" [] OTHER -> "ack"
  /\ gDecAck' = IF gDecCmd = "QUIT" THEN "QUIT" ELSE gDecAck
  /\ UNCHANGED <<ringVars, loopVars, wireVars, playVars, gMPDecode, gDecTask, gDecCmd,
                 timedOut, userVars, torn>>

TaskPass ==
  /\ task = "pass"
  /\ PumpStep
  /\ task' = IF pump' = "off" THEN "ack" ELSE "pass"
  /\ UNCHANGED <<loopVars, wireVars, playVars, gMPDecode, gDecTask, gDecCmd, gDecAck, cmd,
                 timedOut, userVars, torn>>

(* Mutant: only a pass is acknowledged.                                     *)
TaskAck_RunOnly ==
  /\ task = "ack"
  /\ gDecAck' = (IF cmd = "RUN" THEN "RUN" ELSE gDecAck) /\ task' = "read"
  /\ UNCHANGED <<ringVars, loopVars, wireVars, playVars, gMPDecode, gDecTask, gDecCmd, cmd,
                 timedOut, userVars, torn>>

TaskAck ==
  /\ task = "ack"
  /\ gDecAck' = cmd /\ task' = "read"
  /\ UNCHANGED <<ringVars, loopVars, wireVars, playVars, gMPDecode, gDecTask, gDecCmd, cmd,
                 timedOut, userVars, torn>>

TaskDies ==
  /\ MayDie /\ TaskAlive
  /\ task' = "dead"
  /\ UNCHANGED <<ringVars, loopVars, wireVars, playVars, gMPDecode, gDecTask, gDecCmd,
                 gDecAck, cmd, timedOut, userVars, torn>>

-----------------------------------------------------------------------------
(* AudioDoubleBack: the trim's jump-cut, clamped to what is there; then a   *)
(* whole chunk, a dead stream's last partial one, or silence.               *)
(* Mutant: trusts the loop's arithmetic.                                    *)
Skipped_Unclamped == gRingSkip
Skipped == Least(gRingSkip, PcmAvail)
Played ==
  LET avail == (PcmAvail - Skipped) % CursorMod
  IN  IF avail >= Chunk THEN Chunk ELSE IF ~gStream THEN avail ELSE 0

AudioDoubleBack ==
  /\ gPlaying /\ (Skipped + Played > 0 \/ gRingSkip > 0)
  /\ IF Skipped + Played > 0
     THEN /\ pcm_rd' = Plus(pcm_rd, Skipped + Played)
          /\ heard' = heard + Skipped + Played
          /\ UNCHANGED <<src, compVars, stageVars, pump, pcm, pcm_wr, emitted>>
     ELSE UNCHANGED ringVars
  /\ gRingSkip' = 0
  /\ UNCHANGED <<loopVars, wireVars, gPlaying, mpVars, userVars, torn>>

-----------------------------------------------------------------------------
EngineInit ==
  /\ Init
  /\ main = "loop" /\ why = "loop" /\ fill = 0 /\ st = FALSE
  /\ gAuSt = "AU_IDLE" /\ mount \in Mounts /\ gStream = FALSE
  /\ rx = 0 /\ sent = 0 /\ gCompLen = 0
  /\ gPlaying = FALSE /\ gRingSkip = 0
  /\ gMPDecode = FALSE /\ gDecTask = FALSE /\ gDecCmd = "PARK" /\ gDecAck = "PARK"
  /\ task = "none" /\ cmd = "PARK" /\ timedOut = FALSE
  /\ listens = 0 /\ gRunning = TRUE /\ torn = FALSE

UserStep == StartStream \/ ToggleOff \/ Quit

LoopStep ==
  \/ Parked \/ ParkTimeout \/ StopReset \/ QuitDecTask \/ OrderExit \/ Join
  \/ \E n \in 0 .. RxMax, ended \in BOOLEAN :
       ServicePreplay(n, ended) \/ ServiceWire(n, ended)
  \/ ServiceHeader \/ ServiceSync \/ Open \/ Handoff \/ Run
  \/ ServiceNoWire \/ Drain \/ DrainEnds \/ StreamEnds \/ ServicePump
  \/ StartDoubleBuffer \/ NoStart \/ TrimRead \/ TrimWrite \/ Check \/ PlayedOutStop

TaskStep == TaskRead \/ TaskPass \/ TaskAck

EngineNext == ~torn /\ (UserStep \/ LoopStep \/ TaskStep \/ TaskDies \/ AudioDoubleBack)

EngineSpec == EngineInit /\ [][EngineNext]_allVars

(* The loop and the task are scheduled while they can run, and the Sound    *)
(* Manager keeps interrupting.  The user and the server owe nothing.        *)
EngineFairSpec ==
  /\ EngineSpec
  /\ WF_allVars(~torn /\ LoopStep)
  /\ WF_allVars(~torn /\ TaskStep)
  /\ WF_allVars(~torn /\ AudioDoubleBack)

-----------------------------------------------------------------------------
EngineTypeOK ==
  /\ TypeOK
  /\ main \in {"loop", "park", "reset", "quitreset", "quit", "order", "join", "exit",
               "header", "sync", "open", "handoff", "run", "drain", "last", "pump",
               "pumping", "start", "trim", "skip", "check", "drained"}
  /\ why \in {"loop", "reset", "quitreset", "open", "order"}
  /\ gAuSt \in {"AU_IDLE", "AU_HTTP", "AU_SYNC", "AU_PLAY"}
  /\ mount \in Mounts /\ gStream \in BOOLEAN /\ st \in BOOLEAN
  /\ rx \in 0 .. RxMax /\ sent \in 0 .. HeadLen + StreamLen /\ gCompLen \in 0 .. CompMax
  /\ gPlaying \in BOOLEAN /\ gRingSkip \in 0 .. PcmSize /\ fill \in 0 .. PcmSize
  /\ gMPDecode \in BOOLEAN /\ gDecTask \in BOOLEAN
  /\ gDecCmd \in {"PARK", "RUN", "QUIT"} /\ gDecAck \in {"PARK", "RUN", "QUIT"}
  /\ task \in {"none", "read", "pass", "ack", "dead", "done"}
  /\ cmd \in {"PARK", "RUN", "QUIT"}
  /\ timedOut \in BOOLEAN /\ torn \in BOOLEAN
  /\ listens \in 0 .. MaxListens /\ gRunning \in BOOLEAN

(* The stage and pcm_wr have one writer: the loop never pumps beside a      *)
(* task that is in a pass.                                                  *)
OnePump == ~torn => ~(main = "pumping" /\ task = "pass")

(* Through the transport, the pre-play staging and the comp ring, no cell   *)
(* of a living stream is lost: what arrived is in the pipeline or waits in  *)
(* one of the two buffers before it.                                        *)
NothingLostBeforeThePipe ==
  (~torn /\ gAuSt = "AU_PLAY" /\ gStream) => HeadLen + fed + claimed + gCompLen + rx = sent

(* The engine gives up a dead stream as played out only when every cell     *)
(* that entered the pipeline was consumed and every unit was played.        *)
PlayedOutIsComplete ==
  [][(main = "drained" /\ main' = "park")
       => taken = fed /\ stage_len = 0 /\ pump \notin {"release", "emit", "publish"}
          /\ heard = Len(emitted)]_allVars

(* ParkDecTask always returns, and the quit always ends.                    *)
ParkReturns == main = "park" ~> (main # "park" \/ torn)
QuitEnds    == ~gRunning ~> (main = "exit" \/ torn)

(* PCM of a dead stream is played, however little of it there is.           *)
TailIsPlayed ==
  (gAuSt = "AU_PLAY" /\ ~gStream /\ PcmAvail > 0) ~> (heard = Len(emitted) \/ torn)

(* Cursor and decoder resets happen only while the task is between passes   *)
(* (casquinha.c:1676, 1750, cq_decring.h:34).                               *)
ResetsOnlyParked == ~torn

(* A task found dead is not used again: the next listen pumps inline        *)
(* (casquinha.c:1752, 2009).                                                *)
DeadTaskGoesInline == (timedOut /\ gAuSt = "AU_PLAY") => ~gMPDecode

(* A dead stream that has started to play ends as played out.               *)
DeadStreamEnds ==
  (gAuSt = "AU_PLAY" /\ ~gStream /\ gPlaying) ~> (gAuSt = "AU_IDLE" \/ torn)
=============================================================================
