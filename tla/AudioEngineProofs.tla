------------------------- MODULE AudioEngineProofs -------------------------
(***************************************************************************)
(* The audio engine is safe for every ring, staging and stream size, every *)
(* cursor width and any number of listens: its three contexts keep the     *)
(* pipeline of DecRing sound across resets, stops, parks and a dying task. *)
(* Each step of the engine is one of the pipeline's, whose invariant       *)
(* DecRingProofs proves, or leaves the rings alone.                        *)
(***************************************************************************)
EXTENDS AudioEngine, DecRingProofs

-----------------------------------------------------------------------------
(* The strengthened invariant.                                              *)

(* A pipeline at rest, whatever the pump does; and one that is new.         *)
Quiet == taken = fed /\ stage_len = 0 /\ pump \in {"off", "decode", "compact"}
Empty == Quiet /\ fed = 0 /\ claimed = 0 /\ emitted = <<>> /\ heard = 0

(* A stop that has not yet come to its reset.                               *)
Stopping ==
  \/ main \in {"reset", "quitreset"}
  \/ main = "park" /\ why \in {"reset", "quitreset"}

(* Before playback the rings are new; when the loop has found the pipeline  *)
(* idle, nothing wakes it.                                                  *)
RestInv ==
  /\ gAuSt # "AU_PLAY" /\ ~Stopping => Empty
  /\ main = "drained" => Quiet

(* The pump moves what it has, and a frame it found has a length.           *)
PumpMore ==
  /\ pump \in {"copy", "release"} => take > 0
  /\ pump \in {"emit", "publish"} => used > 0

(* Where the event loop may be in each state of the listen.                 *)
Playing == {"handoff", "run", "drain", "last", "pump", "pumping", "start", "trim", "skip",
            "check", "drained"}
Stopped == {"reset", "quitreset", "quit", "order", "join", "exit"}

MainInv ==
  /\ main \in Playing => gAuSt = "AU_PLAY"
  /\ main \in {"header", "sync"} => gAuSt \in {"AU_HTTP", "AU_SYNC"}
  /\ main = "open" => gAuSt = "AU_SYNC"
  /\ main = "park" => why # "loop" /\ gAuSt = IF why = "open" THEN "AU_SYNC" ELSE "AU_IDLE"
  /\ main \in Stopped => gAuSt = "AU_IDLE"
  /\ gAuSt = "AU_IDLE" => gCompLen = 0
  /\ main = "skip" => fill > Target

(* Who pumps: the loop only without a task, or with a dead one.             *)
TaskInv ==
  /\ ~gDecTask => task \in {"none", "done", "dead"}
  /\ gDecTask /\ ~gMPDecode => task = "dead" \/ main = "open" \/ (main = "park" /\ why = "open")
  /\ main = "pumping" => ~gMPDecode

(* Where the cells that reached the transport are.                          *)
WireInv ==
  /\ gAuSt = "AU_HTTP" => gCompLen + rx = sent
  /\ gAuSt = "AU_SYNC" => HeadLen + gCompLen + rx = sent
  /\ gAuSt = "AU_PLAY" /\ gStream => HeadLen + fed + claimed + gCompLen + rx = sent
  /\ main = "handoff" => fed + claimed + gCompLen <= CompMax

EInv ==
  IInv /\ EngineTypeOK /\ PumpMore /\ RestInv /\ MainInv /\ TaskInv /\ WireInv

-----------------------------------------------------------------------------
(* The sizes are numbers.                                                   *)
LEMMA Sizes ==
  /\ HeadLen \in Nat /\ HeadLen >= 1 /\ HeadMax \in Nat /\ SyncMax \in Nat
  /\ CompMax \in Nat /\ RxMax \in Nat /\ MaxListens \in Nat /\ Chunk \in Nat /\ Chunk >= 1
  /\ Prebuf \in Nat /\ Target \in Nat /\ Target > 0 /\ Slack \in Nat
  /\ CompSize \in Nat /\ CompSize >= 1 /\ PcmSize \in Nat /\ PcmSize >= 1
  /\ StreamLen \in Nat /\ StageSize \in Nat /\ CursorMod \in Nat /\ CursorMod >= 1
  /\ CompSize < CursorMod /\ PcmSize < CursorMod
  /\ HeadMax < CompMax /\ SyncMax < CompMax /\ CompMax <= CompSize
BY EngineAssumption, SizesAssumption

(* What can be read of the PCM ring fits it.                                *)
LEMMA PcmBounds ==
  ASSUME IInv
  PROVE  PcmAvail \in 0 .. PcmSize /\ PcmAvail = Len(emitted) - heard
<1>1. TypeOK /\ CursorsSafe
  BY DEF IInv
<1>2. PcmAvail = Len(emitted) - heard
  BY <1>1, TrueDistances, Zenon
<1>3. Numeric
  BY <1>1, Numbers, Zenon
<1> QED
  BY <1>1, <1>2, <1>3 DEF CursorsSafe, Numeric

(* A step that leaves the rings alone.                                      *)
LEMMA RingsKept ==
  ASSUME IInv, PumpMore, UNCHANGED ringVars
  PROVE  /\ IInv' /\ PumpMore' /\ TypeOK'
         /\ Quiet => Quiet'
         /\ Empty => Empty'
         /\ fed' = fed /\ claimed' = claimed /\ fed \in Nat /\ claimed \in Nat
<1>1. /\ taken' = taken /\ fed' = fed /\ stage_len' = stage_len /\ pump' = pump
      /\ claimed' = claimed /\ emitted' = emitted /\ heard' = heard
      /\ take' = take /\ used' = used
  BY DEF ringVars, vars, compVars, stageVars, pcmVars
<1>2. IInv' /\ TypeOK'
  BY StutterStep DEF ringVars, IInv
<1>3. PumpMore'
  BY <1>1 DEF PumpMore
<1>4. fed \in Nat /\ claimed \in Nat
  BY Numbers, Zenon DEF IInv, Numeric
<1> QED
  BY <1>1, <1>2, <1>3, <1>4 DEF Quiet, Empty

-----------------------------------------------------------------------------
(* The pump changes nothing outside its part of the pipeline.               *)
LEMMA PumpKeeps ==
  ASSUME PumpStep
  PROVE  src' = src /\ fed' = fed /\ claimed' = claimed /\ heard' = heard
BY DEF PumpStep, TopUp, Copy, Release, RingFullOrDry, Hold, Resync, Flush, DecodeFrame,
       SkipJunk, Emit, Publish, Compact, LoopFrame, compVars, pcmVars

(* Its steps keep the pipeline's invariant.                                 *)
LEMMA PumpSafe == ASSUME IInv, PumpStep PROVE IInv'
BY TopUpStep, CopyStep, ReleaseStep, DecodeStep, EmitStep, PublishStep, CompactStep
   DEF PumpStep

(* A pass that goes on has something in hand.                               *)
LEMMA PumpHasMore == ASSUME IInv, PumpMore, PumpStep PROVE PumpMore'
<1>0. TypeOK /\ PumpInv
  BY DEF IInv
<1>1. ASSUME TopUp PROVE PumpMore'
  BY <1>1 DEF TopUp, PumpMore
<1>2. ASSUME Copy PROVE PumpMore'
  BY <1>2 DEF Copy, PumpMore
<1>3. ASSUME DecodeFrame PROVE PumpMore'
  <2>1. PICK k \in used .. stage_len - 1 : Found(k) /\ used' = k + HeaderAt(k).len
    BY <1>3 DEF DecodeFrame
  <2>2. pump = "decode" /\ pump' = "emit"
    BY <1>3 DEF DecodeFrame, Ready
  <2> DEFINE u == k + HeaderAt(k).len
  <2>3. k \in Nat /\ u \in Nat /\ k < u
    BY <2>1, <2>2, FoundAt, Zenon
  <2>4. used' = u
    BY <2>1
  <2> HIDE DEF u
  <2>5. used' > 0
    BY <2>3, <2>4
  <2> QED
    BY <2>2, <2>5 DEF PumpMore
<1>4. ASSUME Emit PROVE PumpMore'
  BY <1>4 DEF Emit, PumpMore, stageVars
<1>5. ASSUME Release \/ RingFullOrDry \/ Hold \/ Resync \/ Flush \/ SkipJunk \/ Publish \/ Compact
      PROVE  pump' \in {"off", "decode", "compact"}
  BY <1>5 DEF Release, RingFullOrDry, Hold, Resync, Flush, SkipJunk, Publish, Compact,
              Continue, Break
<1>6. ASSUME pump' \in {"off", "decode", "compact"} PROVE PumpMore'
  BY <1>6 DEF PumpMore
<1> QED
  BY <1>1, <1>2, <1>3, <1>4, <1>5, <1>6 DEF PumpStep

(* A pass over a pipeline at rest moves nothing.                            *)
LEMMA QuietPump ==
  ASSUME IInv, Quiet, PumpStep
  PROVE  Quiet' /\ emitted' = emitted
<1>0. TypeOK /\ CursorsSafe /\ PumpInv
  BY DEF IInv
<1>n. Numeric
  BY <1>0, Numbers, Zenon
<1>1. fed' = fed
  BY PumpKeeps
<1>2. taken = fed /\ stage_len = 0 /\ pump \in {"off", "decode", "compact"}
  BY DEF Quiet
<1>3. used = 0
  BY <1>0, <1>2, <1>n DEF PumpInv, Numeric
<1>4. ~Ready
  BY <1>2, <1>3 DEF Ready
<1>5. CASE TopUp
  <2>1. CompAvail = 0
    <3>1. CompAvail = fed - taken
      BY <1>0, TrueDistances, Zenon
    <3> QED
      BY <1>2, <3>1, <1>n DEF Numeric
  <2>2. take' = 0
    <3>1. StageSize - stage_len >= 0
      BY <1>2, <1>n DEF Numeric
    <3>2. take' = IF CompAvail < StageSize - stage_len THEN CompAvail ELSE StageSize - stage_len
      BY <1>5 DEF TopUp
    <3> QED
      BY <2>1, <3>1, <3>2, <1>n DEF Numeric
  <2>3. pump' = "decode" /\ stage_len' = stage_len /\ taken' = taken /\ emitted' = emitted
    BY <1>5, <2>2 DEF TopUp, compVars, pcmVars
  <2> QED
    BY <1>1, <1>2, <2>3 DEF Quiet
<1>6. CASE RingFullOrDry
  <2>1. pump' = "compact" /\ stage_len' = stage_len /\ taken' = taken /\ emitted' = emitted
    BY <1>6 DEF RingFullOrDry, Break, LoopFrame, compVars, pcmVars
  <2> QED
    BY <1>1, <1>2, <2>1 DEF Quiet
<1>7. CASE Compact
  <2>1. pump' = "off" /\ stage_len' = stage_len - used /\ taken' = taken /\ emitted' = emitted
    BY <1>7 DEF Compact, compVars, pcmVars
  <2> QED
    BY <1>1, <1>2, <1>3, <2>1 DEF Quiet
<1>8. ~(Copy \/ Release \/ Hold \/ Resync \/ Flush \/ DecodeFrame \/ SkipJunk \/ Emit \/ Publish)
  BY <1>2, <1>4 DEF Copy, Release, Hold, Resync, Flush, DecodeFrame, SkipJunk, Emit, Publish
<1> QED
  BY <1>5, <1>6, <1>7, <1>8 DEF PumpStep

(* When the loop finds the pipeline idle, it is at rest.                    *)
LEMMA IdleIsQuiet == ASSUME IInv, PumpMore, Idle PROVE Quiet
<1>0. TypeOK /\ CursorsSafe /\ PumpInv
  BY DEF IInv
<1>n. Numeric
  BY <1>0, Numbers, Zenon
<1>1. comp_wr = comp_rd /\ stage_len = 0
  BY DEF Idle, cq_decring_idle
<1>2. fed - taken \in 0 .. CursorMod - 1
  BY <1>0, <1>n DEF CursorsSafe, Numeric
<1>3. fed = taken
  <2>1. fed % CursorMod = taken % CursorMod
    BY <1>0, <1>1 DEF CursorsSafe
  <2> QED
    BY <1>0, <1>2, <2>1, Integral, Divides, ModSame, Zenon
<1>4. pump \notin {"copy", "release"}
  BY <1>0, <1>3, <1>n DEF PumpInv, PumpMore, Numeric
<1>5. pump \notin {"emit", "publish"}
  BY <1>0, <1>1, <1>n DEF PumpInv, PumpMore, Numeric
<1> QED
  BY <1>0, <1>1, <1>3, <1>4, <1>5 DEF Quiet, TypeOK

-----------------------------------------------------------------------------
(* What the engine does to the rings outside the pump.                      *)

(* A reset empties the pipeline, whatever the pump was doing: it is torn    *)
(* out of its pass, dead or alive.                                          *)
LEMMA ResetSafe ==
  ASSUME IInv, Reset
  PROVE  IInv' /\ TypeOK' /\ PumpMore' /\ Empty'
<1>0. TypeOK
  BY DEF IInv
<1> USE SizesAssumption
<1>1. 0 % CursorMod = 0
  BY ModSmall
<1>u. /\ src' = src /\ comp' = EmptyComp /\ comp_wr' = 0 /\ comp_rd' = 0 /\ eof' = FALSE
      /\ stage' = EmptyStage /\ stage_len' = 0 /\ pcm' = EmptyPcm /\ pcm_wr' = 0 /\ pcm_rd' = 0
      /\ fed' = 0 /\ taken' = 0 /\ emitted' = <<>> /\ heard' = 0
      /\ claimed' = 0 /\ take' = 0 /\ used' = 0 /\ frame' = frame /\ pump' = "off"
  BY DEF Reset, ResetRings
<1>2. TypeOK'
  <2>1. EmptyComp \in [0 .. CompSize - 1 -> Pos \cup {NoCell}]
    BY DEF EmptyComp
  <2>2. EmptyStage \in [0 .. StageSize - 1 -> Pos \cup {NoCell}]
    BY DEF EmptyStage
  <2>3. EmptyPcm \in [0 .. PcmSize - 1 -> (Pos \cup {NoCell}) \X (0 .. MaxPcm)]
    BY DEF EmptyPcm
  <2>4. /\ 0 \in 0 .. CursorMod - 1 /\ 0 \in 0 .. CompSize /\ 0 \in 0 .. StageSize
        /\ 0 \in 0 .. StreamLen /\ 0 \in Nat
    OBVIOUS
  <2>5. <<>> \in Seq(Pos \X (1 .. MaxPcm))
    OBVIOUS
  <2> QED
    BY <1>0, <1>u, <2>1, <2>2, <2>3, <2>4, <2>5 DEF TypeOK
<1>3. CursorsSafe'
  BY <1>u, <1>1 DEF CursorsSafe
<1>4. CompIntact' /\ StageContiguous' /\ PcmIntact'
  BY <1>u DEF CompIntact, StageContiguous, PcmIntact
<1>5. PumpInv'
  BY <1>u DEF PumpInv, StagedUpTo
<1>6. PumpMore' /\ Empty'
  BY <1>u DEF PumpMore, Empty, Quiet
<1> QED
  BY <1>2, <1>3, <1>4, <1>5, <1>6 DEF IInv

(* A new pipeline does not care which stream it will be fed.                *)
LEMMA NewStreamSafe ==
  ASSUME IInv, PumpMore, Empty, src' \in Streams, UNCHANGED <<compVars, stageVars, pump, pcmVars>>
  PROVE  IInv' /\ TypeOK' /\ PumpMore' /\ Empty' /\ fed' = fed /\ claimed' = claimed
<1>u. /\ comp' = comp /\ comp_wr' = comp_wr /\ comp_rd' = comp_rd
      /\ eof' = eof /\ claimed' = claimed /\ fed' = fed /\ taken' = taken
      /\ stage' = stage /\ stage_len' = stage_len /\ take' = take /\ used' = used
      /\ frame' = frame /\ pump' = pump
      /\ pcm' = pcm /\ pcm_wr' = pcm_wr /\ pcm_rd' = pcm_rd
      /\ emitted' = emitted /\ heard' = heard
  BY DEF compVars, stageVars, pcmVars
<1>0. TypeOK /\ CursorsSafe /\ CompIntact /\ StageContiguous /\ PcmIntact /\ PumpInv
  BY DEF IInv
<1>1. TypeOK'
  BY <1>0, <1>u DEF TypeOK
<1>2. CursorsSafe' /\ CompIntact' /\ StageContiguous' /\ PcmIntact'
  BY <1>0, <1>u DEF CursorsSafe, CompIntact, StageContiguous, PcmIntact, StagedUpTo
<1>3. PumpInv'
  BY <1>0, <1>u DEF PumpInv, StagedUpTo, Empty, Quiet
<1>4. PumpMore' /\ Empty'
  BY <1>u DEF PumpMore, Empty, Quiet
<1> QED
  BY <1>1, <1>2, <1>3, <1>4, <1>u DEF IInv

(* The loop's claims are within the ring, and its commits what it claimed.  *)
LEMMA FillSafe ==
  ASSUME IInv, PumpMore, NEW n, Fill(n)
  PROVE  /\ IInv' /\ TypeOK' /\ PumpMore'
         /\ n \in Nat /\ n \in 1 .. CompSize /\ claimed = 0 /\ claimed' = n /\ fed' = fed
<1>0. TypeOK /\ CursorsSafe
  BY DEF IInv
<1>n. Numeric
  BY <1>0, Numbers, Zenon
<1>1. n \in 1 .. Contig
  BY DEF Fill
<1>2. Contig <= CompSize - WriteAt /\ Contig \in Int /\ WriteAt \in 0 .. CompSize - 1
  BY <1>0, ContigFits, WriteAtIndex
<1>3. n \in 1 .. CompSize
  BY <1>1, <1>2, <1>n DEF Numeric
<1>4. IInv'
  BY <1>3, FillStep
<1>5. PumpMore'
  BY DEF PumpMore, Fill, stageVars
<1> QED
  BY <1>3, <1>4, <1>5 DEF IInv, Fill

(* What was claimed is counted once, as fed.                                *)
LEMMA CommitSafe ==
  ASSUME IInv, PumpMore, Commit
  PROVE  IInv' /\ TypeOK' /\ PumpMore' /\ claimed' = 0 /\ fed' = fed + claimed
<1>1. IInv'
  BY CommitStep
<1>2. PumpMore'
  BY DEF PumpMore, Commit, stageVars
<1> QED
  BY <1>1, <1>2 DEF IInv, Commit

(* The end of the stream is only told.                                      *)
LEMMA EofSafe ==
  ASSUME IInv, PumpMore, cq_decring_eof
  PROVE  IInv' /\ TypeOK' /\ PumpMore' /\ claimed' = claimed /\ fed' = fed
<1>1. IInv'
  BY EofStep
<1>2. PumpMore'
  BY DEF PumpMore, cq_decring_eof, stageVars
<1> QED
  BY <1>1, <1>2 DEF IInv, cq_decring_eof

(* Playing takes PCM and nothing else.                                      *)
LEMMA PlaySafe ==
  ASSUME IInv, PumpMore, NEW n, Take(n)
  PROVE  /\ IInv' /\ TypeOK' /\ PumpMore' /\ ~Empty
         /\ Quiet => Quiet'
         /\ claimed' = claimed /\ fed' = fed
<1>1. n \in 1 .. PcmAvail /\ PcmAvail \in 0 .. PcmSize /\ PcmAvail = Len(emitted) - heard
  BY PcmBounds DEF Take
<1>2. PcmSize \in Nat
  BY Sizes
<1>3. n \in 1 .. PcmSize /\ PcmAvail # 0
  BY <1>1, <1>2
<1>4. IInv'
  BY <1>3, TakeStep
<1>5. PumpMore' /\ (Quiet => Quiet')
  BY DEF PumpMore, Quiet, Take, compVars, stageVars
<1>6. ~Empty
  BY <1>1, <1>3 DEF Empty
<1> QED
  BY <1>4, <1>5, <1>6 DEF IInv, Take, compVars

(* A pass keeps the pipeline, and a pipeline at rest.                       *)
LEMMA PassSafe ==
  ASSUME IInv, PumpMore, PumpStep
  PROVE  /\ IInv' /\ TypeOK' /\ PumpMore'
         /\ Quiet => Quiet'
         /\ Empty => Empty'
         /\ claimed' = claimed /\ fed' = fed
<1>1. IInv' /\ PumpMore'
  BY PumpSafe, PumpHasMore
<1>2. src' = src /\ fed' = fed /\ claimed' = claimed /\ heard' = heard
  BY PumpKeeps
<1>3. Quiet => Quiet' /\ emitted' = emitted
  BY QuietPump
<1> QED
  BY <1>1, <1>2, <1>3 DEF Empty, IInv

-----------------------------------------------------------------------------
(* The steps of the engine that leave the rings alone.                      *)

(* Parking, and the quit's exchange with the task.                          *)
LEMMA ParkGood ==
  ASSUME EInv, Parked \/ ParkTimeout \/ QuitDecTask \/ OrderExit \/ Join
  PROVE  EInv'
<1>1. /\ IInv' /\ PumpMore' /\ TypeOK'
      /\ Quiet => Quiet'
      /\ Empty => Empty'
      /\ fed' = fed /\ claimed' = claimed /\ fed \in Nat /\ claimed \in Nat
  BY RingsKept DEF EInv, Parked, ParkTimeout, QuitDecTask, OrderExit, Join
<1> USE <1>1, Sizes DEF EInv, EngineTypeOK, RestInv, MainInv, TaskInv, WireInv, Stopping,
        Playing, Stopped, Goto, ParkThen, loopVars, wireVars, playVars, mpVars, userVars
<1>2. CASE Parked
  BY <1>2 DEF Parked
<1>3. CASE ParkTimeout
  <2>1. gMPDecode' \in BOOLEAN /\ timedOut' \in BOOLEAN
    BY <1>3, Zenon DEF ParkTimeout
  <2>2. /\ task = "dead" /\ main = "park" /\ main' = why
        /\ UNCHANGED <<fill, st, wireVars, playVars, gDecTask, gDecCmd, gDecAck, task, cmd,
                       userVars, torn, why>>
    BY <1>3 DEF ParkTimeout
  <2> QED
    BY <2>1, <2>2
<1>4. CASE QuitDecTask
  BY <1>4 DEF QuitDecTask
<1>5. CASE OrderExit
  BY <1>5 DEF OrderExit
<1>6. CASE Join
  <2>1. gDecTask' \in BOOLEAN /\ (gDecTask' <=> FALSE)
    BY <1>6, Zenon DEF Join
  <2>2. /\ task \in {"done", "dead"} /\ main = "join" /\ main' = "exit"
        /\ UNCHANGED <<fill, st, wireVars, playVars, gMPDecode, gDecCmd, gDecAck, task, cmd,
                       timedOut, userVars, torn, why>>
    BY <1>6 DEF Join
  <2> QED
    BY <2>1, <2>2
<1> QED
  BY <1>2, <1>3, <1>4, <1>5, <1>6

(* A stop, from wherever the loop is not already parking.                   *)
LEMMA StopGood ==
  ASSUME EInv, UNCHANGED ringVars, main \notin {"park", "open"},
         NEW w \in {"reset", "quitreset"}, Stop(w),
         sent' \in 0 .. HeadLen + StreamLen, st' \in BOOLEAN,
         listens' = listens, gRunning' \in BOOLEAN
  PROVE  EInv'
<1>1. /\ IInv' /\ PumpMore' /\ TypeOK'
      /\ fed' = fed /\ claimed' = claimed
  BY RingsKept DEF EInv
<1>2. gPlaying' \in BOOLEAN /\ gStream' \in BOOLEAN
  BY Zenon DEF Stop
<1>3. /\ rx' = 0 /\ gAuSt' = "AU_IDLE" /\ gCompLen' = 0 /\ main' = "park" /\ why' = w
      /\ gDecCmd' \in {"PARK", gDecCmd}
      /\ UNCHANGED <<mount, gRingSkip, gMPDecode, gDecTask, gDecAck, task, cmd, timedOut, fill,
                     torn>>
  BY DEF Stop, ParkThen
<1>4. EngineTypeOK'
  BY <1>1, <1>2, <1>3, Sizes DEF EInv, EngineTypeOK
<1>5. RestInv'
  BY <1>3 DEF RestInv, Stopping
<1>6. MainInv'
  BY <1>3, Sizes DEF MainInv, Playing, Stopped
<1>7. TaskInv'
  BY <1>3 DEF EInv, MainInv, TaskInv
<1>8. WireInv'
  BY <1>3 DEF WireInv
<1> QED
  BY <1>1, <1>4, <1>5, <1>6, <1>7, <1>8 DEF EInv

(* The user's stop and the quit.                                            *)
LEMMA UserStopGood == ASSUME EInv, ToggleOff \/ Quit PROVE EInv'
<1>1. CASE ToggleOff
  BY <1>1, StopGood DEF ToggleOff, EInv, EngineTypeOK, userVars
<1>2. CASE Quit
  BY <1>2, StopGood DEF Quit, EInv, EngineTypeOK
<1> QED
  BY <1>1, <1>2

(* Before playback: what is polled is staged, or left in the transport.     *)
LEMMA PreplayGood ==
  ASSUME EInv, NEW n \in 0 .. RxMax, NEW ended \in BOOLEAN, ServicePreplay(n, ended)
  PROVE  EInv'
<1>1. /\ IInv' /\ PumpMore' /\ TypeOK'
      /\ Quiet => Quiet'
      /\ Empty => Empty'
      /\ fed' = fed /\ claimed' = claimed /\ fed \in Nat /\ claimed \in Nat
  BY RingsKept DEF EInv, ServicePreplay
<1>2. /\ n \in Nat /\ sent' = sent + n /\ sent' \in 0 .. HeadLen + StreamLen /\ st' \in BOOLEAN
      /\ rx + n <= RxMax /\ rx \in Nat /\ gCompLen \in 0 .. CompMax /\ sent \in Nat
  BY Sizes DEF ServicePreplay, Poll, EInv, EngineTypeOK
<1>3. CASE ended
  <2>1. main = "loop" /\ Stop("reset") /\ UNCHANGED ringVars
        /\ listens' = listens /\ gRunning' = gRunning
    BY <1>3 DEF ServicePreplay, userVars
  <2> QED
    BY <2>1, <1>2, StopGood DEF EInv, EngineTypeOK
<1>4. CASE ~ended
  <2> DEFINE got == Least(rx + n, PreplayRoom)
  <2>1. got \in Nat /\ got <= rx + n /\ gCompLen + got \in 0 .. CompMax
    BY <1>2, Sizes DEF Least, PreplayRoom
  <2>2. gCompLen' = gCompLen + got /\ rx' = rx + n - got
    BY <1>4 DEF ServicePreplay
  <2> HIDE DEF got
  <2>3. rx' \in 0 .. RxMax /\ gCompLen' \in 0 .. CompMax /\ gCompLen' + rx' = gCompLen + rx + n
    BY <1>2, <2>1, <2>2, Sizes
  <2>4. UNCHANGED <<gAuSt, mount, gStream, fill, playVars, mpVars, torn, why, userVars>>
        /\ main' = "header" /\ gAuSt \in {"AU_HTTP", "AU_SYNC"} /\ main = "loop"
    BY <1>4 DEF ServicePreplay, Goto
  <2>5. WireInv'
    <3>1. gAuSt' \in {"AU_HTTP", "AU_SYNC"} /\ gAuSt' = gAuSt /\ main' = "header"
      BY <2>4
    <3>2. /\ gAuSt = "AU_HTTP" => gCompLen + rx = sent
          /\ gAuSt = "AU_SYNC" => HeadLen + gCompLen + rx = sent
      BY DEF EInv, WireInv
    <3>3. gCompLen' \in Nat /\ rx' \in Nat /\ HeadLen \in Nat /\ gCompLen \in Nat
      BY <1>2, <2>3, Sizes
    <3>5. sent' = sent + n /\ n \in Nat /\ sent \in Nat /\ rx \in Nat /\ got \in Nat
      BY <1>2, <2>1
    <3>4. /\ gAuSt = "AU_HTTP" => gCompLen' + rx' = sent'
          /\ gAuSt = "AU_SYNC" => HeadLen + gCompLen' + rx' = sent'
      BY <3>5, <2>2, <3>2, <3>3
    <3> QED
      BY <3>1, <3>4 DEF WireInv
  <2> QED
    BY <1>1, <1>2, <2>3, <2>4, <2>5
       DEF EInv, EngineTypeOK, RestInv, MainInv, TaskInv, Stopping, Playing, Stopped,
           playVars, mpVars, userVars
<1> QED
  BY <1>3, <1>4

(* The header is stripped, once it is whole.                                *)
LEMMA HeaderGood == ASSUME EInv, ServiceHeader PROVE EInv'
<1>1. /\ IInv' /\ PumpMore' /\ TypeOK'
      /\ Quiet => Quiet'
      /\ Empty => Empty'
      /\ fed' = fed /\ claimed' = claimed /\ fed \in Nat /\ claimed \in Nat
  BY RingsKept DEF EInv, ServiceHeader
<1>2. CASE gAuSt = "AU_HTTP" /\ ~HeaderEnds /\ gCompLen > HeadMax
  <2>1. main = "header" /\ Stop("reset") /\ UNCHANGED ringVars /\ sent' = sent /\ st' = st
        /\ listens' = listens /\ gRunning' = gRunning
    BY <1>2 DEF ServiceHeader, userVars
  <2> QED
    BY <2>1, StopGood DEF EInv, EngineTypeOK
<1>3. CASE ~(gAuSt = "AU_HTTP" /\ ~HeaderEnds /\ gCompLen > HeadMax)
  BY <1>1, <1>3, Sizes
     DEF EInv, EngineTypeOK, RestInv, MainInv, TaskInv, WireInv, Stopping, Playing, Stopped,
         ServiceHeader, HeaderEnds, AfterHeader, Goto, playVars, mpVars, userVars
<1> QED
  BY <1>2, <1>3

(* The first frame opens the output, or the listen is given up.             *)
LEMMA SyncGood == ASSUME EInv, ServiceSync PROVE EInv'
<1>1. /\ IInv' /\ PumpMore' /\ TypeOK'
      /\ Quiet => Quiet'
      /\ Empty => Empty'
      /\ fed' = fed /\ claimed' = claimed /\ fed \in Nat /\ claimed \in Nat
  BY RingsKept DEF EInv, ServiceSync
<1>2. main = "sync" /\ listens' = listens /\ gRunning' = gRunning /\ UNCHANGED ringVars
  BY DEF ServiceSync, userVars
<1>3. CASE GiveUp
  BY <1>2, <1>3, StopGood DEF GiveUp, EInv, EngineTypeOK
<1>4. CASE gAuSt = "AU_SYNC" /\ OpenAudioOutput
  <2>1. gDecTask' \in BOOLEAN /\ (gDecTask => gDecTask')
    BY <1>4, Zenon DEF OpenAudioOutput, EInv, EngineTypeOK
  <2>2. \/ task' = task /\ (gDecTask' <=> gDecTask) /\ gDecAck' = gDecAck
           /\ gDecCmd' \in {"PARK", gDecCmd}
        \/ gDecTask' /\ task' = "read" /\ gDecCmd' = "PARK" /\ gDecAck' = "PARK"
    BY <1>4, Zenon DEF OpenAudioOutput, ParkThen
  <2>3. /\ main' = "park" /\ why' = "open" /\ gAuSt = "AU_SYNC"
        /\ UNCHANGED <<fill, st, wireVars, playVars, gMPDecode, cmd, timedOut, torn>>
    BY <1>4 DEF OpenAudioOutput, ParkThen
  <2> QED
    BY <1>1, <1>2, <2>1, <2>2, <2>3, Sizes
       DEF EInv, EngineTypeOK, RestInv, MainInv, TaskInv, WireInv, Stopping, Playing, Stopped,
           wireVars, playVars
<1>5. CASE Goto("loop") /\ UNCHANGED <<fill, st, wireVars, playVars, mpVars, torn>>
  BY <1>1, <1>2, <1>5, Sizes
     DEF EInv, EngineTypeOK, RestInv, MainInv, TaskInv, WireInv, Stopping, Playing, Stopped,
         Goto, wireVars, playVars, mpVars
<1> QED
  BY <1>3, <1>4, <1>5 DEF ServiceSync, Synced

(* The steps of playback that look at the rings or the wire only.           *)
LEMMA PlaybackGood ==
  ASSUME EInv, Run \/ ServiceNoWire \/ DrainEnds \/ NoStart \/ TrimRead \/ TrimWrite
  PROVE  EInv'
<1>1. /\ IInv' /\ PumpMore' /\ TypeOK'
      /\ Quiet => Quiet'
      /\ Empty => Empty'
      /\ fed' = fed /\ claimed' = claimed /\ fed \in Nat /\ claimed \in Nat
  BY RingsKept DEF EInv, Run, ServiceNoWire, DrainEnds, NoStart, TrimRead, TrimWrite
<1>p. PcmAvail \in 0 .. PcmSize
  BY PcmBounds DEF EInv
<1> USE <1>1, Sizes DEF EInv, EngineTypeOK, RestInv, MainInv, TaskInv, WireInv, Stopping,
        Playing, Stopped, Goto, loopVars, wireVars, playVars, mpVars, userVars
<1>2. CASE Run
  BY <1>2 DEF Run
<1>3. CASE ServiceNoWire
  BY <1>3 DEF ServiceNoWire
<1>4. CASE DrainEnds
  BY <1>4 DEF DrainEnds
<1>5. CASE NoStart
  BY <1>5 DEF NoStart
<1>6. CASE TrimRead
  BY <1>6, <1>p DEF TrimRead
<1>7. CASE TrimWrite
  BY <1>7 DEF TrimWrite
<1> QED
  BY <1>2, <1>3, <1>4, <1>5, <1>6, <1>7

(* What the wire brings in playback waits in the transport.                 *)
LEMMA WireGood ==
  ASSUME EInv, NEW n \in 0 .. RxMax, NEW ended \in BOOLEAN, ServiceWire(n, ended)
  PROVE  EInv'
<1>1. /\ IInv' /\ PumpMore' /\ TypeOK'
      /\ Quiet => Quiet'
      /\ Empty => Empty'
      /\ fed' = fed /\ claimed' = claimed /\ fed \in Nat /\ claimed \in Nat
  BY RingsKept DEF EInv, ServiceWire
<1> QED
  BY <1>1, Sizes
     DEF EInv, EngineTypeOK, RestInv, MainInv, TaskInv, WireInv, Stopping, Playing, Stopped,
         ServiceWire, Poll, Goto, playVars, mpVars, userVars

(* The end: an idle pipeline is at rest, and stays so.                      *)
LEMMA CheckGood == ASSUME EInv, Check \/ PlayedOutStop PROVE EInv'
<1>1. /\ IInv' /\ PumpMore' /\ TypeOK'
      /\ Quiet => Quiet'
      /\ Empty => Empty'
      /\ fed' = fed /\ claimed' = claimed /\ fed \in Nat /\ claimed \in Nat
  BY RingsKept DEF EInv, Check, PlayedOutStop
<1>2. CASE Check
  <2>1. main' = "drained" => Quiet
    BY <1>2, IdleIsQuiet DEF Check, Goto, EInv
  <2> QED
    BY <1>1, <1>2, <2>1
       DEF EInv, EngineTypeOK, RestInv, MainInv, TaskInv, WireInv, Stopping, Playing, Stopped,
           Check, Goto, wireVars, playVars, mpVars, userVars
<1>3. CASE PlayedOutStop /\ pcm_wr = pcm_rd
  <2>1. main = "drained" /\ GiveUp /\ UNCHANGED ringVars /\ listens' = listens /\ gRunning' = gRunning
    BY <1>3 DEF PlayedOutStop, userVars
  <2> QED
    BY <2>1, StopGood DEF GiveUp, EInv, EngineTypeOK
<1>4. CASE PlayedOutStop /\ pcm_wr # pcm_rd
  BY <1>1, <1>4
     DEF EInv, EngineTypeOK, RestInv, MainInv, TaskInv, WireInv, Stopping, Playing, Stopped,
         PlayedOutStop, Goto, wireVars, playVars, mpVars, userVars
<1> QED
  BY <1>2, <1>3, <1>4

(* The task reads a command, acknowledges it, or dies.                      *)
LEMMA TaskGood == ASSUME EInv, TaskRead \/ TaskAck \/ TaskDies PROVE EInv'
<1>1. /\ IInv' /\ PumpMore' /\ TypeOK'
      /\ Quiet => Quiet'
      /\ Empty => Empty'
      /\ fed' = fed /\ claimed' = claimed /\ fed \in Nat /\ claimed \in Nat
  BY RingsKept DEF EInv, TaskRead, TaskAck, TaskDies
<1> USE <1>1, Sizes DEF EInv, EngineTypeOK, RestInv, MainInv, TaskInv, WireInv, Stopping,
        Playing, Stopped, loopVars, wireVars, playVars, userVars
<1>2. CASE TaskRead
  BY <1>2 DEF TaskRead
<1>3. CASE TaskAck
  BY <1>3 DEF TaskAck
<1>4. CASE TaskDies
  BY <1>4 DEF TaskDies, TaskAlive
<1> QED
  BY <1>2, <1>3, <1>4

-----------------------------------------------------------------------------
(* The steps of the engine that move the rings.                             *)

(* A listen starts on a pipeline that is new.                               *)
LEMMA StartStreamGood == ASSUME EInv, StartStream PROVE EInv'
<1>1. Empty /\ gAuSt = "AU_IDLE" /\ main = "loop" /\ gCompLen = 0
  BY DEF EInv, RestInv, MainInv, StartStream, Stopping
<1>2. /\ IInv' /\ TypeOK' /\ PumpMore' /\ Empty'
      /\ fed' = fed /\ claimed' = claimed
  BY <1>1, NewStreamSafe DEF EInv, StartStream
<1>3. gStream' \in BOOLEAN
  BY Zenon DEF StartStream
<1>4. /\ listens' = listens + 1 /\ listens < MaxListens
      /\ gAuSt' = "AU_HTTP" /\ rx' = 0 /\ sent' = 0 /\ mount' \in Mounts
      /\ UNCHANGED <<main, why, fill, st, gCompLen, playVars, mpVars, gRunning, torn>>
  BY DEF StartStream, loopVars
<1> QED
  BY <1>1, <1>2, <1>3, <1>4, Sizes
     DEF EInv, EngineTypeOK, RestInv, MainInv, TaskInv, WireInv, Stopping, Playing, Stopped,
         playVars, mpVars

(* The rings are reset after a stop, and before the handoff.                *)
LEMMA StopResetGood == ASSUME EInv, StopReset PROVE EInv'
<1>1. IInv' /\ PumpMore' /\ TypeOK' /\ Empty'
  BY ResetSafe DEF EInv, StopReset
<1>2. torn' \in BOOLEAN
  BY Zenon DEF StopReset, Reset
<1>3. /\ main \in {"reset", "quitreset"} /\ main' \in {"loop", "quit"} /\ why' = why
      /\ gRingSkip' = 0
      /\ UNCHANGED <<fill, st, wireVars, gPlaying, mpVars, userVars>>
  BY DEF StopReset, Goto
<1> QED
  BY <1>1, <1>2, <1>3, Sizes
     DEF EInv, EngineTypeOK, RestInv, MainInv, TaskInv, WireInv, Stopping, Playing, Stopped,
         wireVars, mpVars, userVars

(* Playback opens on rings just emptied, with or without a task.            *)
LEMMA OpenGood == ASSUME EInv, Open PROVE EInv'
<1>1. IInv' /\ PumpMore' /\ TypeOK' /\ Empty'
  BY ResetSafe DEF EInv, Open
<1>2. /\ torn' \in BOOLEAN /\ gPlaying' \in BOOLEAN
      /\ (gMPDecode' <=> gDecTask) /\ gMPDecode' \in BOOLEAN
  BY Zenon DEF Open, Reset, EInv, EngineTypeOK
<1>3. /\ main = "open" /\ main' = "handoff" /\ why' = why /\ gRingSkip' = 0 /\ gAuSt' = "AU_PLAY"
      /\ UNCHANGED <<fill, st, mount, gStream, rx, sent, gCompLen, gDecTask, gDecCmd, gDecAck,
                     task, cmd, timedOut, userVars>>
  BY DEF Open, Goto
<1>4. fed' = 0 /\ claimed' = 0
  BY <1>1 DEF Empty
<1> QED
  BY <1>1, <1>2, <1>3, <1>4, Sizes
     DEF EInv, EngineTypeOK, RestInv, MainInv, TaskInv, WireInv, Stopping, Playing, Stopped,
         userVars

(* A cell is claimed from what the loop has, and the pipeline has it when   *)
(* it is committed: none is lost or counted twice.                          *)
LEMMA ClaimFits ==
  ASSUME IInv, NEW held \in Nat, Fill(Least(Contig, held))
  PROVE  Least(Contig, held) <= held /\ Least(Contig, held) \in Nat
<1>1. Contig \in Int
  BY ContigFits DEF IInv
<1>2. Least(Contig, held) \in 1 .. Contig
  BY DEF Fill
<1> QED
  BY <1>1, <1>2 DEF Least

(* The handoff only stops short of its end when the ring is full, and the   *)
(* staging is no larger than the ring.                                      *)
LEMMA HandoffGood == ASSUME EInv, Handoff PROVE EInv'
<1>0. /\ IInv /\ PumpMore /\ main = "handoff" /\ gAuSt = "AU_PLAY" /\ main' \in {"handoff", "run"}
      /\ gCompLen \in 0 .. CompMax /\ CompMax \in Nat /\ CompMax <= CompSize
      /\ fed + claimed + gCompLen <= CompMax
  BY Sizes DEF EInv, EngineTypeOK, MainInv, WireInv, Playing, Handoff
<1>n. Numeric
  BY <1>0, Numbers, Zenon DEF IInv
<1>h. HeadLen \in Nat /\ rx \in Nat
  BY Sizes DEF EInv, EngineTypeOK
<1>u. UNCHANGED <<why, fill, st, gAuSt, mount, gStream, rx, sent, playVars, mpVars, userVars, torn>>
  BY DEF Handoff
<1>1. ASSUME /\ IInv' /\ PumpMore' /\ TypeOK'
             /\ gCompLen' \in 0 .. CompMax
             /\ HeadLen + fed' + claimed' + gCompLen' + rx = HeadLen + fed + claimed + gCompLen + rx
             /\ fed' + claimed' + gCompLen' <= CompMax
      PROVE  EInv'
  <2>1. EngineTypeOK'
    BY <1>0, <1>u, <1>1, Sizes DEF EInv, EngineTypeOK, playVars, mpVars, userVars
  <2>2. RestInv' /\ MainInv'
    BY <1>0, <1>u DEF EInv, RestInv, MainInv, Stopping, Playing, Stopped, playVars
  <2>3. TaskInv'
    BY <1>0, <1>u DEF EInv, TaskInv, mpVars
  <2>4. WireInv'
    <3>3. gStream => HeadLen + fed + claimed + gCompLen + rx = sent
      BY <1>0 DEF EInv, WireInv
    <3>4. gAuSt' = gAuSt /\ gStream' = gStream /\ rx' = rx /\ sent' = sent
          /\ main' \in {"handoff", "run", "drain", "last"}
      BY <1>0, <1>u DEF loopVars
    <3>5. fed' + claimed' + gCompLen' <= CompMax
      BY <1>0, <1>1, <3>4 DEF loopVars
    <3> QED
      BY <1>0, <1>1, <3>3, <3>4, <3>5 DEF WireInv
  <2> QED
    BY <1>1, <2>1, <2>2, <2>3, <2>4 DEF EInv
<1>2. CASE Fill(Least(Contig, gCompLen)) /\ gCompLen' = gCompLen - claimed'
  <2> DEFINE n == Least(Contig, gCompLen)
  <2>1. /\ IInv' /\ TypeOK' /\ PumpMore'
        /\ n \in Nat /\ claimed = 0 /\ claimed' = n /\ fed' = fed
    BY <1>0, <1>2, FillSafe
  <2>2. n <= gCompLen
    BY <1>0, <1>2, ClaimFits
  <2> HIDE DEF n
  <2>3. gCompLen' \in 0 .. CompMax /\ fed' + claimed' + gCompLen' <= CompMax
    BY <1>0, <1>n, <1>2, <2>1, <2>2 DEF Numeric
  <2>4. HeadLen + fed' + claimed' + gCompLen' + rx = HeadLen + fed + claimed + gCompLen + rx
    BY <1>0, <1>n, <1>h, <1>2, <2>1, <2>2 DEF Numeric
  <2> QED
    BY <1>1, <2>1, <2>3, <2>4
<1>3. CASE Commit /\ UNCHANGED gCompLen
  <2>1. IInv' /\ TypeOK' /\ PumpMore' /\ claimed' = 0 /\ fed' = fed + claimed
    BY <1>0, <1>3, CommitSafe
  <2> QED
    BY <1>0, <1>1, <1>n, <1>h, <1>3, <2>1 DEF Numeric
<1>4. CASE /\ claimed = 0 /\ (gCompLen = 0 \/ Contig = 0)
           /\ gCompLen' = 0 /\ UNCHANGED ringVars
  <2>1. /\ IInv' /\ PumpMore' /\ TypeOK' /\ fed' = fed /\ claimed' = claimed
    BY <1>0, <1>4, RingsKept
  <2>2. gCompLen = 0
    <3>1. ASSUME Contig = 0 PROVE fed - taken = CompSize
      <4>1. WriteAt \in 0 .. CompSize - 1 /\ cq_decring_space = CompSize - (fed - taken)
        BY <1>0, WriteAtIndex, TrueDistances DEF IInv
      <4> QED
        BY <3>1, <4>1, <1>n DEF Contig, Numeric
    <3> QED
      BY <1>0, <1>4, <3>1, <1>n DEF Numeric
  <2> QED
    BY <1>0, <1>1, <1>n, <1>h, <1>4, <2>1, <2>2 DEF Numeric
<1> QED
  BY <1>2, <1>3, <1>4 DEF Handoff

(* What the wire brings goes the same way.                                  *)
LEMMA DrainGood == ASSUME EInv, Drain PROVE EInv'
<1>0. /\ IInv /\ PumpMore /\ main \in {"drain", "last"} /\ gAuSt = "AU_PLAY" /\ rx \in 0 .. RxMax
      /\ rx \in Nat /\ RxMax \in Nat
  BY Sizes DEF EInv, EngineTypeOK, MainInv, Playing, Drain
<1>n. Numeric
  BY <1>0, Numbers, Zenon DEF IInv
<1>h. HeadLen \in Nat /\ gCompLen \in Nat
  BY Sizes DEF EInv, EngineTypeOK
<1>u. UNCHANGED <<loopVars, gAuSt, mount, gStream, sent, gCompLen, playVars, mpVars, userVars, torn>>
  BY DEF Drain
<1>1. ASSUME /\ IInv' /\ PumpMore' /\ TypeOK'
             /\ rx' \in 0 .. RxMax
             /\ HeadLen + fed' + claimed' + gCompLen + rx' = HeadLen + fed + claimed + gCompLen + rx
      PROVE  EInv'
  <2>1. EngineTypeOK'
    BY <1>0, <1>u, <1>1, Sizes DEF EInv, EngineTypeOK, loopVars, playVars, mpVars, userVars
  <2>2. RestInv' /\ MainInv'
    BY <1>0, <1>u DEF EInv, RestInv, MainInv, Stopping, Playing, Stopped, loopVars, playVars
  <2>3. TaskInv'
    BY <1>0, <1>u DEF EInv, TaskInv, loopVars, mpVars
  <2>4. WireInv'
    <3>3. gStream => HeadLen + fed + claimed + gCompLen + rx = sent
      BY <1>0 DEF EInv, WireInv
    <3>4. gAuSt' = gAuSt /\ gStream' = gStream /\ gCompLen' = gCompLen /\ sent' = sent
          /\ main' \in {"handoff", "run", "drain", "last"}
      BY <1>0, <1>u DEF loopVars
    <3>5. main' # "handoff"
      BY <1>0, <1>u, <3>4 DEF loopVars
    <3> QED
      BY <1>0, <1>1, <3>3, <3>4, <3>5 DEF WireInv
  <2> QED
    BY <1>1, <2>1, <2>2, <2>3, <2>4 DEF EInv
<1>2. CASE Fill(Least(Contig, rx)) /\ rx' = rx - claimed'
  <2> DEFINE n == Least(Contig, rx)
  <2>1. /\ IInv' /\ TypeOK' /\ PumpMore'
        /\ n \in Nat /\ claimed = 0 /\ claimed' = n /\ fed' = fed
    BY <1>0, <1>2, FillSafe
  <2>2. n <= rx
    BY <1>0, <1>2, ClaimFits
  <2> HIDE DEF n
  <2>3. rx' \in 0 .. RxMax
    BY <1>0, <1>n, <1>2, <2>1, <2>2 DEF Numeric
  <2>4. HeadLen + fed' + claimed' + gCompLen + rx' = HeadLen + fed + claimed + gCompLen + rx
    BY <1>0, <1>n, <1>h, <1>2, <2>1, <2>2 DEF Numeric
  <2> QED
    BY <1>1, <2>1, <2>3, <2>4
<1>3. CASE Commit /\ UNCHANGED rx
  <2>1. IInv' /\ TypeOK' /\ PumpMore' /\ claimed' = 0 /\ fed' = fed + claimed
    BY <1>0, <1>3, CommitSafe
  <2> QED
    BY <1>0, <1>1, <1>n, <1>h, <1>3, <2>1 DEF Numeric
<1> QED
  BY <1>2, <1>3 DEF Drain

(* The transport is freed once what it held is in the ring.                 *)
LEMMA StreamEndsGood == ASSUME EInv, StreamEnds PROVE EInv'
<1>1. IInv' /\ TypeOK' /\ PumpMore' /\ claimed' = claimed /\ fed' = fed
  BY EofSafe DEF EInv, StreamEnds
<1>2. (gStream' <=> FALSE) /\ gStream' \in BOOLEAN
  BY Zenon DEF StreamEnds
<1>3. /\ main = "last" /\ main' = "pump" /\ rx' = 0
      /\ UNCHANGED <<why, fill, st, gAuSt, mount, sent, gCompLen, playVars, mpVars, userVars, torn>>
  BY DEF StreamEnds, Goto
<1> QED
  BY <1>1, <1>2, <1>3, Sizes
     DEF EInv, EngineTypeOK, RestInv, MainInv, TaskInv, WireInv, Stopping, Playing, Stopped,
         playVars, mpVars, userVars

(* The loop pumps, where there is no task to do it.                         *)
LEMMA ServicePumpGood == ASSUME EInv, ServicePump PROVE EInv'
<1>1. CASE PumpStep
  <2>1. /\ IInv' /\ TypeOK' /\ PumpMore' /\ (Quiet => Quiet') /\ (Empty => Empty')
        /\ claimed' = claimed /\ fed' = fed
    BY <1>1, PassSafe DEF EInv
  <2>2. CASE (main = "pump" /\ Inline) \/ main = "pumping"
    <3>1. /\ main \in {"pump", "pumping"} /\ main' \in {"start", "pumping"} /\ why' = why
          /\ UNCHANGED <<fill, st, wireVars, playVars, mpVars, userVars, torn>>
      BY <2>2 DEF ServicePump, Goto, Inline
    <3>2. ~gMPDecode
      BY <2>2 DEF Inline, EInv, TaskInv
    <3> QED
      BY <2>1, <3>1, <3>2
         DEF EInv, EngineTypeOK, RestInv, MainInv, TaskInv, WireInv, Stopping, Playing, Stopped,
             wireVars, playVars, mpVars, userVars
  <2>3. CASE main = "pump" /\ ~Inline
    <3>1. /\ main' = "start" /\ why' = why
          /\ UNCHANGED <<fill, st, wireVars, playVars, mpVars, userVars, torn>>
      BY <2>3 DEF ServicePump, Goto
    <3> QED
      BY <2>1, <2>3, <3>1
         DEF EInv, EngineTypeOK, RestInv, MainInv, TaskInv, WireInv, Stopping, Playing, Stopped,
             wireVars, playVars, mpVars, userVars
  <2> QED
    BY <2>2, <2>3 DEF ServicePump
<1>2. CASE main = "pump" /\ Goto("start") /\ UNCHANGED ringVars
           /\ UNCHANGED <<fill, st, wireVars, playVars, mpVars, userVars, torn>>
  <2>1. /\ IInv' /\ PumpMore' /\ TypeOK' /\ (Quiet => Quiet') /\ (Empty => Empty')
        /\ fed' = fed /\ claimed' = claimed
    BY <1>2, RingsKept DEF EInv
  <2> QED
    BY <1>2, <2>1
       DEF EInv, EngineTypeOK, RestInv, MainInv, TaskInv, WireInv, Stopping, Playing, Stopped,
           Goto, wireVars, playVars, mpVars, userVars
<1> QED
  BY <1>1, <1>2 DEF ServicePump

(* The task's pass.                                                         *)
LEMMA TaskPassGood == ASSUME EInv, TaskPass PROVE EInv'
<1>1. /\ IInv' /\ TypeOK' /\ PumpMore' /\ (Quiet => Quiet') /\ (Empty => Empty')
      /\ claimed' = claimed /\ fed' = fed
  BY PassSafe DEF EInv, TaskPass
<1>2. /\ task = "pass" /\ task' \in {"ack", "pass"}
      /\ UNCHANGED <<loopVars, wireVars, playVars, gMPDecode, gDecTask, gDecCmd, gDecAck, cmd,
                     timedOut, userVars, torn>>
  BY DEF TaskPass
<1> QED
  BY <1>1, <1>2
     DEF EInv, EngineTypeOK, RestInv, MainInv, TaskInv, WireInv, Stopping, Playing, Stopped,
         loopVars, wireVars, playVars, userVars

(* The channel starts with both its buffers filled, or the listen is given  *)
(* up.                                                                      *)
LEMMA StartGood == ASSUME EInv, StartDoubleBuffer PROVE EInv'
<1>0. main = "start" /\ listens' = listens /\ gRunning' = gRunning
  BY DEF StartDoubleBuffer, userVars
<1>1. CASE GiveUp /\ UNCHANGED ringVars
  BY <1>0, <1>1, StopGood DEF GiveUp, EInv, EngineTypeOK
<1>2. CASE ~(GiveUp /\ UNCHANGED ringVars)
  <2>1. Take(Least(PcmAvail, 2 * Chunk))
    BY <1>2 DEF StartDoubleBuffer
  <2>2. /\ IInv' /\ TypeOK' /\ PumpMore' /\ (Quiet => Quiet')
        /\ claimed' = claimed /\ fed' = fed
    BY <2>1, PlaySafe DEF EInv
  <2>3. gPlaying' \in BOOLEAN
    BY <1>2, Zenon DEF StartDoubleBuffer
  <2>4. /\ main' = "trim" /\ why' = why
        /\ UNCHANGED <<fill, st, wireVars, gRingSkip, mpVars, torn>>
    BY <1>2 DEF StartDoubleBuffer, Goto
  <2> QED
    BY <1>0, <2>2, <2>3, <2>4
       DEF EInv, EngineTypeOK, RestInv, MainInv, TaskInv, WireInv, Stopping, Playing, Stopped,
           wireVars, mpVars
<1> QED
  BY <1>1, <1>2

(* The interrupt takes no more than there is, stale trim or not.            *)
LEMMA DoubleBackTakes ==
  ASSUME EInv, AudioDoubleBack, Skipped + Played > 0
  PROVE  Take(Skipped + Played)
<1>0. PcmAvail \in 0 .. PcmSize /\ PcmSize \in Nat /\ PcmSize < CursorMod
      /\ CursorMod \in Nat \ {0} /\ Chunk \in Nat
  BY PcmBounds, Sizes DEF EInv
<1>1. gRingSkip \in Nat
  BY <1>0 DEF EInv, EngineTypeOK
<1>2. Skipped \in Nat /\ Skipped <= PcmAvail
  BY <1>0, <1>1 DEF Skipped, Least
<1> DEFINE rest == PcmAvail - Skipped
<1>3. rest \in 0 .. CursorMod - 1 /\ rest \in Nat /\ rest + Skipped = PcmAvail
  BY <1>0, <1>2
<1>4. (PcmAvail - Skipped) % CursorMod = rest
  BY <1>0, <1>3, ModSmall, Zenon
<1>5. Played = IF rest >= Chunk THEN Chunk ELSE IF ~gStream THEN rest ELSE 0
  BY <1>4, Zenon DEF Played
<1> HIDE DEF rest
<1>6. Played \in Nat /\ Played <= rest
  BY <1>0, <1>3, <1>5
<1>7. Skipped + Played \in 1 .. PcmAvail
  BY <1>0, <1>2, <1>3, <1>6
<1>8. heard \in Nat
  BY Numbers, Zenon DEF EInv, IInv, Numeric
<1>9. heard + (Skipped + Played) = heard + Skipped + Played
  BY <1>2, <1>6, <1>8
<1> QED
  BY <1>7, <1>9 DEF AudioDoubleBack, Take

(* The interrupt touches its cursor and the trim request.                   *)
LEMMA DoubleBackGood == ASSUME EInv, AudioDoubleBack PROVE EInv'
<1>1. /\ IInv' /\ TypeOK' /\ PumpMore' /\ (Quiet => Quiet') /\ (Empty => Empty')
      /\ claimed' = claimed /\ fed' = fed
  <2>1. CASE Skipped + Played > 0
    BY <2>1, DoubleBackTakes, PlaySafe DEF EInv
  <2>2. CASE ~(Skipped + Played > 0)
    <3>1. UNCHANGED ringVars
      BY <2>2 DEF AudioDoubleBack
    <3> QED
      BY <3>1, RingsKept DEF EInv
  <2> QED
    BY <2>1, <2>2
<1>2. gRingSkip' = 0 /\ UNCHANGED <<loopVars, wireVars, gPlaying, mpVars, userVars, torn>>
  BY DEF AudioDoubleBack
<1> QED
  BY <1>1, <1>2, Sizes
     DEF EInv, EngineTypeOK, RestInv, MainInv, TaskInv, WireInv, Stopping, Playing, Stopped,
         loopVars, wireVars, mpVars, userVars

-----------------------------------------------------------------------------
(* An engine that has just started satisfies the invariant.                 *)
LEMMA InitEInv == EngineInit => EInv
<1> SUFFICES ASSUME EngineInit PROVE EInv
  OBVIOUS
<1>1. IInv /\ TypeOK
  BY InitIInv DEF EngineInit, IInv
<1>2. /\ gStream \in BOOLEAN /\ st \in BOOLEAN /\ gPlaying \in BOOLEAN /\ gMPDecode \in BOOLEAN
      /\ gDecTask \in BOOLEAN /\ timedOut \in BOOLEAN /\ torn \in BOOLEAN /\ gRunning \in BOOLEAN
      /\ ~gDecTask
  BY Zenon DEF EngineInit
<1>3. Empty /\ PumpMore
  BY DEF EngineInit, Init, Empty, Quiet, PumpMore
<1>4. /\ main = "loop" /\ why = "loop" /\ fill = 0 /\ gAuSt = "AU_IDLE" /\ mount \in Mounts
      /\ rx = 0 /\ sent = 0 /\ gCompLen = 0 /\ gRingSkip = 0 /\ gDecCmd = "PARK" /\ gDecAck = "PARK"
      /\ task = "none" /\ cmd = "PARK" /\ listens = 0
  BY DEF EngineInit
<1> QED
  BY <1>1, <1>2, <1>3, <1>4, Sizes
     DEF EInv, EngineTypeOK, RestInv, MainInv, TaskInv, WireInv, Stopping, Playing, Stopped

(* Every step of the three contexts and of the user keeps it.               *)
LEMMA EngineNextGood == ASSUME EInv, [EngineNext]_allVars PROVE EInv'
<1>1. CASE UserStep
  BY <1>1, StartStreamGood, UserStopGood DEF UserStep
<1>2. CASE LoopStep
  <2>1. CASE \E n \in 0 .. RxMax, ended \in BOOLEAN :
               ServicePreplay(n, ended) \/ ServiceWire(n, ended)
    BY <2>1, PreplayGood, WireGood
  <2>2. CASE Parked \/ ParkTimeout \/ StopReset \/ QuitDecTask \/ OrderExit \/ Join
    BY <2>2, ParkGood, StopResetGood
  <2>3. CASE ServiceHeader \/ ServiceSync \/ Open \/ Handoff \/ Run
    BY <2>3, HeaderGood, SyncGood, OpenGood, HandoffGood, PlaybackGood
  <2>4. CASE ServiceNoWire \/ Drain \/ DrainEnds \/ StreamEnds \/ ServicePump
    BY <2>4, PlaybackGood, DrainGood, StreamEndsGood, ServicePumpGood
  <2>5. CASE StartDoubleBuffer \/ NoStart \/ TrimRead \/ TrimWrite \/ Check \/ PlayedOutStop
    BY <2>5, StartGood, PlaybackGood, CheckGood
  <2> QED
    BY <1>2, <2>1, <2>2, <2>3, <2>4, <2>5 DEF LoopStep
<1>3. CASE TaskStep \/ TaskDies
  BY <1>3, TaskGood, TaskPassGood DEF TaskStep
<1>4. CASE AudioDoubleBack
  BY <1>4, DoubleBackGood
<1>5. CASE UNCHANGED allVars
  <2>1. /\ IInv' /\ PumpMore' /\ TypeOK' /\ (Quiet => Quiet') /\ (Empty => Empty')
        /\ fed' = fed /\ claimed' = claimed
    BY <1>5, RingsKept DEF EInv, allVars
  <2> QED
    BY <1>5, <2>1
       DEF EInv, EngineTypeOK, RestInv, MainInv, TaskInv, WireInv, Stopping, Playing, Stopped,
           allVars, engineVars, loopVars, wireVars, playVars, mpVars, userVars
<1> QED
  BY <1>1, <1>2, <1>3, <1>4, <1>5 DEF EngineNext

(* The strengthened invariant of the engine holds.                          *)
THEOREM EngineInvariant == EngineSpec => []EInv
<1>1. EInv /\ [EngineNext]_allVars => EInv'
  BY EngineNextGood
<1> QED
  BY InitEInv, <1>1, PTL DEF EngineSpec

(* Every variable of the engine keeps its type: no buffer before the        *)
(* pipeline overflows, and the latency trim never asks for more than the    *)
(* ring can hold (ServiceAudio, DrainStreamToDec).                          *)
THEOREM EngineTypes == EngineSpec => []EngineTypeOK
<1>1. EInv => EngineTypeOK
  BY DEF EInv
<1> QED
  BY EngineInvariant, <1>1, PTL

(* No cursor overtakes another through resets, stops, trims and a dying     *)
(* task (cq_decring_reset, AudioDoubleBack).                                *)
THEOREM EngineCursors == EngineSpec => []CursorsSafe
<1>1. EInv => CursorsSafe
  BY DEF EInv, IInv
<1> QED
  BY EngineInvariant, <1>1, PTL

(* The loop never pumps beside a task that is in a pass, even when a task   *)
(* that timed out is replaced by the inline pump (ServiceAudio,             *)
(* DecodeTaskProc).                                                         *)
THEOREM PumpAlone == EngineSpec => []OnePump
<1>1. EInv => OnePump
  BY DEF EInv, TaskInv, OnePump
<1> QED
  BY EngineInvariant, <1>1, PTL

(* No byte of a living stream is lost between the wire and the ring         *)
(* (ServiceAudio, DrainStreamToDec).                                        *)
THEOREM NothingLost == EngineSpec => []NothingLostBeforeThePipe
<1>1. EInv => NothingLostBeforeThePipe
  BY DEF EInv, WireInv, NothingLostBeforeThePipe
<1> QED
  BY EngineInvariant, <1>1, PTL

-----------------------------------------------------------------------------
(* A listen is given up as played out only when the loop has found the      *)
(* pipeline idle, and then the PCM ring empty.                              *)
LEMMA NothingUnplayed ==
  ASSUME EInv, EngineNext, main = "drained", main' = "park"
  PROVE  taken = fed /\ stage_len = 0 /\ pump \notin {"release", "emit", "publish"}
         /\ heard = Len(emitted)
<1>0. IInv /\ TypeOK /\ CursorsSafe /\ Quiet
  BY DEF EInv, IInv, RestInv
<1>n. Numeric
  BY <1>0, Numbers, Zenon
<1>1. PlayedOutStop
  BY DEF EngineNext, UserStep, LoopStep, TaskStep, StartStream, ToggleOff, Quit, Parked,
         ParkTimeout, StopReset, QuitDecTask, OrderExit, Join, ServicePreplay, ServiceWire,
         ServiceHeader, ServiceSync, Open, Handoff, Run, ServiceNoWire, Drain, DrainEnds,
         StreamEnds, ServicePump, StartDoubleBuffer, NoStart, TrimRead, TrimWrite, Check,
         TaskRead, TaskPass, TaskAck, TaskDies, AudioDoubleBack, loopVars
<1>2. pcm_wr = pcm_rd
  BY <1>1 DEF PlayedOutStop, Goto
<1>3. Len(emitted) - heard \in 0 .. CursorMod - 1
  BY <1>0, <1>n DEF CursorsSafe, Numeric
<1>4. Len(emitted) % CursorMod = heard % CursorMod
  BY <1>0, <1>2 DEF CursorsSafe
<1>5. Len(emitted) = heard
  BY <1>0, <1>3, <1>4, Integral, Divides, ModSame, Zenon
<1> QED
  BY <1>0, <1>5 DEF Quiet

(* So a stream ends as played out only when every unit of it was played     *)
(* (ServiceAudio's end, AudioDoubleBack).                                   *)
THEOREM PlayedOutWhole == EngineSpec => PlayedOutIsComplete
<1>1. EInv /\ [EngineNext]_allVars =>
        [main = "drained" /\ main' = "park"
           => taken = fed /\ stage_len = 0 /\ pump \notin {"release", "emit", "publish"}
              /\ heard = Len(emitted)]_allVars
  BY NothingUnplayed
<1> QED
  BY EngineInvariant, <1>1, PTL DEF EngineSpec, PlayedOutIsComplete

-----------------------------------------------------------------------------
(* What a step of the engine is to the pipeline: one of its own, a reset,   *)
(* or the choice of the next stream.                                        *)
LEMMA RingsOnly ==
  ASSUME EInv, EngineNext
  PROVE  [Next]_vars \/ Reset \/ StartStream
<1>0. IInv /\ PumpMore /\ rx \in Nat /\ gCompLen \in Nat
  BY Sizes DEF EInv, EngineTypeOK
<1>1. ASSUME NEW n, Fill(n) PROVE Next
  BY <1>0, <1>1, FillSafe DEF Next, Producer
<1>2. ASSUME NEW n, Take(n) PROVE Next
  <2>1. n \in 1 .. PcmAvail /\ PcmAvail \in 0 .. PcmSize /\ PcmSize \in Nat
    BY <1>0, <1>2, PcmBounds, Sizes DEF Take
  <2>2. n \in 1 .. PcmSize
    BY <2>1
  <2> QED
    BY <1>2, <2>2 DEF Next, Reader
<1>3. ASSUME Commit \/ cq_decring_eof \/ PumpStep PROVE Next
  BY <1>3 DEF Next, Producer
<1>4. CASE UserStep
  BY <1>4 DEF UserStep, ToggleOff, Quit, ringVars
<1>5. CASE Handoff \/ Drain \/ StreamEnds
  BY <1>5, <1>1, <1>3 DEF Handoff, Drain, StreamEnds, ringVars
<1>6. CASE ServicePump \/ TaskStep \/ TaskDies
  BY <1>6, <1>3 DEF ServicePump, TaskStep, TaskRead, TaskPass, TaskAck, TaskDies, ringVars
<1>7. CASE StartDoubleBuffer
  BY <1>7, <1>2 DEF StartDoubleBuffer, ringVars
<1>8. CASE AudioDoubleBack
  BY <1>8, <1>2, DoubleBackTakes DEF AudioDoubleBack, ringVars
<1>9. CASE StopReset \/ Open
  BY <1>9 DEF StopReset, Open
<1>10. CASE \E n \in 0 .. RxMax, ended \in BOOLEAN :
              ServicePreplay(n, ended) \/ ServiceWire(n, ended)
  BY <1>10 DEF ServicePreplay, ServiceWire, ringVars
<1>11. CASE Parked \/ ParkTimeout \/ QuitDecTask \/ OrderExit \/ Join \/ ServiceHeader
            \/ ServiceSync \/ Run \/ ServiceNoWire \/ DrainEnds \/ NoStart \/ TrimRead
            \/ TrimWrite \/ Check \/ PlayedOutStop
  BY <1>11 DEF Parked, ParkTimeout, QuitDecTask, OrderExit, Join, ServiceHeader, ServiceSync,
               Run, ServiceNoWire, DrainEnds, NoStart, TrimRead, TrimWrite, Check,
               PlayedOutStop, ringVars
<1> QED
  BY <1>4, <1>5, <1>6, <1>7, <1>8, <1>9, <1>10, <1>11 DEF EngineNext, LoopStep

(* Each of them is a step of the abstract pipe or a stutter.                *)
LEMMA EnginePipe ==
  ASSUME EInv, [EngineNext]_allVars PROVE [Pipe!PipeNext]_(Pipe!vars)
<1>1. CASE [Next]_vars
  BY <1>1, NextPipe DEF EInv
<1>2. CASE Reset
  BY <1>2 DEF Reset, ResetRings, ConsumedUpTo, StagedUpTo, Pipe!PipeNext, Pipe!Restart
<1>3. CASE StartStream
  <2>1. /\ fed' = fed /\ emitted' = emitted /\ heard' = heard /\ taken' = taken
        /\ take' = take /\ stage_len' = stage_len /\ used' = used /\ pump' = pump
        /\ frame' = frame
    BY <1>3 DEF StartStream, compVars, stageVars, pcmVars
  <2>2. ConsumedUpTo' = ConsumedUpTo
    BY <2>1 DEF ConsumedUpTo, StagedUpTo
  <2> QED
    BY <2>1, <2>2, PipeStutter
<1>4. CASE UNCHANGED allVars
  BY <1>4, <1>1 DEF allVars, ringVars
<1> QED
  BY <1>1, <1>2, <1>3, <1>4, RingsOnly

(* So the audio the engine plays is the pipe's, over every listen: nothing  *)
(* is decoded twice, out of order or before it arrived, and nothing played  *)
(* that was not decoded (cq_decring_pump, AudioDoubleBack).                 *)
THEOREM EngineImplementsPipe == EngineSpec => ImplementsPipe
<1>1. EngineInit => Pipe!PipeInit
  BY InitPipe DEF EngineInit
<1>2. EInv /\ [EngineNext]_allVars => [Pipe!PipeNext]_(Pipe!vars)
  BY EnginePipe
<1> QED
  BY <1>1, <1>2, EngineInvariant, PTL DEF EngineSpec, ImplementsPipe, Pipe!PipeSpec
=============================================================================
