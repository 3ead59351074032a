------------------------------ MODULE DecRing ------------------------------
(***************************************************************************)
(* src/cq_decring.c: the decode pipeline.  Compressed bytes go from the    *)
(* event loop (the producer) through the comp ring to a private stage, are *)
(* decoded frame by frame by the pump (the consumer: an MP task, or the    *)
(* loop itself) into the PCM ring, and leave it at Sound interrupt time.   *)
(*                                                                         *)
(*   loop --comp ring--> stage --minimp3--> PCM ring --> interrupt         *)
(*   comp_wr, eof        comp_rd, stage_len, pcm_wr      pcm_rd            *)
(*                                                                         *)
(* One cell stands for a run of bytes no longer than a frame header, so a  *)
(* header is whole in its cell.  A cell of the stream is named by its      *)
(* position; src says whether cq_mp3_parse finds a header there.  Cursors  *)
(* keep their width: they count modulo CursorMod (2^32 in the code, wrapped *)
(* by the PCM cursors after 6.8 hours of listening).  The unbounded counts *)
(* fed, taken, heard and the sequence emitted are history: no guard reads  *)
(* them, except that the model's stream ends after StreamLen cells.        *)
(***************************************************************************)
EXTENDS Integers, Sequences

CONSTANTS
  StreamLen,   \* cells the server sends at most (bounds the model)
  MaxFrameLen, \* longest MPEG frame, in cells
  Fmts,        \* version/samplerate pairs a header can carry
  Streams,     \* the streams considered, each in Stream
  CompSize,    \* CQ_AUD_COMP_RING
  StageSize,   \* CQ_DECRING_STAGE
  PcmSize,     \* CQ_AUD_RING_BYTES
  CursorMod,   \* one more than the largest value of a cursor
  MaxPcm,      \* CQ_MP3DEC_MAX_SAMPLES * 2: the largest decoded frame
  PcmUnits,    \* sizes a decoded frame can have
  Deep         \* 8192: a stage longer than this may be realigned

Pos    == 0 .. StreamLen - 1
Header == [len : 0 .. MaxFrameLen, fmt : Fmts]   \* len = 0: no header here
Stream == [Pos -> Header]
NoCell == -1

(* The ring sizes divide 2^32 and are smaller, and the realignment          *)
(* threshold leaves room for two whole frames and one more header.         *)
ASSUME SizesAssumption ==
  /\ StreamLen \in Nat \ {0} /\ MaxFrameLen \in Nat \ {0}
  /\ CompSize \in Nat \ {0} /\ PcmSize \in Nat \ {0} /\ StageSize \in Nat \ {0}
  /\ MaxPcm \in Nat \ {0} /\ Deep \in Nat /\ CursorMod \in Nat \ {0}
  /\ CompSize < CursorMod /\ CursorMod % CompSize = 0
  /\ PcmSize < CursorMod /\ CursorMod % PcmSize = 0
  /\ MaxPcm <= PcmSize /\ PcmUnits \subseteq 1 .. MaxPcm
  /\ 2 * MaxFrameLen <= Deep /\ Deep < StageSize
  /\ Streams \subseteq Stream

VARIABLES
  src,        \* the stream being received
  comp, comp_wr, comp_rd, eof,
  claimed,    \* producer local: cells filled at the claim, not yet committed
  stage, stage_len,
  pump,       \* where the consumer is in cq_decring_pump
  take, used, \* pump locals
  frame,      \* pump local: the decoded frame, [pos, units]
  pcm, pcm_wr, pcm_rd,
  fed, taken, emitted, heard    \* history

compVars  == <<comp, comp_wr, comp_rd, eof, claimed, fed, taken>>
stageVars == <<stage, stage_len, take, used, frame>>
pcmVars   == <<pcm, pcm_wr, pcm_rd, emitted, heard>>
vars      == <<src, compVars, stageVars, pump, pcmVars>>

-----------------------------------------------------------------------------
(* Cursor arithmetic on unsigned longs.                                     *)
Plus(c, n)    == (c + n) % CursorMod
Behind(wr, rd) == (wr - rd) % CursorMod

CompAvail == Behind(comp_wr, comp_rd)
cq_decring_space == CompSize - CompAvail
PcmAvail  == Behind(pcm_wr, pcm_rd)
PcmSpace  == PcmSize - PcmAvail

WriteAt == comp_wr % CompSize

(* Mutant: claims up to the wrap without looking at what is unread.         *)
Contig_IgnoresUnread == CompSize - WriteAt
(* Mutant: claims the whole free space as if the ring were flat.            *)
Contig_IgnoresWrap == cq_decring_space
(* Claimable without wrapping.                                              *)
Contig ==
  LET lin == CompSize - WriteAt
  IN  IF cq_decring_space < lin THEN cq_decring_space ELSE lin

cq_decring_idle == comp_wr = comp_rd /\ stage_len = 0

-----------------------------------------------------------------------------
(* The producer (event loop).  Claim and fill are one step: the claim only *)
(* reads comp_rd, and whatever the consumer releases meanwhile is unused.  *)
Fill(n) ==
  /\ claimed = 0 /\ ~eof
  /\ n \in 1 .. Contig /\ fed + n <= StreamLen
  /\ comp' = [c \in 0 .. CompSize - 1 |->
                IF c \in WriteAt .. WriteAt + n - 1
                THEN fed + (c - WriteAt) ELSE comp[c]]
  /\ claimed' = n
  /\ UNCHANGED <<src, comp_wr, comp_rd, eof, fed, taken, stageVars, pump, pcmVars>>

Commit ==
  /\ claimed > 0
  /\ comp_wr' = Plus(comp_wr, claimed)
  /\ fed' = fed + claimed
  /\ claimed' = 0
  /\ UNCHANGED <<src, comp, comp_rd, eof, taken, stageVars, pump, pcmVars>>

cq_decring_eof ==
  /\ claimed = 0 /\ ~eof
  /\ eof' = TRUE
  /\ UNCHANGED <<src, comp, comp_wr, comp_rd, claimed, fed, taken, stageVars, pump, pcmVars>>

-----------------------------------------------------------------------------
(* The consumer: cq_decring_pump, cut where another context can see or      *)
(* change what it shares.                                                   *)

(* Mutant: tops up without asking how much room the stage has.              *)
TopUp_IgnoresRoom ==
  /\ pump = "off"
  /\ take' = CompAvail /\ used' = 0
  /\ pump' = IF take' > 0 THEN "copy" ELSE "decode"
  /\ UNCHANGED <<src, compVars, stage, stage_len, frame, pcmVars>>

(* Read comp_wr and decide how much to top up.                              *)
TopUp ==
  /\ pump = "off"
  /\ take' = IF CompAvail < StageSize - stage_len THEN CompAvail ELSE StageSize - stage_len
  /\ used' = 0
  /\ pump' = IF take' > 0 THEN "copy" ELSE "decode"
  /\ UNCHANGED <<src, compVars, stage, stage_len, frame, pcmVars>>

Copy ==
  /\ pump = "copy"
  /\ stage' = [k \in 0 .. StageSize - 1 |->
                 IF k \in stage_len .. stage_len + take - 1
                 THEN comp[(comp_rd + (k - stage_len)) % CompSize] ELSE stage[k]]
  /\ stage_len' = stage_len + take
  /\ pump' = "release"
  /\ UNCHANGED <<src, compVars, take, used, frame, pcmVars>>

Release ==
  /\ pump = "release"
  /\ comp_rd' = Plus(comp_rd, take)
  /\ taken' = taken + take
  /\ take' = 0
  /\ pump' = "decode"
  /\ UNCHANGED <<src, comp, comp_wr, eof, claimed, fed, stage, stage_len, used, frame, pcmVars>>

(* cq_mp3 on the stage.  HeaderAt(k): what parses at offset k.              *)
HeaderAt(k)    == src[stage[k]]
IsHeader(k)    == k < stage_len /\ HeaderAt(k).len > 0
WholeFrame(k)  == IsHeader(k) /\ k + HeaderAt(k).len <= stage_len
Coherent(k, m) == IsHeader(m) /\ HeaderAt(m).fmt = HeaderAt(k).fmt

(* cq_mp3_walk(stage + used, ..., 2, &wf): whole coherent frames, at most 2. *)
wf ==
  LET next == used + HeaderAt(used).len
  IN  IF ~WholeFrame(used) THEN 0
      ELSE IF WholeFrame(next) /\ Coherent(used, next) THEN 2 ELSE 1

(* cq_mp3_sync stops at the first header that its successor confirms, or    *)
(* whose successor is not in the buffer yet (which makes it return -1).     *)
NeedsMore(k) == IsHeader(k) /\ k + HeaderAt(k).len + 1 > stage_len
Confirmed(k) == IsHeader(k) /\ Coherent(k, k + HeaderAt(k).len)
(* Mutant: trusts any confirmed header, not the first one.                  *)
SyncAt_NotFirst(k) == k \in used .. stage_len - 1 /\ Confirmed(k)
SyncAt(k) ==
  /\ k \in used .. stage_len - 1
  /\ Confirmed(k)
  /\ \A j \in used .. k - 1 : ~Confirmed(j) /\ ~NeedsMore(j)

(* Mutant: the gate stays at two frames after the end of the stream.        *)
Gate_IgnoresEof == wf >= 2
(* Mutant: one free unit is taken for room for a frame.                     *)
Ready_AnyRoom == pump = "decode" /\ PcmSpace >= 1 /\ used < stage_len
Gate     == wf >= (IF eof THEN 1 ELSE 2)
Ready    == pump = "decode" /\ PcmSpace >= MaxPcm /\ used < stage_len
DeepTail == stage_len - used > Deep

Continue(u) == used' = u /\ pump' = "decode" /\ UNCHANGED frame
Break(u)    == used' = u /\ pump' = "compact" /\ UNCHANGED frame
LoopFrame   == UNCHANGED <<src, compVars, stage, stage_len, take, pcmVars>>

RingFullOrDry ==
  /\ pump = "decode" /\ ~Ready
  /\ Break(used) /\ LoopFrame

(* Mutant: the gate holds before asking whether the stage is deep (b27).    *)
Hold_First ==
  /\ Ready /\ ~Gate
  /\ Break(used) /\ LoopFrame

(* The tail-gate holds: not deep enough to suspect junk, or already aligned. *)
Hold ==
  /\ Ready /\ ~Gate
  /\ ~DeepTail \/ SyncAt(used)
  /\ Break(used) /\ LoopFrame

Resync ==
  /\ Ready /\ ~Gate /\ DeepTail
  /\ \E k \in used + 1 .. stage_len - 1 : SyncAt(k) /\ Continue(k)
  /\ LoopFrame

Flush ==
  /\ Ready /\ ~Gate /\ DeepTail
  /\ \A k \in used .. stage_len - 1 : ~SyncAt(k)
  /\ Break(stage_len) /\ LoopFrame

(* cq_mp3dec_frame (minimp3, external) on a gated head.  Locked on, it      *)
(* takes the head; else it scans for a frame whose successor matches, maybe *)
(* further on.  It decodes the frame it found, or drops it (bit reservoir   *)
(* not primed), and eats the whole stage as junk when it found none.        *)
Found(k) == WholeFrame(k) /\ (k = used \/ Confirmed(k))

DecodeFrame ==
  /\ Ready /\ Gate
  /\ \E k \in used .. stage_len - 1, n \in PcmUnits :
       /\ Found(k)
       /\ frame' = [pos |-> stage[k], units |-> n]
       /\ used' = k + HeaderAt(k).len
  /\ pump' = "emit"
  /\ LoopFrame

SkipJunk ==
  /\ Ready /\ Gate
  /\ \/ Continue(stage_len)
     \/ \E k \in used .. stage_len - 1 : Found(k) /\ Continue(k + HeaderAt(k).len)
  /\ LoopFrame

(* The decoded frame is bounced into the PCM ring, then published.          *)
UnitsOf(f) == [j \in 1 .. f.units |-> <<f.pos, j>>]

Emit ==
  /\ pump = "emit"
  /\ pcm' = [c \in 0 .. PcmSize - 1 |->
               LET j == (c - pcm_wr) % PcmSize
               IN  IF j < frame.units THEN <<frame.pos, j + 1>> ELSE pcm[c]]
  /\ pump' = "publish"
  /\ UNCHANGED <<src, compVars, stageVars, pcm_wr, pcm_rd, emitted, heard>>

Publish ==
  /\ pump = "publish"
  /\ pcm_wr' = Plus(pcm_wr, frame.units)
  /\ emitted' = emitted \o UnitsOf(frame)
  /\ pump' = "decode"
  /\ UNCHANGED <<src, compVars, stageVars, pcm, pcm_rd, heard>>

(* Mutant: the memmove is forgotten.                                        *)
Compact_NoMove ==
  /\ pump = "compact"
  /\ stage_len' = stage_len - used
  /\ used' = 0
  /\ pump' = "off"
  /\ UNCHANGED <<src, compVars, stage, take, frame, pcmVars>>

Compact ==
  /\ pump = "compact"
  /\ stage_len' = stage_len - used
  /\ stage' = [k \in 0 .. StageSize - 1 |->
                 IF k < stage_len - used THEN stage[k + used] ELSE stage[k]]
  /\ used' = 0
  /\ pump' = "off"
  /\ UNCHANGED <<src, compVars, take, frame, pcmVars>>

PumpStep ==
  \/ TopUp \/ Copy \/ Release
  \/ RingFullOrDry \/ Hold \/ Resync \/ Flush \/ DecodeFrame \/ SkipJunk
  \/ Emit \/ Publish \/ Compact

-----------------------------------------------------------------------------
(* The Sound interrupt owns pcm_rd: it plays or trims n units.              *)
Take(n) ==
  /\ n \in 1 .. PcmAvail
  /\ pcm_rd' = Plus(pcm_rd, n)
  /\ heard' = heard + n
  /\ UNCHANGED <<src, compVars, stageVars, pump, pcm, pcm_wr, emitted>>

-----------------------------------------------------------------------------
(* The bytes an earlier stream left in a buffer are no position of the       *)
(* current one: NoCell.                                                     *)
EmptyComp  == [c \in 0 .. CompSize - 1 |-> NoCell]
EmptyStage == [k \in 0 .. StageSize - 1 |-> NoCell]
EmptyPcm   == [c \in 0 .. PcmSize - 1 |-> <<NoCell, 0>>]

(* Mutant: the held tail of the last stream survives the reset.             *)
ResetRings_KeepsStage ==
  /\ comp' = EmptyComp /\ comp_wr' = 0 /\ comp_rd' = 0 /\ eof' = FALSE
  /\ UNCHANGED <<stage, stage_len>>
  /\ pcm' = EmptyPcm /\ pcm_wr' = 0 /\ pcm_rd' = 0
  /\ fed' = 0 /\ taken' = 0 /\ emitted' = <<>> /\ heard' = 0

(* What cq_decring_reset clears, with both PCM cursors zeroed.              *)
ResetRings ==
  /\ comp' = EmptyComp /\ comp_wr' = 0 /\ comp_rd' = 0 /\ eof' = FALSE
  /\ stage' = EmptyStage /\ stage_len' = 0
  /\ pcm' = EmptyPcm /\ pcm_wr' = 0 /\ pcm_rd' = 0
  /\ fed' = 0 /\ taken' = 0 /\ emitted' = <<>> /\ heard' = 0

(* A new listen.  Legal only with the consumer parked (cq_decring.h:34).    *)
cq_decring_reset ==
  /\ pump = "off" /\ claimed = 0
  /\ ResetRings
  /\ src' \in Streams
  /\ UNCHANGED <<claimed, take, used, frame, pump>>

Init ==
  /\ src \in Streams
  /\ comp = EmptyComp /\ comp_wr = 0 /\ comp_rd = 0 /\ eof = FALSE
  /\ stage = EmptyStage /\ stage_len = 0
  /\ pcm = EmptyPcm /\ pcm_wr = 0 /\ pcm_rd = 0
  /\ fed = 0 /\ taken = 0 /\ emitted = <<>> /\ heard = 0
  /\ claimed = 0 /\ pump = "off" /\ take = 0 /\ used = 0
  /\ frame = [pos |-> 0, units |-> 0]

Producer == (\E n \in 1 .. CompSize : Fill(n)) \/ Commit \/ cq_decring_eof
Reader   == \E n \in 1 .. PcmSize : Take(n)

Next == Producer \/ PumpStep \/ Reader \/ cq_decring_reset

Spec == Init /\ [][Next]_vars

(* The task wakes every 5 ms and never blocks in a pass; the Sound Manager  *)
(* keeps interrupting while the channel plays.  Nothing obliges the server. *)
FairSpec ==
  Spec /\ WF_vars(Commit) /\ WF_vars(PumpStep) /\ WF_vars(Reader)

-----------------------------------------------------------------------------
TypeOK ==
  /\ src \in Streams
  /\ comp \in [0 .. CompSize - 1 -> Pos \cup {NoCell}]
  /\ comp_wr \in 0 .. CursorMod - 1 /\ comp_rd \in 0 .. CursorMod - 1
  /\ eof \in BOOLEAN /\ claimed \in 0 .. CompSize
  /\ stage \in [0 .. StageSize - 1 -> Pos \cup {NoCell}]
  /\ stage_len \in 0 .. StageSize
  /\ pump \in {"off", "copy", "release", "decode", "emit", "publish", "compact"}
  /\ take \in 0 .. StageSize /\ used \in 0 .. StageSize
  /\ frame \in [pos : Pos, units : 0 .. MaxPcm]
  /\ pcm \in [0 .. PcmSize - 1 -> (Pos \cup {NoCell}) \X (0 .. MaxPcm)]
  /\ pcm_wr \in 0 .. CursorMod - 1 /\ pcm_rd \in 0 .. CursorMod - 1
  /\ fed \in 0 .. StreamLen /\ taken \in Nat /\ heard \in Nat
  /\ emitted \in Seq(Pos \X (1 .. MaxPcm))

(* No cursor overtakes another, whatever its width: each one names the      *)
(* count it stands for, and neither ring holds more than it has room for.   *)
CursorsSafe ==
  /\ comp_wr = fed % CursorMod /\ comp_rd = taken % CursorMod
  /\ pcm_wr = Len(emitted) % CursorMod /\ pcm_rd = heard % CursorMod
  /\ taken <= fed /\ fed + claimed <= taken + CompSize
  /\ heard <= Len(emitted) /\ Len(emitted) <= heard + PcmSize

(* A compressed cell the producer committed stays in the ring, unchanged,   *)
(* until the consumer has copied it.                                        *)
CompIntact == \A i \in taken .. fed - 1 : comp[i % CompSize] = i

(* The stage holds a run of consecutive stream cells that ends where the    *)
(* comp ring takes over: nothing is lost, doubled or reordered between them. *)
StagedUpTo == IF pump = "release" THEN taken + take ELSE taken
StageContiguous ==
  \A k \in 0 .. stage_len - 1 : stage[k] = StagedUpTo - stage_len + k

(* A published PCM unit stays in the ring, unchanged, until the interrupt   *)
(* has read it.                                                             *)
PcmIntact == \A i \in heard .. Len(emitted) - 1 : pcm[i % PcmSize] = emitted[i + 1]

(* What holds between the pump's steps: its locals against the shared state *)
(* it has read, and the cells filled or written but not yet published.      *)
PumpInv ==
  /\ fed + claimed <= StreamLen
  /\ \A i \in fed .. fed + claimed - 1 : comp[i % CompSize] = i
  /\ used <= stage_len /\ stage_len <= StagedUpTo
  /\ pump \in {"off", "copy", "release"} => used = 0
  /\ pump \notin {"copy", "release"} => take = 0
  /\ pump \in {"copy", "release"} => take <= fed - taken
  /\ pump = "copy" => stage_len + take <= StageSize
  /\ pump = "release" => take <= stage_len
  /\ pump \in {"emit", "publish"} =>
        /\ frame.units \in PcmUnits /\ src[frame.pos].len > 0
        /\ frame.pos + src[frame.pos].len = taken - stage_len + used
        /\ Len(emitted) + frame.units <= heard + PcmSize
  /\ pump = "publish" =>
        \A j \in 1 .. frame.units :
          pcm[(Len(emitted) + j - 1) % PcmSize] = <<frame.pos, j>>

(* The pipeline implements AudioPipe: whatever the interleaving, the stream *)
(* is decoded in order, no byte twice, and no unit played twice or early.   *)
(* A frame counts as consumed when its PCM is published.                    *)
ConsumedUpTo ==
  IF pump \in {"emit", "publish"} THEN frame.pos ELSE StagedUpTo - stage_len + used
Pipe == INSTANCE AudioPipe
          WITH arrived <- fed, at <- ConsumedUpTo, out <- emitted, played <- heard
ImplementsPipe == Pipe!PipeSpec

(* b27: the tail-gate never holds a stage deep enough to be realigned, so   *)
(* splice junk cannot stop a pass that still has PCM room.                  *)
DeepStageIsRealigned ==
  [][(pump = "decode" /\ pump' = "compact" /\ PcmSpace >= MaxPcm)
       => stage_len - used' <= Deep]_vars

(* Realigning jumps over no header that its successor confirms in the       *)
(* stage, unless one before it was still waiting for its own successor.     *)
ResyncSkipsNoConfirmedFrame ==
  [][(pump = "decode" /\ pump' \in {"decode", "compact"} /\ ~Gate)
       => \A k \in used .. used' - 1 : Confirmed(k) => \E j \in used .. k - 1 : NeedsMore(j)]_vars

(* b26: an unconfirmed frame reaches the decoder only as the true last      *)
(* frame of a dead stream.                                                  *)
OnlyTrueLastFrameUnconfirmed ==
  [][(pump = "decode" /\ pump' = "emit" /\ wf = 1) => comp_wr = comp_rd]_vars

(* What flushing the stage discards is unparseable: no frame of the stream  *)
(* starts in it.                                                            *)
TrueFrame(p) ==
  LET q == p + src[p].len
  IN  src[p].len > 0 /\ q \in Pos /\ src[q].len > 0 /\ src[q].fmt = src[p].fmt
FlushDropsNoFrame ==
  [][(pump = "decode" /\ pump' = "compact" /\ used' = stage_len /\ used < used')
       => \A k \in used .. stage_len - 1 : ~TrueFrame(stage[k])]_vars

(* A dead stream is decoded and played to its end, but for a tail the gate  *)
(* holds: less than one whole frame at its head, and too short to realign.  *)
HeldTail == wf = 0 /\ stage_len <= Deep
PlayedOut == comp_wr = comp_rd /\ pcm_wr = pcm_rd /\ (stage_len = 0 \/ HeldTail)
DeadStreamPlaysOut == eof ~> (PlayedOut \/ ~eof)
=============================================================================
