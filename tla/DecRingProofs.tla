--------------------------- MODULE DecRingProofs ---------------------------
(***************************************************************************)
(* The decode pipeline is safe for every ring, stage and frame size, every *)
(* cursor width and every stream: no cursor overtakes another, no buffer   *)
(* loses a cell it still owes, and DecRing implements AudioPipe.           *)
(***************************************************************************)
EXTENDS DecRing, RingArithmetic, WellFoundedInduction, TLAPS

(* The inductive invariant.                                                 *)
IInv == TypeOK /\ CursorsSafe /\ CompIntact /\ StageContiguous /\ PcmIntact /\ PumpInv

-----------------------------------------------------------------------------
(* The numbers among the variables and the constants, for the leaves that  *)
(* reason about them alone.                                                 *)
Numeric ==
  /\ fed \in Nat /\ taken \in Nat /\ heard \in Nat /\ Len(emitted) \in Nat
  /\ claimed \in Nat /\ claimed <= CompSize /\ fed <= StreamLen
  /\ stage_len \in Nat /\ stage_len <= StageSize
  /\ take \in Nat /\ take <= StageSize /\ used \in Nat /\ used <= StageSize
  /\ frame.pos \in Nat /\ frame.units \in Nat /\ frame.units <= MaxPcm
  /\ StreamLen \in Nat /\ CompSize \in Nat /\ PcmSize \in Nat
  /\ StreamLen >= 1 /\ CompSize >= 1 /\ PcmSize >= 1
  /\ StageSize \in Nat /\ CursorMod \in Nat /\ MaxPcm \in Nat /\ MaxPcm <= PcmSize
  /\ CompSize < CursorMod /\ PcmSize < CursorMod

(* They follow from the types and the assumption on the sizes.             *)
LEMMA Numbers == ASSUME TypeOK PROVE Numeric
BY SizesAssumption DEF TypeOK, Numeric, Pos

(* The counts are integers, as the lemmas on % ask.                         *)
LEMMA Integral ==
  ASSUME TypeOK
  PROVE  fed \in Int /\ taken \in Int /\ heard \in Int /\ Len(emitted) \in Int
         /\ claimed \in Int /\ take \in Int /\ frame.units \in Int
BY Numbers DEF Numeric

(* The ring sizes divide the range of the cursors.                          *)
LEMMA Divides == /\ CompSize \in Nat \ {0} /\ PcmSize \in Nat \ {0}
                 /\ CursorMod \in Nat \ {0}
                 /\ CursorMod % CompSize = 0 /\ CursorMod % PcmSize = 0
BY SizesAssumption

(* The cursors' distances are the true ones.                                *)
LEMMA TrueDistances ==
  ASSUME TypeOK, CursorsSafe
  PROVE  /\ CompAvail = fed - taken /\ cq_decring_space = CompSize - (fed - taken)
         /\ PcmAvail = Len(emitted) - heard /\ PcmSpace = PcmSize - (Len(emitted) - heard)
<1>1. /\ taken <= fed /\ fed + claimed <= taken + CompSize
      /\ heard <= Len(emitted) /\ Len(emitted) <= heard + PcmSize
  BY DEF CursorsSafe
<1>n. Numeric
  BY Numbers, Zenon
<1>2. fed - taken \in 0 .. CursorMod - 1 /\ Len(emitted) - heard \in 0 .. CursorMod - 1
  BY <1>1, <1>n DEF Numeric
<1>3. ((fed % CursorMod) - (taken % CursorMod)) % CursorMod = fed - taken
  BY <1>2, Integral, Divides, ModDistance, Zenon
<1>4. ((Len(emitted) % CursorMod) - (heard % CursorMod)) % CursorMod = Len(emitted) - heard
  BY <1>2, Integral, Divides, ModDistance, Zenon
<1>5. CompAvail = fed - taken /\ PcmAvail = Len(emitted) - heard
  BY <1>3, <1>4, Zenon DEF CompAvail, PcmAvail, Behind, CursorsSafe
<1> QED
  BY <1>5, Zenon DEF cq_decring_space, PcmSpace

(* The producer's claim never reaches an unread cell nor the ring's end.    *)
LEMMA WriteAtIndex ==
  ASSUME TypeOK, CursorsSafe
  PROVE  WriteAt = fed % CompSize /\ WriteAt \in 0 .. CompSize - 1
<1>1. WriteAt = fed % CompSize
  BY Integral, Divides, ModMod, Zenon DEF WriteAt, CursorsSafe
<1>2. (fed % CompSize) \in 0 .. CompSize - 1
  BY Integral, Divides, Division, Zenon
<1> QED
  BY <1>1, <1>2, Zenon

(* A claim fits before the ring's end and over what was copied out of it.   *)
LEMMA ContigFits ==
  ASSUME TypeOK, CursorsSafe
  PROVE  Contig <= CompSize - WriteAt /\ Contig <= CompSize - (fed - taken) /\ Contig \in Int
<1>1. WriteAt \in 0 .. CompSize - 1
  BY WriteAtIndex
<1>n. Numeric
  BY Numbers, Zenon
<1>2. cq_decring_space = CompSize - (fed - taken)
  BY TrueDistances, Zenon
<1> QED
  BY <1>1, <1>2, <1>n DEF Contig, Numeric

(* A header of the stream has a length in range.                            *)
LEMMA HeaderLength ==
  ASSUME TypeOK, NEW p \in Pos
  PROVE  src[p].len \in 0 .. MaxFrameLen /\ src[p].len \in Int
<1>1. src \in [Pos -> Header]
  BY SizesAssumption DEF TypeOK, Stream
<1>2. src[p] \in Header
  BY <1>1
<1> QED
  BY <1>2, SizesAssumption DEF Header

(* What the stage holds below stage_len are cells of the stream.            *)
LEMMA StagedCells ==
  ASSUME IInv, NEW k \in 0 .. stage_len - 1
  PROVE  stage[k] \in Pos /\ stage[k] = StagedUpTo - stage_len + k
<1> USE SizesAssumption DEF IInv, TypeOK
<1>1. stage[k] = StagedUpTo - stage_len + k
  BY DEF StageContiguous
<1>2. StagedUpTo \in Int /\ StagedUpTo >= stage_len
  BY DEF PumpInv, StagedUpTo
<1>3. stage[k] \in Pos \cup {NoCell}
  OBVIOUS
<1>4. stage[k] >= 0
  BY <1>1, <1>2
<1> QED
  BY <1>1, <1>3, <1>4 DEF NoCell

-----------------------------------------------------------------------------
(* Empty rings satisfy the invariant.                                       *)
LEMMA InitIInv == Init => IInv
<1> SUFFICES ASSUME Init PROVE IInv
  OBVIOUS
<1> USE SizesAssumption DEF Init
<1>1. 0 % CursorMod = 0
  BY ModSmall
<1>2. TypeOK
  <2>1. EmptyComp \in [0 .. CompSize - 1 -> Pos \cup {NoCell}]
    BY DEF EmptyComp
  <2>2. EmptyStage \in [0 .. StageSize - 1 -> Pos \cup {NoCell}]
    BY DEF EmptyStage
  <2>3. EmptyPcm \in [0 .. PcmSize - 1 -> (Pos \cup {NoCell}) \X (0 .. MaxPcm)]
    BY DEF EmptyPcm
  <2>4. 0 \in Pos
    BY DEF Pos
  <2>5. /\ 0 \in 0 .. CursorMod - 1 /\ 0 \in 0 .. CompSize /\ 0 \in 0 .. StageSize
        /\ 0 \in 0 .. StreamLen /\ 0 \in Nat
    OBVIOUS
  <2>7. <<>> \in Seq(Pos \X (1 .. MaxPcm))
    OBVIOUS
  <2>6. frame \in [pos : Pos, units : 0 .. MaxPcm]
    BY <2>4
  <2> QED
    BY <2>1, <2>2, <2>3, <2>5, <2>6, <2>7, Zenon DEF TypeOK
<1>3. CursorsSafe
  BY <1>1 DEF CursorsSafe
<1>4. CompIntact /\ StageContiguous /\ PcmIntact
  BY DEF CompIntact, StageContiguous, PcmIntact
<1>5. PumpInv
  BY DEF PumpInv, StagedUpTo
<1> QED
  BY <1>2, <1>3, <1>4, <1>5 DEF IInv

-----------------------------------------------------------------------------
(* The producer fills cells between what is unread and the ring's end.     *)
LEMMA FillStep == ASSUME IInv, NEW n \in 1 .. CompSize, Fill(n) PROVE IInv'
<1>0. TypeOK /\ CursorsSafe /\ CompIntact /\ StageContiguous /\ PcmIntact /\ PumpInv
  BY DEF IInv
<1>n. Numeric
  BY <1>0, Numbers, Zenon
<1>a. n \in 1 .. Contig /\ claimed = 0 /\ fed + n <= StreamLen
  BY DEF Fill
<1>b. WriteAt = fed % CompSize
  BY <1>0, WriteAtIndex
<1>c. WriteAt \in 0 .. CompSize - 1
  BY <1>0, WriteAtIndex
<1>1. n \in Nat /\ n >= 1 /\ n <= CompSize - WriteAt /\ n <= CompSize - (fed - taken)
  BY <1>0, <1>a, <1>c, ContigFits, <1>n DEF Numeric
<1>d. taken <= fed /\ fed + n <= taken + CompSize
  BY <1>0, <1>1, <1>n DEF CursorsSafe, Numeric
<1>2. TypeOK'
  <2>1. comp' \in [0 .. CompSize - 1 -> Pos \cup {NoCell}]
    <3>1. \A c \in WriteAt .. WriteAt + n - 1 : fed + (c - WriteAt) \in Pos
      BY <1>0, <1>1, <1>a, <1>c, <1>n DEF Pos, Numeric
    <3> QED
      BY <1>0, <3>1 DEF Fill, TypeOK
  <2> QED
    BY <1>0, <2>1, <1>1, <1>a DEF TypeOK, Fill, stageVars, pcmVars
<1>3. \A i \in fed .. fed + n - 1 : comp'[i % CompSize] = i
  <2> SUFFICES ASSUME NEW i \in fed .. fed + n - 1 PROVE comp'[i % CompSize] = i
    OBVIOUS
  <2> DEFINE d == i - fed
  <2>1. d \in Nat /\ d \in 0 .. n - 1 /\ fed + d = i /\ WriteAt + d < CompSize
    BY <1>0, <1>1, <1>c, <1>n DEF Numeric
  <2>2. (fed % CompSize) + d < CompSize
    BY <2>1, <1>b, Zenon
  <2> HIDE DEF d
  <2>3. (fed + d) % CompSize = (fed % CompSize) + d
    BY <2>1, <2>2, <1>0, Integral, Divides, ModRun, Zenon
  <2>4. i % CompSize = WriteAt + d
    BY <2>1, <2>3, <1>b, Zenon
  <2>5. WriteAt + d \in 0 .. CompSize - 1 /\ WriteAt + d \in WriteAt .. WriteAt + n - 1
        /\ fed + ((WriteAt + d) - WriteAt) = i
    BY <2>1, <1>0, <1>1, <1>c, <1>n DEF Numeric
  <2>6. comp'[WriteAt + d] = i
    BY <2>5 DEF Fill
  <2> QED
    BY <2>4, <2>6, Zenon
<1>4. \A i \in taken .. fed - 1 : comp'[i % CompSize] = comp[i % CompSize]
  <2> SUFFICES ASSUME NEW i \in taken .. fed - 1
               PROVE  comp'[i % CompSize] = comp[i % CompSize]
    OBVIOUS
  <2> DEFINE c == i % CompSize
  <2>1. i \in Int /\ taken <= i /\ i <= fed - 1
    BY <1>n DEF Numeric
  <2>2. c \in 0 .. CompSize - 1
    BY <2>1, Divides, Division, Zenon
  <2> HIDE DEF c
  <2>3. ASSUME c \in WriteAt .. WriteAt + n - 1 PROVE FALSE
    <3> DEFINE d == c - WriteAt
    <3>1. d \in Nat /\ d < n /\ WriteAt + d < CompSize /\ WriteAt + d = c
      BY <2>2, <2>3, <1>c, <1>1, <1>n DEF Numeric
    <3> HIDE DEF d
    <3>2. (fed + d) - i \in 0 .. CompSize - 1 /\ fed + d \in Int /\ fed + d # i
      BY <3>1, <2>1, <1>d, <1>1, <1>n DEF Numeric
    <3>3. (fed % CompSize) + d < CompSize
      BY <3>1, <1>b, Zenon
    <3>4. (fed + d) % CompSize = (fed % CompSize) + d
      BY <3>1, <3>3, <1>0, Integral, Divides, ModRun, Zenon
    <3>5. (fed + d) % CompSize = i % CompSize
      BY <3>1, <3>4, <1>b, Zenon DEF c
    <3>6. fed + d = i
      BY <3>2, <3>5, <2>1, Divides, ModSame, Zenon
    <3> QED
      BY <3>2, <3>6
  <2>4. comp'[c] = comp[c]
    BY <2>2, <2>3 DEF Fill
  <2> QED
    BY <2>4 DEF c
<1>5. CursorsSafe'
  BY <1>0, <1>1, <1>a, <1>d, <1>n DEF CursorsSafe, Fill, pcmVars, Numeric
<1>6. CompIntact'
  BY <1>0, <1>4 DEF CompIntact, Fill
<1>7. StageContiguous' /\ PcmIntact'
  BY <1>0 DEF StageContiguous, StagedUpTo, PcmIntact, Fill, stageVars, pcmVars
<1>8. PumpInv'
  BY <1>0, <1>a, <1>3 DEF PumpInv, StagedUpTo, Fill, stageVars, pcmVars
<1> QED
  BY <1>2, <1>5, <1>6, <1>7, <1>8 DEF IInv

(* What was filled becomes readable: the counts advance together.           *)
LEMMA CommitStep == ASSUME IInv, Commit PROVE IInv'
<1>0. TypeOK /\ CursorsSafe /\ CompIntact /\ StageContiguous /\ PcmIntact /\ PumpInv
  BY DEF IInv
<1>n. Numeric
  BY <1>0, Numbers, Zenon
<1>a. fed + claimed <= StreamLen
  BY <1>0 DEF PumpInv
<1>1. comp_wr' = (fed + claimed) % CursorMod
  <2>1. comp_wr' = ((fed % CursorMod) + claimed) % CursorMod
    BY <1>0 DEF Commit, Plus, CursorsSafe
  <2> QED
    BY <1>0, <2>1, Integral, Divides, ModPlus, Zenon
<1>b. comp_wr' \in 0 .. CursorMod - 1
  <2>1. fed + claimed \in Int
    BY <1>0, Integral
  <2> QED
    BY <1>1, <2>1, Divides, Division, Zenon
<1>2. TypeOK'
  BY <1>0, <1>a, <1>b, <1>n DEF TypeOK, Commit, stageVars, pcmVars, Numeric
<1>3. CursorsSafe'
  BY <1>0, <1>1, <1>n DEF CursorsSafe, Commit, pcmVars, Numeric
<1>4. CompIntact'
  <2>0. comp' = comp /\ taken' = taken /\ fed' = fed + claimed
    BY DEF Commit
  <2>1. \A i \in taken .. (fed + claimed) - 1 :
          i \in taken .. fed - 1 \/ i \in fed .. fed + claimed - 1
    BY <1>n DEF Numeric
  <2>2. \A i \in taken .. (fed + claimed) - 1 : comp[i % CompSize] = i
    BY <1>0, <2>1, Zenon DEF CompIntact, PumpInv
  <2> QED
    BY <2>0, <2>2 DEF CompIntact
<1>5. StageContiguous' /\ PcmIntact'
  BY <1>0 DEF StageContiguous, StagedUpTo, PcmIntact, Commit, stageVars, pcmVars
<1>6. PumpInv'
  BY <1>0, <1>n DEF PumpInv, StagedUpTo, Commit, stageVars, pcmVars, Numeric
<1> QED
  BY <1>2, <1>3, <1>4, <1>5, <1>6 DEF IInv

(* The end of the stream changes no ring.                                   *)
LEMMA EofStep == ASSUME IInv, cq_decring_eof PROVE IInv'
BY DEF IInv, TypeOK, CursorsSafe, CompIntact, StageContiguous, PcmIntact, PumpInv,
       StagedUpTo, cq_decring_eof, stageVars, pcmVars

-----------------------------------------------------------------------------
(* The pump takes no more than there is to read, or room to stage.         *)
LEMMA TopUpStep == ASSUME IInv, TopUp PROVE IInv'
<1>0. TypeOK /\ CursorsSafe /\ CompIntact /\ StageContiguous /\ PcmIntact /\ PumpInv
  BY DEF IInv
<1>n. Numeric
  BY <1>0, Numbers, Zenon
<1>1. CompAvail = fed - taken
  BY <1>0, TrueDistances, Zenon
<1>2. pump = "off" /\ used = 0 /\ used' = 0 /\ stage_len' = stage_len
  BY <1>0 DEF PumpInv, TopUp
<1> DEFINE t == IF CompAvail < StageSize - stage_len THEN CompAvail ELSE StageSize - stage_len
<1>t. take' = t
  BY DEF TopUp
<1>3. t \in Nat /\ t <= fed - taken /\ stage_len + t <= StageSize
  BY <1>0, <1>1, <1>n DEF CursorsSafe, Numeric
<1> HIDE DEF t
<1>p. pump' = (IF take' > 0 THEN "copy" ELSE "decode")
  BY DEF TopUp
<1>4. TypeOK'
  <2>1. t \in 0 .. StageSize
    BY <1>3, <1>n DEF Numeric
  <2>4. used' \in 0 .. StageSize
    BY <1>2, <1>n DEF Numeric
  <2>3. pump' \in {"off", "copy", "release", "decode", "emit", "publish", "compact"}
    BY <1>p
  <2>2. UNCHANGED <<src, compVars, stage, stage_len, frame, pcmVars>>
    BY DEF TopUp
  <2> QED
    BY <1>0, <1>t, <2>1, <2>2, <2>3, <2>4 DEF TypeOK, compVars, pcmVars
<1>5. CursorsSafe' /\ CompIntact' /\ PcmIntact'
  BY <1>0 DEF CursorsSafe, CompIntact, PcmIntact, TopUp, compVars, pcmVars
<1>6. StagedUpTo' = taken /\ StagedUpTo = taken
  BY <1>2, <1>p DEF StagedUpTo, TopUp, compVars
<1>7. StageContiguous'
  BY <1>0, <1>6 DEF StageContiguous, TopUp
<1>8. PumpInv'
  BY <1>0, <1>2, <1>3, <1>t, <1>p, <1>6, <1>n DEF PumpInv, TopUp, compVars, pcmVars, Numeric
<1> QED
  BY <1>4, <1>5, <1>7, <1>8 DEF IInv

(* The stage grows by the oldest unread cells of the comp ring.             *)
LEMMA CopyStep == ASSUME IInv, Copy PROVE IInv'
<1>0. TypeOK /\ CursorsSafe /\ CompIntact /\ StageContiguous /\ PcmIntact /\ PumpInv
  BY DEF IInv
<1>n. Numeric
  BY <1>0, Numbers, Zenon
<1>1. /\ pump = "copy" /\ pump' = "release" /\ used = 0 /\ take <= fed - taken
      /\ stage_len + take <= StageSize /\ stage_len' = stage_len + take
      /\ stage_len <= taken
  BY <1>0 DEF PumpInv, Copy, StagedUpTo
<1>2. ASSUME NEW k \in stage_len .. stage_len + take - 1
      PROVE  comp[(comp_rd + (k - stage_len)) % CompSize] = taken + (k - stage_len)
  <2> DEFINE d == k - stage_len
  <2>1. d \in Int /\ taken + d \in taken .. fed - 1
    BY <1>1, <1>n DEF Numeric
  <2> HIDE DEF d
  <2>i. d \in Int /\ taken \in Int
    BY <2>1, <1>n DEF Numeric
  <2>2. ((taken % CursorMod) + d) % CompSize = (taken + d) % CompSize
    BY <2>i, Divides, ModIndex, Zenon
  <2>3. comp[(taken + d) % CompSize] = taken + d
    BY <1>0, <2>1, Zenon DEF CompIntact
  <2>4. comp_rd = taken % CursorMod
    BY <1>0, Zenon DEF CursorsSafe
  <2>5. comp[(comp_rd + d) % CompSize] = taken + d
    BY <2>2, <2>3, <2>4, Zenon
  <2> QED
    BY <2>5 DEF d
<1>3. ASSUME NEW k \in 0 .. stage_len' - 1
      PROVE  stage'[k] = (taken - stage_len) + k
  <2>1. k \in 0 .. StageSize - 1 /\ k \in Int
    BY <1>1, <1>n DEF Numeric
  <2>2. CASE k \in stage_len .. stage_len + take - 1
    <3>1. stage'[k] = comp[(comp_rd + (k - stage_len)) % CompSize]
      BY <2>1, <2>2, Zenon DEF Copy
    <3>2. stage'[k] = taken + (k - stage_len)
      BY <1>2, <2>2, <3>1, Zenon
    <3> QED
      BY <2>1, <3>2, <1>n DEF Numeric
  <2>3. CASE k \notin stage_len .. stage_len + take - 1
    <3>1. stage'[k] = stage[k]
      BY <2>1, <2>3, Zenon DEF Copy
    <3>2. k \in 0 .. stage_len - 1
      BY <1>1, <2>1, <2>3, <1>n DEF Numeric
    <3> QED
      BY <3>1, <3>2, <1>0, <1>1 DEF StageContiguous, StagedUpTo
  <2> QED
    BY <2>2, <2>3
<1>4. TypeOK'
  <2>1. stage' \in [0 .. StageSize - 1 -> Pos \cup {NoCell}]
    <3>1. \A k \in stage_len .. stage_len + take - 1 : taken + (k - stage_len) \in Pos
      BY <1>1, <1>n DEF Numeric, Pos
    <3>2. \A k \in stage_len .. stage_len + take - 1 :
            comp[(comp_rd + (k - stage_len)) % CompSize] \in Pos
      BY <1>2, <3>1, Zenon
    <3>3. stage' = [k \in 0 .. StageSize - 1 |->
                      IF k \in stage_len .. stage_len + take - 1
                      THEN comp[(comp_rd + (k - stage_len)) % CompSize] ELSE stage[k]]
      BY DEF Copy
    <3>4. stage \in [0 .. StageSize - 1 -> Pos \cup {NoCell}]
      BY <1>0 DEF TypeOK
    <3> QED
      BY <3>2, <3>3, <3>4, Zenon
  <2>2. stage_len' \in 0 .. StageSize
    BY <1>1, <1>n DEF Numeric
  <2> QED
    BY <1>0, <1>1, <2>1, <2>2 DEF TypeOK, Copy, compVars, pcmVars
<1>5. CursorsSafe' /\ CompIntact' /\ PcmIntact'
  BY <1>0 DEF CursorsSafe, CompIntact, PcmIntact, Copy, compVars, pcmVars
<1>6. StagedUpTo' = taken + take /\ StagedUpTo = taken
  BY <1>1 DEF StagedUpTo, Copy, compVars
<1>7. StageContiguous'
  <2>1. \A k \in 0 .. stage_len' - 1 : (taken - stage_len) + k = StagedUpTo' - stage_len' + k
    BY <1>1, <1>6, <1>n DEF Numeric
  <2> QED
    BY <1>3, <2>1 DEF StageContiguous
<1>8. PumpInv'
  BY <1>0, <1>1, <1>6, <1>n DEF PumpInv, Copy, compVars, pcmVars, Numeric
<1> QED
  BY <1>4, <1>5, <1>7, <1>8 DEF IInv

(* What was copied becomes claimable.                                       *)
LEMMA ReleaseStep == ASSUME IInv, Release PROVE IInv'
<1>0. TypeOK /\ CursorsSafe /\ CompIntact /\ StageContiguous /\ PcmIntact /\ PumpInv
  BY DEF IInv
<1>n. Numeric
  BY <1>0, Numbers, Zenon
<1>1. /\ pump = "release" /\ pump' = "decode" /\ used = 0 /\ take <= fed - taken
      /\ take <= stage_len /\ taken' = taken + take /\ take' = 0
  BY <1>0 DEF PumpInv, Release
<1>2. comp_rd' = (taken + take) % CursorMod
  <2>1. comp_rd' = ((taken % CursorMod) + take) % CursorMod
    BY <1>0 DEF Release, Plus, CursorsSafe
  <2> QED
    BY <1>0, <2>1, Integral, Divides, ModPlus, Zenon
<1>3. comp_rd' \in 0 .. CursorMod - 1
  <2>1. taken + take \in Int
    BY <1>n DEF Numeric
  <2> QED
    BY <1>2, <2>1, Divides, Division, Zenon
<1>4. TypeOK'
  <2>1. take' \in 0 .. StageSize /\ taken' \in Nat
    BY <1>1, <1>n DEF Numeric
  <2> QED
    BY <1>0, <1>1, <1>3, <2>1 DEF TypeOK, Release, pcmVars
<1>5. CursorsSafe'
  BY <1>0, <1>1, <1>2, <1>n DEF CursorsSafe, Release, pcmVars, Numeric
<1>6. CompIntact'
  <2>1. \A i \in taken' .. fed - 1 : i \in taken .. fed - 1
    BY <1>1, <1>n DEF Numeric
  <2>2. \A i \in taken' .. fed - 1 : comp[i % CompSize] = i
    BY <1>0, <2>1, Zenon DEF CompIntact
  <2>3. comp' = comp /\ fed' = fed
    BY DEF Release
  <2> QED
    BY <2>2, <2>3 DEF CompIntact
<1>7. StagedUpTo' = taken + take /\ StagedUpTo = taken + take
  BY <1>1 DEF StagedUpTo
<1>8. StageContiguous' /\ PcmIntact'
  BY <1>0, <1>7 DEF StageContiguous, PcmIntact, Release, pcmVars
<1>9. PumpInv'
  BY <1>0, <1>1, <1>7, <1>n DEF PumpInv, Release, pcmVars, Numeric
<1> QED
  BY <1>4, <1>5, <1>6, <1>8, <1>9 DEF IInv

(* The decode loop's steps move used within the stage and leave the rest;   *)
(* what one of them does to frame must agree with the stream.              *)
LEMMA DecodeLoopStep ==
  ASSUME IInv, pump = "decode", LoopFrame,
         used' \in Nat, used' <= stage_len,
         \/ pump' \in {"decode", "compact"} /\ frame' = frame
         \/ /\ pump' = "emit" /\ frame'.units \in PcmUnits
            /\ frame' \in [pos : Pos, units : 0 .. MaxPcm]
            /\ src[frame'.pos].len > 0
            /\ frame'.pos + src[frame'.pos].len = (taken - stage_len) + used'
            /\ PcmSpace >= MaxPcm
  PROVE  IInv'
<1>0. TypeOK /\ CursorsSafe /\ CompIntact /\ StageContiguous /\ PcmIntact /\ PumpInv
  BY DEF IInv
<1>n. Numeric
  BY <1>0, Numbers, Zenon
<1>u. /\ src' = src /\ comp' = comp /\ comp_wr' = comp_wr /\ comp_rd' = comp_rd
      /\ eof' = eof /\ claimed' = claimed /\ fed' = fed /\ taken' = taken
      /\ stage' = stage /\ stage_len' = stage_len /\ take' = take
      /\ pcm' = pcm /\ pcm_wr' = pcm_wr /\ pcm_rd' = pcm_rd
      /\ emitted' = emitted /\ heard' = heard
  BY DEF LoopFrame, compVars, pcmVars
<1>1. TypeOK'
  <2>1. used' \in 0 .. StageSize
        /\ pump' \in {"off", "copy", "release", "decode", "emit", "publish", "compact"}
    BY <1>n DEF Numeric
  <2>2. frame' \in [pos : Pos, units : 0 .. MaxPcm]
    BY <1>0 DEF TypeOK
  <2> QED
    BY <1>0, <1>u, <2>1, <2>2 DEF TypeOK
<1>2. CursorsSafe' /\ CompIntact' /\ PcmIntact'
  BY <1>0, <1>u DEF CursorsSafe, CompIntact, PcmIntact
<1>3. StagedUpTo' = taken /\ StagedUpTo = taken
  BY <1>u DEF StagedUpTo
<1>4. StageContiguous'
  BY <1>0, <1>3, <1>u DEF StageContiguous
<1>5. pump' = "emit" =>
        /\ frame'.units \in Nat /\ frame'.units <= MaxPcm
        /\ Len(emitted) + frame'.units <= heard + PcmSize
  <2>1. PcmSpace = PcmSize - (Len(emitted) - heard)
    BY <1>0, TrueDistances, Zenon
  <2>2. pump' = "emit" => frame'.units \in Nat /\ frame'.units <= MaxPcm
    BY <1>n DEF Numeric
  <2> QED
    BY <2>1, <2>2, <1>n DEF Numeric
<1>6. PumpInv'
  BY <1>0, <1>3, <1>5, <1>u, <1>n DEF PumpInv, Numeric
<1> QED
  BY <1>1, <1>2, <1>4, <1>6 DEF IInv

(* A whole frame in the stage: its header is the stream's, and it ends in   *)
(* the stage.                                                               *)
LEMMA WholeFrameAt ==
  ASSUME IInv, pump = "decode", NEW k \in Nat, WholeFrame(k)
  PROVE  /\ stage[k] \in Pos /\ HeaderAt(k) = src[stage[k]]
         /\ HeaderAt(k).len \in 1 .. MaxFrameLen
         /\ k + HeaderAt(k).len <= stage_len
         /\ stage[k] = (taken - stage_len) + k
<1>0. TypeOK /\ PumpInv
  BY DEF IInv
<1>n. Numeric
  BY <1>0, Numbers, Zenon
<1>1. k < stage_len /\ HeaderAt(k).len > 0 /\ k + HeaderAt(k).len <= stage_len
  BY DEF WholeFrame, IsHeader
<1>2. k \in 0 .. stage_len - 1
  BY <1>1, <1>n DEF Numeric
<1>3. stage[k] \in Pos /\ stage[k] = (taken - stage_len) + k
  BY <1>2, StagedCells DEF StagedUpTo
<1>4. src[stage[k]].len \in 0 .. MaxFrameLen /\ src[stage[k]].len \in Int
  BY <1>0, <1>3, HeaderLength, Zenon
<1> QED
  BY <1>1, <1>3, <1>4 DEF HeaderAt

(* Where the decoder ends after the frame it found.                         *)
LEMMA FoundAt ==
  ASSUME IInv, pump = "decode", NEW k \in used .. stage_len - 1, Found(k)
  PROVE  /\ k \in Nat /\ used <= k
         /\ k + HeaderAt(k).len \in Nat /\ k < k + HeaderAt(k).len
         /\ k + HeaderAt(k).len <= stage_len
         /\ stage[k] \in Pos /\ HeaderAt(k) = src[stage[k]]
         /\ HeaderAt(k).len \in Int /\ HeaderAt(k).len > 0
         /\ stage[k] = (taken - stage_len) + k
<1>n. Numeric
  BY Numbers, Zenon DEF IInv
<1>1. k \in Nat /\ used <= k
  BY <1>n DEF Numeric
<1>2. WholeFrame(k)
  BY DEF Found
<1>3. /\ stage[k] \in Pos /\ HeaderAt(k) = src[stage[k]]
      /\ HeaderAt(k).len \in 1 .. MaxFrameLen
      /\ k + HeaderAt(k).len <= stage_len
      /\ stage[k] = (taken - stage_len) + k
  BY <1>1, <1>2, WholeFrameAt, Zenon
<1>4. HeaderAt(k).len \in Nat /\ HeaderAt(k).len > 0
  BY <1>3, SizesAssumption
<1>5. k + HeaderAt(k).len \in Nat /\ k < k + HeaderAt(k).len
  <2> DEFINE len == HeaderAt(k).len
  <2>1. len \in Nat /\ len > 0
    BY <1>4
  <2> HIDE DEF len
  <2>2. k + len \in Nat /\ k < k + len
    BY <1>1, <2>1
  <2> QED
    BY <2>2 DEF len
<1> QED
  BY <1>1, <1>3, <1>4, <1>5

(* Every outcome of the gate stays within the stage.                        *)
LEMMA DecodeStep ==
  ASSUME IInv, RingFullOrDry \/ Hold \/ Resync \/ Flush \/ DecodeFrame \/ SkipJunk
  PROVE  IInv'
<1>0. TypeOK /\ PumpInv
  BY DEF IInv
<1>n. Numeric
  BY <1>0, Numbers, Zenon
<1>1. pump = "decode" /\ LoopFrame /\ used <= stage_len
  BY <1>0 DEF RingFullOrDry, Hold, Resync, Flush, DecodeFrame, SkipJunk, Ready, PumpInv
<1>2. CASE RingFullOrDry \/ Hold \/ Flush
  <2>1. used' \in {used, stage_len} /\ pump' = "compact" /\ frame' = frame
    BY <1>2 DEF RingFullOrDry, Hold, Flush, Break
  <2>2. used' \in Nat /\ used' <= stage_len
    BY <2>1, <1>1, <1>n DEF Numeric
  <2> QED
    BY <1>1, <2>1, <2>2, DecodeLoopStep
<1>3. CASE Resync
  <2>1. \E k \in used + 1 .. stage_len - 1 : used' = k
    BY <1>3 DEF Resync, Continue
  <2>2. used' \in Nat /\ used' <= stage_len
    BY <2>1, <1>n DEF Numeric
  <2>3. pump' = "decode" /\ frame' = frame
    BY <1>3 DEF Resync, Continue
  <2> QED
    BY <1>1, <2>2, <2>3, DecodeLoopStep
<1>4. CASE SkipJunk
  <2>1. pump' = "decode" /\ frame' = frame
    BY <1>4 DEF SkipJunk, Continue
  <2>2. CASE used' = stage_len
    <3>1. used' \in Nat /\ used' <= stage_len
      BY <2>2, <1>n DEF Numeric
    <3> QED
      BY <1>1, <2>1, <3>1, DecodeLoopStep
  <2>3. CASE used' # stage_len
    <3>1. PICK k \in used .. stage_len - 1 : Found(k) /\ used' = k + HeaderAt(k).len
      BY <1>4, <2>3 DEF SkipJunk, Continue
    <3>2. k + HeaderAt(k).len \in Nat /\ k + HeaderAt(k).len <= stage_len
      BY <3>1, <1>1, FoundAt, Zenon
    <3>3. used' \in Nat /\ used' <= stage_len
      BY <3>1, <3>2, Zenon
    <3> QED
      BY <1>1, <2>1, <3>3, DecodeLoopStep
  <2> QED
    BY <2>2, <2>3
<1>5. CASE DecodeFrame
  <2>1. PICK k \in used .. stage_len - 1, n \in PcmUnits :
          /\ Found(k) /\ frame' = [pos |-> stage[k], units |-> n]
          /\ used' = k + HeaderAt(k).len
    BY <1>5 DEF DecodeFrame
  <2>2. pump' = "emit" /\ PcmSpace >= MaxPcm
    BY <1>5 DEF DecodeFrame, Ready
  <2>3. /\ k \in Nat /\ k + HeaderAt(k).len \in Nat /\ k + HeaderAt(k).len <= stage_len
        /\ stage[k] \in Pos /\ HeaderAt(k) = src[stage[k]]
        /\ HeaderAt(k).len \in Int /\ HeaderAt(k).len > 0
        /\ stage[k] = (taken - stage_len) + k
    BY <2>1, <1>1, FoundAt, Zenon
  <2>4. used' \in Nat /\ used' <= stage_len
    BY <2>1, <2>3, Zenon
  <2>5. frame'.pos = stage[k] /\ frame'.units = n /\ n \in PcmUnits
    BY <2>1
  <2>6. frame' \in [pos : Pos, units : 0 .. MaxPcm]
    BY <2>1, <2>3, SizesAssumption
  <2>7. src[frame'.pos].len > 0 /\ frame'.pos + src[frame'.pos].len = (taken - stage_len) + used'
    <3> DEFINE len == HeaderAt(k).len
    <3>1. src[frame'.pos].len = len /\ frame'.pos = (taken - stage_len) + k
      BY <2>3, <2>5
    <3>2. len \in Int /\ len > 0 /\ used' = k + len
      BY <2>1, <2>3
    <3> HIDE DEF len
    <3>3. len > 0 /\ ((taken - stage_len) + k) + len = (taken - stage_len) + used'
      BY <3>2, <2>3, <1>n DEF Numeric
    <3> QED
      BY <3>1, <3>3, Zenon
  <2> QED
    BY <1>1, <2>2, <2>4, <2>5, <2>6, <2>7, DecodeLoopStep
<1> QED
  BY <1>2, <1>3, <1>4, <1>5

(* A frame is written past everything the interrupt has yet to play.        *)
LEMMA EmitStep == ASSUME IInv, Emit PROVE IInv'
<1>0. TypeOK /\ CursorsSafe /\ CompIntact /\ StageContiguous /\ PcmIntact /\ PumpInv
  BY DEF IInv
<1>n. Numeric
  BY <1>0, Numbers, Zenon
<1> DEFINE made == Len(emitted)
<1>m. made \in Nat /\ made \in Int
  BY <1>n DEF Numeric
<1>1. pump = "emit" /\ pump' = "publish" /\ made + frame.units <= heard + PcmSize /\ heard <= made
  BY <1>0 DEF PumpInv, Emit, CursorsSafe
<1>2. \A c \in 0 .. PcmSize - 1 :
        pcm'[c] = IF (c - pcm_wr) % PcmSize < frame.units
                  THEN <<frame.pos, ((c - pcm_wr) % PcmSize) + 1>> ELSE pcm[c]
  BY DEF Emit
<1>3. pcm_wr = made % CursorMod
  BY <1>0, Zenon DEF CursorsSafe
<1> HIDE DEF made
<1>4. ASSUME NEW i \in Int
      PROVE  /\ (i % PcmSize) \in 0 .. PcmSize - 1
             /\ ((i % PcmSize) - pcm_wr) % PcmSize = (i - made) % PcmSize
  <2>1. (i % PcmSize) \in 0 .. PcmSize - 1
    BY Divides, Division, Zenon
  <2>2. ((i % PcmSize) - (made % CursorMod)) % PcmSize = (i - made) % PcmSize
    BY <1>m, Divides, ModOffset, Zenon
  <2> QED
    BY <2>1, <2>2, <1>3, Zenon
<1>5. \A j \in 1 .. frame.units : pcm'[(made + j - 1) % PcmSize] = <<frame.pos, j>>
  <2> SUFFICES ASSUME NEW j \in 1 .. frame.units
               PROVE  pcm'[(made + j - 1) % PcmSize] = <<frame.pos, j>>
    OBVIOUS
  <2> DEFINE i == made + j - 1
  <2> DEFINE c == i % PcmSize
  <2>1. i \in Int /\ i - made = j - 1 /\ j - 1 \in 0 .. PcmSize - 1
        /\ j - 1 < frame.units /\ (j - 1) + 1 = j
    BY <1>m, <1>n DEF Numeric
  <2> HIDE DEF i
  <2>2. c \in 0 .. PcmSize - 1 /\ (c - pcm_wr) % PcmSize = (j - 1) % PcmSize
    BY <1>4, <2>1, Zenon
  <2>3. (j - 1) % PcmSize = j - 1
    BY <2>1, Divides, ModSmall, Zenon
  <2> HIDE DEF c
  <2>4. pcm'[c] = <<frame.pos, (j - 1) + 1>>
    BY <1>2, <2>1, <2>2, <2>3, Zenon
  <2> QED
    BY <2>1, <2>4, Zenon DEF c, i
<1>6. \A i \in heard .. made - 1 : pcm'[i % PcmSize] = pcm[i % PcmSize]
  <2> SUFFICES ASSUME NEW i \in heard .. made - 1
               PROVE  pcm'[i % PcmSize] = pcm[i % PcmSize]
    OBVIOUS
  <2> DEFINE c == i % PcmSize
  <2> DEFINE d == (i - made) + PcmSize
  <2>1. i \in Int /\ i - made \in Int /\ d \in 0 .. PcmSize - 1 /\ d \in Int
        /\ ~(d < frame.units) /\ d = (i - made) + PcmSize * 1 /\ 1 \in Int
    BY <1>1, <1>m, <1>n DEF Numeric
  <2> HIDE DEF d
  <2>2. c \in 0 .. PcmSize - 1 /\ (c - pcm_wr) % PcmSize = (i - made) % PcmSize
    BY <1>4, <2>1, Zenon
  <2>3. (i - made) % PcmSize = d
    <3>1. d % PcmSize = (i - made) % PcmSize
      BY <2>1, Divides, ModShift, Zenon
    <3>2. d % PcmSize = d
      BY <2>1, Divides, ModSmall, Zenon
    <3> QED
      BY <3>1, <3>2, Zenon
  <2> HIDE DEF c
  <2>4. pcm'[c] = pcm[c]
    BY <1>2, <2>1, <2>2, <2>3, Zenon
  <2> QED
    BY <2>4, Zenon DEF c
<1>7. TypeOK'
  <2>1. ASSUME NEW c \in 0 .. PcmSize - 1
        PROVE  pcm'[c] \in (Pos \cup {NoCell}) \X (0 .. MaxPcm)
    <3> DEFINE j == (c - pcm_wr) % PcmSize
    <3>1. pcm'[c] = IF j < frame.units THEN <<frame.pos, j + 1>> ELSE pcm[c]
      BY <1>2
    <3>2. j \in 0 .. PcmSize - 1
      <4>1. c - pcm_wr \in Int
        BY <1>0, SizesAssumption DEF TypeOK
      <4> QED
        BY <4>1, Divides, Division, Zenon
    <3> HIDE DEF j
    <3>3. j < frame.units => j + 1 \in 0 .. MaxPcm
      BY <3>2, <1>n DEF Numeric
    <3>4. frame.pos \in Pos /\ pcm[c] \in (Pos \cup {NoCell}) \X (0 .. MaxPcm)
      BY <1>0 DEF TypeOK
    <3> QED
      BY <3>1, <3>3, <3>4
  <2>2. pcm' \in [0 .. PcmSize - 1 -> (Pos \cup {NoCell}) \X (0 .. MaxPcm)]
    <3>1. DOMAIN pcm' = 0 .. PcmSize - 1
          /\ pcm' = [c \in 0 .. PcmSize - 1 |-> pcm'[c]]
      BY DEF Emit
    <3> QED
      BY <3>1, <2>1, Zenon
  <2>3. UNCHANGED <<src, compVars, stageVars, pcm_wr, pcm_rd, emitted, heard>>
    BY DEF Emit
  <2> QED
    BY <1>0, <1>1, <2>2, <2>3 DEF TypeOK, compVars, stageVars
<1>u. UNCHANGED <<src, compVars, stageVars, pcm_wr, pcm_rd, emitted, heard>>
  BY DEF Emit
<1>8. CursorsSafe' /\ CompIntact' /\ StageContiguous'
  BY <1>0, <1>1, <1>u DEF CursorsSafe, CompIntact, StageContiguous, StagedUpTo, compVars, stageVars
<1>9. PcmIntact'
  <2>1. \A i \in heard .. made - 1 : pcm'[i % PcmSize] = emitted[i + 1]
    BY <1>0, <1>6, Zenon DEF PcmIntact, made
  <2> QED
    BY <2>1, <1>u DEF PcmIntact, made
<1>10. PumpInv'
  <2>1. \A j \in 1 .. frame.units : pcm'[(Len(emitted) + j - 1) % PcmSize] = <<frame.pos, j>>
    BY <1>5, Zenon DEF made
  <2> QED
    BY <1>0, <1>1, <1>u, <2>1 DEF PumpInv, StagedUpTo, compVars, stageVars
<1> QED
  BY <1>7, <1>8, <1>9, <1>10 DEF IInv

(* What was written becomes playable.                                       *)
LEMMA PublishStep == ASSUME IInv, Publish PROVE IInv'
<1>0. TypeOK /\ CursorsSafe /\ CompIntact /\ StageContiguous /\ PcmIntact /\ PumpInv
  BY DEF IInv
<1>n. Numeric
  BY <1>0, Numbers, Zenon
<1>u. UNCHANGED <<src, compVars, stageVars, pcm, pcm_rd, heard>> /\ pump' = "decode"
  BY DEF Publish
<1>1. /\ pump = "publish" /\ frame.units \in PcmUnits
      /\ Len(emitted) + frame.units <= heard + PcmSize /\ heard <= Len(emitted)
  BY <1>0 DEF PumpInv, Publish, CursorsSafe
<1>2. pcm_wr' = (Len(emitted) + frame.units) % CursorMod
  <2>1. pcm_wr' = ((Len(emitted) % CursorMod) + frame.units) % CursorMod
    BY <1>0 DEF Publish, Plus, CursorsSafe
  <2> QED
    BY <1>0, <2>1, Integral, Divides, ModPlus, Zenon
<1>3. pcm_wr' \in 0 .. CursorMod - 1
  <2>1. Len(emitted) + frame.units \in Int
    BY <1>n DEF Numeric
  <2> QED
    BY <1>2, <2>1, Divides, Division, Zenon
<1>4. UnitsOf(frame) \in Seq(Pos \X (1 .. MaxPcm)) /\ Len(UnitsOf(frame)) = frame.units
      /\ \A j \in 1 .. frame.units : UnitsOf(frame)[j] = <<frame.pos, j>>
  <2>1. frame.pos \in Pos /\ frame.units \in Nat /\ frame.units <= MaxPcm
    BY <1>0, <1>n DEF TypeOK, Numeric
  <2>2. \A j \in 1 .. frame.units : <<frame.pos, j>> \in Pos \X (1 .. MaxPcm)
    BY <2>1, SizesAssumption
  <2> QED
    BY <2>1, <2>2 DEF UnitsOf
<1>5. emitted \in Seq(Pos \X (1 .. MaxPcm)) /\ emitted' = emitted \o UnitsOf(frame)
  BY <1>0 DEF TypeOK, Publish
<1>6. /\ emitted' \in Seq(Pos \X (1 .. MaxPcm)) /\ Len(emitted') = Len(emitted) + frame.units
      /\ \A i \in 1 .. Len(emitted) : emitted'[i] = emitted[i]
      /\ \A j \in 1 .. frame.units : emitted'[Len(emitted) + j] = <<frame.pos, j>>
  <2> DEFINE t == UnitsOf(frame)
  <2> DEFINE S == Pos \X (1 .. MaxPcm)
  <2>1. /\ t \in Seq(S) /\ emitted \in Seq(S) /\ Len(t) = frame.units
        /\ emitted' = emitted \o t /\ \A j \in 1 .. frame.units : t[j] = <<frame.pos, j>>
    BY <1>4, <1>5
  <2> HIDE DEF t, S
  <2>2. /\ emitted \o t \in Seq(S)
        /\ Len(emitted \o t) = Len(emitted) + Len(t)
        /\ \A i \in 1 .. Len(emitted) : (emitted \o t)[i] = emitted[i]
        /\ \A j \in 1 .. Len(t) : (emitted \o t)[Len(emitted) + j] = t[j]
    BY <2>1
  <2>3. \A j \in 1 .. frame.units : emitted'[Len(emitted) + j] = <<frame.pos, j>>
    BY <2>1, <2>2, Zenon
  <2> QED
    BY <2>1, <2>2, <2>3, Zenon DEF S
<1>v. heard <= Len(emitted) + frame.units
  BY <1>1, <1>n DEF Numeric
<1>7. TypeOK'
  BY <1>0, <1>u, <1>3, <1>6 DEF TypeOK, compVars, stageVars
<1>8. CursorsSafe'
  BY <1>0, <1>u, <1>1, <1>2, <1>v, <1>6 DEF CursorsSafe, compVars, stageVars
<1>9. CompIntact' /\ StageContiguous'
  BY <1>0, <1>1, <1>u DEF CompIntact, StageContiguous, StagedUpTo, compVars, stageVars
<1>10. PcmIntact'
  <2> SUFFICES ASSUME NEW i \in heard .. (Len(emitted) + frame.units) - 1
               PROVE  pcm[i % PcmSize] = emitted'[i + 1]
    BY <1>u, <1>6 DEF PcmIntact
  <2>1. CASE i \in heard .. Len(emitted) - 1
    <3>1. i + 1 \in 1 .. Len(emitted)
      BY <2>1, <1>n DEF Numeric
    <3> QED
      BY <2>1, <3>1, <1>0, <1>6, Zenon DEF PcmIntact
  <2>2. CASE i \notin heard .. Len(emitted) - 1
    <3> DEFINE j == (i - Len(emitted)) + 1
    <3>1. j \in 1 .. frame.units /\ Len(emitted) + j - 1 = i /\ Len(emitted) + j = i + 1
      BY <2>2, <1>1, <1>n DEF Numeric
    <3> HIDE DEF j
    <3>2. pcm[(Len(emitted) + j - 1) % PcmSize] = <<frame.pos, j>>
      BY <1>0, <1>1, <3>1, Zenon DEF PumpInv
    <3>3. emitted'[Len(emitted) + j] = <<frame.pos, j>>
      BY <3>1, <1>6, Zenon
    <3> QED
      BY <3>1, <3>2, <3>3, Zenon
  <2> QED
    BY <2>1, <2>2, Zenon
<1>11. PumpInv'
  BY <1>0, <1>1, <1>u DEF PumpInv, StagedUpTo, compVars, stageVars
<1> QED
  BY <1>7, <1>8, <1>9, <1>10, <1>11 DEF IInv

(* Compaction moves the unconsumed cells to the front of the stage.         *)
LEMMA CompactStep == ASSUME IInv, Compact PROVE IInv'
<1>0. TypeOK /\ CursorsSafe /\ CompIntact /\ StageContiguous /\ PcmIntact /\ PumpInv
  BY DEF IInv
<1>n. Numeric
  BY <1>0, Numbers, Zenon
<1>u. /\ UNCHANGED <<src, compVars, take, frame, pcmVars>>
      /\ pump = "compact" /\ pump' = "off" /\ used' = 0 /\ stage_len' = stage_len - used
  BY DEF Compact
<1>1. used <= stage_len /\ stage_len <= taken
  BY <1>0, <1>u DEF PumpInv, StagedUpTo
<1>l. stage_len - used \in Nat /\ stage_len - used <= StageSize
  BY <1>1, <1>n DEF Numeric
<1>2. \A k \in 0 .. StageSize - 1 :
        stage'[k] = IF k < stage_len - used THEN stage[k + used] ELSE stage[k]
  BY DEF Compact
<1>3. StageContiguous'
  <2> SUFFICES ASSUME NEW k \in 0 .. (stage_len - used) - 1
               PROVE  stage'[k] = (taken - (stage_len - used)) + k
    BY <1>u DEF StageContiguous, StagedUpTo, compVars
  <2>1. /\ k \in 0 .. StageSize - 1 /\ k < stage_len - used /\ k + used \in 0 .. stage_len - 1
        /\ k \in Int
    BY <1>l, <1>1, <1>n DEF Numeric
  <2>2. stage'[k] = stage[k + used]
    BY <1>2, <2>1, Zenon
  <2>3. stage[k + used] = taken - stage_len + (k + used)
    BY <1>0, <1>u, <2>1 DEF StageContiguous, StagedUpTo
  <2> QED
    BY <2>1, <2>2, <2>3, <1>n DEF Numeric
<1>4. TypeOK'
  <2>1. ASSUME NEW k \in 0 .. StageSize - 1
        PROVE  stage'[k] \in Pos \cup {NoCell}
    <3>1. k < stage_len - used => k + used \in 0 .. StageSize - 1
      BY <1>1, <1>n DEF Numeric
    <3>2. \A m \in 0 .. StageSize - 1 : stage[m] \in Pos \cup {NoCell}
      BY <1>0 DEF TypeOK
    <3> QED
      BY <1>2, <3>1, <3>2, Zenon
  <2>2. stage' \in [0 .. StageSize - 1 -> Pos \cup {NoCell}]
    <3>1. stage' = [k \in 0 .. StageSize - 1 |-> stage'[k]]
      BY DEF Compact
    <3> QED
      BY <3>1, <2>1, Zenon
  <2>3. stage_len - used \in 0 .. StageSize /\ 0 \in 0 .. StageSize
    BY <1>l, <1>n DEF Numeric
  <2> QED
    BY <1>0, <1>u, <2>2, <2>3 DEF TypeOK, compVars, pcmVars
<1>5. CursorsSafe' /\ CompIntact' /\ PcmIntact'
  BY <1>0, <1>u DEF CursorsSafe, CompIntact, PcmIntact, compVars, pcmVars
<1>6. PumpInv'
  BY <1>0, <1>1, <1>u, <1>n DEF PumpInv, StagedUpTo, compVars, pcmVars, Numeric
<1> QED
  BY <1>3, <1>4, <1>5, <1>6 DEF IInv

-----------------------------------------------------------------------------
(* The interrupt reads no further than what was published.                 *)
LEMMA TakeStep == ASSUME IInv, NEW n \in 1 .. PcmSize, Take(n) PROVE IInv'
<1>0. TypeOK /\ CursorsSafe /\ CompIntact /\ StageContiguous /\ PcmIntact /\ PumpInv
  BY DEF IInv
<1>n. Numeric
  BY <1>0, Numbers, Zenon
<1>u. /\ UNCHANGED <<src, compVars, stageVars, pump, pcm, pcm_wr, emitted>>
      /\ heard' = heard + n /\ n \in 1 .. PcmAvail
  BY DEF Take
<1>1. n \in Nat /\ n \in Int /\ heard + n <= Len(emitted)
  <2>1. PcmAvail = Len(emitted) - heard
    BY <1>0, TrueDistances, Zenon
  <2> QED
    BY <1>u, <2>1, <1>n DEF Numeric
<1>2. pcm_rd' = (heard + n) % CursorMod
  <2>1. pcm_rd' = ((heard % CursorMod) + n) % CursorMod
    BY <1>0 DEF Take, Plus, CursorsSafe
  <2> QED
    BY <1>0, <1>1, <2>1, Integral, Divides, ModPlus, Zenon
<1>3. pcm_rd' \in 0 .. CursorMod - 1
  <2>1. heard + n \in Int
    BY <1>1, <1>n DEF Numeric
  <2> QED
    BY <1>2, <2>1, Divides, Division, Zenon
<1>4. heard + n \in Nat /\ Len(emitted) <= (heard + n) + PcmSize
  BY <1>0, <1>1, <1>n DEF CursorsSafe, Numeric
<1>5. TypeOK'
  BY <1>0, <1>u, <1>3, <1>4 DEF TypeOK, compVars, stageVars
<1>6. CursorsSafe'
  BY <1>0, <1>u, <1>1, <1>2, <1>4 DEF CursorsSafe, compVars, stageVars
<1>7. CompIntact' /\ StageContiguous'
  BY <1>0, <1>u DEF CompIntact, StageContiguous, StagedUpTo, compVars, stageVars
<1>8. PcmIntact'
  <2>1. \A i \in heard + n .. Len(emitted) - 1 : i \in heard .. Len(emitted) - 1
    BY <1>1, <1>n DEF Numeric
  <2>2. \A i \in heard + n .. Len(emitted) - 1 : pcm[i % PcmSize] = emitted[i + 1]
    BY <1>0, <2>1, Zenon DEF PcmIntact
  <2> QED
    BY <1>u, <2>2 DEF PcmIntact
<1>9. PumpInv'
  <2>0. pump \in {"emit", "publish"} => Len(emitted) + frame.units <= heard + PcmSize
    BY <1>0, Zenon DEF PumpInv
  <2>1. pump \in {"emit", "publish"} => Len(emitted) + frame.units <= (heard + n) + PcmSize
    <3>1. /\ Len(emitted) \in Nat /\ frame.units \in Nat /\ heard \in Nat /\ n \in Nat
          /\ PcmSize \in Nat
      BY <1>1, <1>n DEF Numeric
    <3> QED
      BY <2>0, <3>1
  <2> QED
    BY <1>0, <1>u, <2>1 DEF PumpInv, StagedUpTo, compVars, stageVars
<1> QED
  BY <1>5, <1>6, <1>7, <1>8, <1>9 DEF IInv

(* A new listen starts from empty rings.                                    *)
LEMMA ResetStep == ASSUME IInv, cq_decring_reset PROVE IInv'
<1>0. TypeOK /\ PumpInv
  BY DEF IInv
<1> USE SizesAssumption
<1>1. 0 % CursorMod = 0
  BY ModSmall
<1>u. /\ src' \in Streams /\ comp' = EmptyComp /\ comp_wr' = 0 /\ comp_rd' = 0 /\ eof' = FALSE
      /\ stage' = EmptyStage /\ stage_len' = 0 /\ pcm' = EmptyPcm /\ pcm_wr' = 0 /\ pcm_rd' = 0
      /\ fed' = 0 /\ taken' = 0 /\ emitted' = <<>> /\ heard' = 0
      /\ claimed' = claimed /\ claimed = 0 /\ take' = take /\ used' = used /\ frame' = frame
      /\ pump' = pump /\ pump = "off" /\ used = 0 /\ take = 0
  BY <1>0 DEF cq_decring_reset, ResetRings, PumpInv
<1>2. TypeOK'
  <2>1. EmptyComp \in [0 .. CompSize - 1 -> Pos \cup {NoCell}]
    BY DEF EmptyComp
  <2>2. EmptyStage \in [0 .. StageSize - 1 -> Pos \cup {NoCell}]
    BY DEF EmptyStage
  <2>3. EmptyPcm \in [0 .. PcmSize - 1 -> (Pos \cup {NoCell}) \X (0 .. MaxPcm)]
    BY DEF EmptyPcm
  <2>4. /\ 0 \in 0 .. CursorMod - 1 /\ 0 \in 0 .. CompSize /\ 0 \in 0 .. StageSize
        /\ 0 \in 0 .. StreamLen /\ 0 \in Nat
    OBVIOUS
  <2>5. <<>> \in Seq(Pos \X (1 .. MaxPcm))
    OBVIOUS
  <2> QED
    BY <1>0, <1>u, <2>1, <2>2, <2>3, <2>4, <2>5 DEF TypeOK
<1>3. CursorsSafe'
  BY <1>u, <1>1 DEF CursorsSafe
<1>4. CompIntact' /\ StageContiguous' /\ PcmIntact'
  BY <1>u DEF CompIntact, StageContiguous, PcmIntact
<1>5. PumpInv'
  BY <1>u DEF PumpInv, StagedUpTo
<1> QED
  BY <1>2, <1>3, <1>4, <1>5 DEF IInv

(* The invariant is a state predicate.                                      *)
LEMMA StutterStep == ASSUME IInv, UNCHANGED vars PROVE IInv'
<1>1. UNCHANGED <<src, compVars, stageVars, pump, pcmVars>>
  BY DEF vars
<1> QED
  BY <1>1 DEF IInv, TypeOK, CursorsSafe, CompIntact, StageContiguous, PcmIntact, PumpInv,
              StagedUpTo, compVars, stageVars, pcmVars

(* Every step preserves the invariant.                                      *)
LEMMA NextIInv == ASSUME IInv, [Next]_vars PROVE IInv'
<1>1. CASE Producer
  BY <1>1, FillStep, CommitStep, EofStep DEF Producer
<1>2. CASE PumpStep
  BY <1>2, TopUpStep, CopyStep, ReleaseStep, DecodeStep, EmitStep, PublishStep, CompactStep
     DEF PumpStep
<1>3. CASE Reader
  BY <1>3, TakeStep DEF Reader
<1>4. CASE cq_decring_reset
  BY <1>4, ResetStep
<1>5. CASE UNCHANGED vars
  BY <1>5, StutterStep
<1> QED
  BY <1>1, <1>2, <1>3, <1>4, <1>5 DEF Next

(* The conjunction of the pipeline's safety properties is inductive.        *)
THEOREM Invariant == Spec => []IInv
<1>1. Init => IInv
  BY InitIInv
<1>2. IInv /\ [Next]_vars => IInv'
  BY NextIInv
<1> QED
  BY <1>1, <1>2, PTL DEF Spec

-----------------------------------------------------------------------------
(* Every variable keeps its type: in particular no index leaves its buffer  *)
(* and the stage never overflows.                                           *)
THEOREM TypeCorrect == Spec => []TypeOK
<1>1. IInv => TypeOK
  BY DEF IInv
<1> QED
  BY <1>1, Invariant, PTL

(* No cursor overtakes another, though every one of them wraps.             *)
THEOREM CursorsNeverCross == Spec => []CursorsSafe
<1>1. IInv => CursorsSafe
  BY DEF IInv
<1> QED
  BY <1>1, Invariant, PTL

(* The producer overwrites no compressed cell the pump has yet to copy.     *)
THEOREM CompNeverTorn == Spec => []CompIntact
<1>1. IInv => CompIntact
  BY DEF IInv
<1> QED
  BY <1>1, Invariant, PTL

(* The pump stages every cell of the stream once, in order.                 *)
THEOREM StageInOrder == Spec => []StageContiguous
<1>1. IInv => StageContiguous
  BY DEF IInv
<1> QED
  BY <1>1, Invariant, PTL

(* The pump overwrites no PCM unit the interrupt has yet to play.           *)
THEOREM PcmNeverTorn == Spec => []PcmIntact
<1>1. IInv => PcmIntact
  BY DEF IInv
<1> QED
  BY <1>1, Invariant, PTL

-----------------------------------------------------------------------------
(* Only the pump's own steps end a pass or move along the stage.            *)
LEMMA DecodeExits ==
  ASSUME [Next]_vars, pump = "decode", pump' \in {"decode", "compact"}
  PROVE  \/ RingFullOrDry \/ Hold \/ Resync \/ Flush \/ SkipJunk
         \/ pump' = "decode" /\ used' = used
<1>1. CASE Producer \/ Reader \/ UNCHANGED vars
  BY <1>1 DEF Producer, Fill, Commit, cq_decring_eof, Reader, Take, stageVars, vars
<1>2. CASE PumpStep
  BY <1>2 DEF PumpStep, TopUp, Copy, Release, DecodeFrame, Emit, Publish, Compact
<1>3. CASE cq_decring_reset
  BY <1>3 DEF cq_decring_reset
<1> QED
  BY <1>1, <1>2, <1>3 DEF Next

(* A stage whose head is confirmed and yet held by the gate ends inside     *)
(* that head's successor: it is no deeper than two frames.                  *)
LEMMA AlignedIsShallow ==
  ASSUME IInv, pump = "decode", ~Gate, Confirmed(used)
  PROVE  stage_len - used <= Deep
<1> DEFINE a    == HeaderAt(used).len
           next == used + a
           b    == HeaderAt(next).len
<1>0. TypeOK
  BY DEF IInv
<1>n. Numeric
  BY <1>0, Numbers, Zenon
<1>1. IsHeader(used) /\ IsHeader(next) /\ Coherent(used, next)
  BY DEF Confirmed, Coherent
<1>2. used < stage_len /\ next < stage_len
  BY <1>1 DEF IsHeader
<1>3. used \in 0 .. stage_len - 1
  BY <1>2, <1>n DEF Numeric
<1>4. a \in 0 .. MaxFrameLen
  BY <1>0, <1>3, StagedCells, HeaderLength DEF HeaderAt
<1>5. next \in 0 .. stage_len - 1
  BY <1>2, <1>4, <1>n DEF Numeric
<1>6. b \in 0 .. MaxFrameLen
  BY <1>0, <1>5, StagedCells, HeaderLength DEF HeaderAt
<1>7. next <= stage_len
  BY <1>2, <1>5, <1>n DEF Numeric
<1>8. WholeFrame(used)
  BY <1>1, <1>7 DEF WholeFrame
<1>9. ~WholeFrame(next)
  <2>1. WholeFrame(next) => wf = 2
    BY <1>1, <1>8 DEF wf
  <2> QED
    BY <2>1 DEF Gate
<1>10. ~(next + b <= stage_len)
  BY <1>1, <1>9 DEF WholeFrame
<1>11. MaxFrameLen \in Nat /\ Deep \in Nat /\ 2 * MaxFrameLen <= Deep
  BY SizesAssumption
<1> HIDE DEF a, b
<1>12. ASSUME NEW u \in Nat, NEW l \in Nat, NEW f \in Nat, NEW d \in Nat,
              NEW x \in 0 .. f, NEW y \in 0 .. f, ~((u + x) + y <= l), 2 * f <= d
       PROVE  l - u <= d
  BY <1>12
<1>13. used \in Nat /\ stage_len \in Nat
  BY <1>n DEF Numeric
<1> QED
  BY <1>4, <1>6, <1>10, <1>11, <1>12, <1>13

(* DeepStageIsRealigned: whatever the frames and the junk, a pass with room *)
(* for a frame leaves at most Deep cells behind it, so b27 cannot recur.    *)
THEOREM DeepNeverHeld == Spec => DeepStageIsRealigned
<1>1. ASSUME IInv, [Next]_vars, pump = "decode", pump' = "compact", PcmSpace >= MaxPcm
      PROVE  stage_len - used' <= Deep
  <2>n. Numeric
    BY <1>1, Numbers, Zenon DEF IInv
  <2>d. Deep \in Nat
    BY SizesAssumption
  <2>1. CASE RingFullOrDry
    <3>1. used' = used /\ ~(used < stage_len)
      BY <1>1, <2>1 DEF RingFullOrDry, Ready, Break
    <3> QED
      BY <3>1, <2>n, <2>d DEF Numeric
  <2>2. CASE Hold
    <3>1. used' = used /\ ~Gate /\ (~DeepTail \/ Confirmed(used))
      BY <2>2 DEF Hold, Break, SyncAt
    <3>2. CASE ~DeepTail
      BY <3>1, <3>2, <2>n, <2>d DEF DeepTail, Numeric
    <3>3. CASE Confirmed(used)
      BY <1>1, <3>1, <3>3, AlignedIsShallow
    <3> QED
      BY <3>1, <3>2, <3>3
  <2>3. CASE Flush
    <3>1. used' = stage_len
      BY <2>3 DEF Flush, Break
    <3> QED
      BY <3>1, <2>n, <2>d DEF Numeric
  <2>4. ~Resync /\ ~SkipJunk
    BY <1>1 DEF Resync, SkipJunk, Continue
  <2> QED
    BY <1>1, <2>1, <2>2, <2>3, <2>4, DecodeExits
<1>2. IInv /\ [Next]_vars =>
        [(pump = "decode" /\ pump' = "compact" /\ PcmSpace >= MaxPcm)
           => stage_len - used' <= Deep]_vars
  BY <1>1
<1> QED
  BY <1>2, Invariant, PTL DEF Spec, DeepStageIsRealigned

(* The first of the headers their successors confirm is where sync stops,   *)
(* unless a header before it awaits its own successor.                      *)
LEMMA FirstConfirmed ==
  ASSUME IInv, NEW k \in used .. stage_len - 1, Confirmed(k),
         \A j \in used .. k - 1 : ~NeedsMore(j)
  PROVE  \E m \in used .. stage_len - 1 : SyncAt(m)
<1> DEFINE C == {j \in used .. k : Confirmed(j)}
<1>n. Numeric
  BY Numbers, Zenon DEF IInv
<1>1. k \in used .. k
  BY <1>n DEF Numeric
<1>2. C \subseteq Nat /\ C # {}
  BY <1>1, <1>n DEF Numeric
<1> HIDE DEF C
<1>3. PICK m \in C : \A j \in C : ~(<<j, m>> \in OpToRel(<, Nat))
  BY <1>2, WFMin, NatLessThanWellFounded
<1>4. \A j \in C : ~(j < m)
  BY <1>2, <1>3 DEF OpToRel
<1>7. m \in used .. k /\ Confirmed(m)
  BY DEF C
<1>5. m \in used .. k /\ Confirmed(m) /\ m \in used .. stage_len - 1
  BY <1>n DEF C, Numeric
<1>6. ASSUME NEW j \in used .. m - 1
      PROVE  ~Confirmed(j) /\ ~NeedsMore(j)
  <2>1. j \in used .. k - 1 /\ j \in used .. k /\ j < m
    BY <1>5, <1>n DEF Numeric
  <2> QED
    BY <1>4, <2>1 DEF C
<1> QED
  BY <1>5, <1>6 DEF SyncAt

(* ResyncSkipsNoConfirmedFrame: realigning and flushing jump over a         *)
(* confirmed header only behind one that awaits its successor.              *)
THEOREM ResyncSkipsJunk == Spec => ResyncSkipsNoConfirmedFrame
<1>1. ASSUME IInv, [Next]_vars, pump = "decode", pump' \in {"decode", "compact"}, ~Gate,
             NEW k \in used .. used' - 1, Confirmed(k)
      PROVE  \E j \in used .. k - 1 : NeedsMore(j)
  <2>n. Numeric
    BY <1>1, Numbers, Zenon DEF IInv
  <2>1. used' # used
    BY <1>1, <2>n DEF Numeric
  <2>2. CASE Resync
    <3>1. PICK m \in used + 1 .. stage_len - 1 : SyncAt(m) /\ used' = m
      BY <2>2 DEF Resync, Continue
    <3> QED
      BY <1>1, <3>1 DEF SyncAt
  <2>3. CASE Flush
    <3>1. used' = stage_len /\ \A m \in used .. stage_len - 1 : ~SyncAt(m)
      BY <2>3 DEF Flush, Break
    <3> QED
      BY <1>1, <3>1, FirstConfirmed
  <2>4. ~RingFullOrDry /\ ~Hold /\ ~SkipJunk
    BY <1>1, <2>1 DEF RingFullOrDry, Hold, SkipJunk, Break
  <2> QED
    BY <1>1, <2>1, <2>2, <2>3, <2>4, DecodeExits
<1>2. IInv /\ [Next]_vars =>
        [(pump = "decode" /\ pump' \in {"decode", "compact"} /\ ~Gate)
           => \A k \in used .. used' - 1 :
                Confirmed(k) => \E j \in used .. k - 1 : NeedsMore(j)]_vars
  BY <1>1
<1> QED
  BY <1>2, Invariant, PTL DEF Spec, ResyncSkipsNoConfirmedFrame

-----------------------------------------------------------------------------
(* The refinement: what each step does to ConsumedUpTo.                     *)
LEMMA PipeStutter ==
  ASSUME fed' = fed, ConsumedUpTo' = ConsumedUpTo, emitted' = emitted, heard' = heard
  PROVE  [Pipe!PipeNext]_(Pipe!vars)
BY DEF Pipe!vars

(* The pipe starts empty.                                                   *)
LEMMA InitPipe == Init => Pipe!PipeInit
BY DEF Init, Pipe!PipeInit, ConsumedUpTo, StagedUpTo

(* Only a commit is seen outside: bytes arrive.                             *)
LEMMA ProducerPipe == ASSUME IInv, Producer PROVE [Pipe!PipeNext]_(Pipe!vars)
<1>0. TypeOK
  BY DEF IInv
<1>n. Numeric
  BY <1>0, Numbers, Zenon
<1>1. ConsumedUpTo' = ConsumedUpTo /\ emitted' = emitted /\ heard' = heard
  BY DEF Producer, Fill, Commit, cq_decring_eof, ConsumedUpTo, StagedUpTo, stageVars, pcmVars
<1>2. CASE Commit
  <2>1. fed + claimed > fed /\ fed' = fed + claimed
    BY <1>2, <1>n DEF Commit, Numeric
  <2> QED
    BY <1>1, <2>1 DEF Pipe!PipeNext, Pipe!Arrive
<1>3. CASE ~Commit
  <2>1. fed' = fed
    BY <1>3 DEF Producer, Fill, cq_decring_eof
  <2> QED
    BY <1>1, <2>1, PipeStutter
<1> QED
  BY <1>2, <1>3

(* Staging and compaction move cells without consuming any.                 *)
LEMMA MovePipe ==
  ASSUME IInv, TopUp \/ Copy \/ Release \/ Compact PROVE [Pipe!PipeNext]_(Pipe!vars)
<1>0. TypeOK /\ PumpInv
  BY DEF IInv
<1>n. Numeric
  BY <1>0, Numbers, Zenon
<1>1. fed' = fed /\ emitted' = emitted /\ heard' = heard
  BY DEF TopUp, Copy, Release, Compact, compVars, pcmVars
<1>2. CASE TopUp
  <2>1. pump = "off" /\ pump' \in {"copy", "decode"} /\ used = 0 /\ used' = 0
        /\ stage_len' = stage_len /\ taken' = taken
    BY <1>0, <1>2 DEF TopUp, PumpInv, compVars
  <2>2. ConsumedUpTo' = ConsumedUpTo
    BY <2>1 DEF ConsumedUpTo, StagedUpTo
  <2> QED
    BY <1>1, <2>2, PipeStutter
<1>3. CASE Copy
  <2>1. pump = "copy" /\ pump' = "release" /\ used' = used /\ take' = take
        /\ stage_len' = stage_len + take /\ taken' = taken
    BY <1>3 DEF Copy, compVars
  <2>2. (taken + take) - (stage_len + take) + used = taken - stage_len + used
    BY <1>n DEF Numeric
  <2>3. ConsumedUpTo' = ConsumedUpTo
    BY <2>1, <2>2 DEF ConsumedUpTo, StagedUpTo
  <2> QED
    BY <1>1, <2>3, PipeStutter
<1>4. CASE Release
  <2>1. pump = "release" /\ pump' = "decode" /\ used' = used
        /\ stage_len' = stage_len /\ taken' = taken + take
    BY <1>4 DEF Release
  <2>2. ConsumedUpTo' = ConsumedUpTo
    BY <2>1 DEF ConsumedUpTo, StagedUpTo
  <2> QED
    BY <1>1, <2>2, PipeStutter
<1>5. CASE Compact
  <2>1. pump = "compact" /\ pump' = "off" /\ used' = 0
        /\ stage_len' = stage_len - used /\ taken' = taken
    BY <1>5 DEF Compact, compVars
  <2>2. taken - (stage_len - used) + 0 = taken - stage_len + used
    BY <1>n DEF Numeric
  <2>3. ConsumedUpTo' = ConsumedUpTo
    BY <2>1, <2>2 DEF ConsumedUpTo, StagedUpTo
  <2> QED
    BY <1>1, <2>3, PipeStutter
<1> QED
  BY <1>2, <1>3, <1>4, <1>5

(* The decode loop either stays put or skips forward, within what arrived.  *)
LEMMA SkipPipe ==
  ASSUME IInv, pump = "decode", LoopFrame, pump' \in {"decode", "compact"},
         used' = used \/ (used' \in Nat /\ used < used' /\ used' <= stage_len)
  PROVE  [Pipe!PipeNext]_(Pipe!vars)
<1>0. TypeOK /\ CursorsSafe /\ PumpInv
  BY DEF IInv
<1>n. Numeric
  BY <1>0, Numbers, Zenon
<1>1. fed' = fed /\ emitted' = emitted /\ heard' = heard /\ taken' = taken /\ stage_len' = stage_len
  BY DEF LoopFrame, compVars, pcmVars
<1>2. ConsumedUpTo = taken - stage_len + used /\ ConsumedUpTo' = taken - stage_len + used'
  BY <1>1 DEF ConsumedUpTo, StagedUpTo
<1>3. CASE used' = used
  BY <1>1, <1>2, <1>3, PipeStutter
<1>4. CASE used' # used
  <2> DEFINE u == used'
  <2>1. u \in Nat /\ used < u /\ u <= stage_len /\ taken <= fed
    BY <1>0, <1>4 DEF CursorsSafe
  <2> HIDE DEF u
  <2>2. taken - stage_len + used < taken - stage_len + u /\ taken - stage_len + u <= fed
    BY <2>1, <1>n DEF Numeric
  <2> QED
    BY <1>1, <1>2, <2>2 DEF Pipe!PipeNext, Pipe!Skip, u
<1> QED
  BY <1>3, <1>4

(* A decoded frame is consumed when it is published, not before; what the   *)
(* decoder scanned over to find it is skipped at once.                      *)
LEMMA DecodePipe ==
  ASSUME IInv, RingFullOrDry \/ Hold \/ Resync \/ Flush \/ SkipJunk \/ DecodeFrame
  PROVE  [Pipe!PipeNext]_(Pipe!vars)
<1>0. TypeOK /\ PumpInv
  BY DEF IInv
<1>n. Numeric
  BY <1>0, Numbers, Zenon
<1>1. pump = "decode" /\ LoopFrame /\ used <= stage_len
  BY <1>0 DEF RingFullOrDry, Hold, Resync, Flush, DecodeFrame, SkipJunk, Ready, PumpInv
<1>2. CASE RingFullOrDry \/ Hold
  <2>1. used' = used /\ pump' = "compact"
    BY <1>2 DEF RingFullOrDry, Hold, Break
  <2> QED
    BY <1>1, <2>1, SkipPipe
<1>3. CASE Flush
  <2>1. used' = stage_len /\ pump' = "compact" /\ used < stage_len
    BY <1>3 DEF Flush, Break, Ready
  <2>2. stage_len \in Nat
    BY <1>n DEF Numeric
  <2> QED
    BY <1>1, <2>1, <2>2, SkipPipe
<1>4. CASE Resync
  <2>1. PICK k \in used + 1 .. stage_len - 1 : used' = k /\ pump' = "decode"
    BY <1>4 DEF Resync, Continue
  <2>2. k \in Nat /\ used < k /\ k <= stage_len
    BY <1>n DEF Numeric
  <2> QED
    BY <1>1, <2>1, <2>2, SkipPipe
<1>5. CASE SkipJunk
  <2>1. pump' = "decode" /\ used < stage_len
    BY <1>5 DEF SkipJunk, Continue, Ready
  <2>2. CASE used' = stage_len
    <3>1. stage_len \in Nat
      BY <1>n DEF Numeric
    <3> QED
      BY <1>1, <2>1, <2>2, <3>1, SkipPipe
  <2>3. CASE used' # stage_len
    <3>1. PICK k \in used .. stage_len - 1 : Found(k) /\ used' = k + HeaderAt(k).len
      BY <1>5, <2>3 DEF SkipJunk, Continue
    <3> DEFINE u == k + HeaderAt(k).len
    <3>2. k \in Nat /\ u \in Nat /\ used <= k /\ k < u /\ u <= stage_len
      BY <3>1, <1>1, FoundAt, Zenon
    <3>3. used' = u
      BY <3>1
    <3> HIDE DEF u
    <3>4. used < u
      BY <3>2, <1>n DEF Numeric
    <3> QED
      BY <1>1, <2>1, <3>2, <3>3, <3>4, SkipPipe
  <2> QED
    BY <2>2, <2>3
<1>6. CASE DecodeFrame
  <2>1. fed' = fed /\ emitted' = emitted /\ heard' = heard
    BY <1>1 DEF LoopFrame, compVars, pcmVars
  <2>2. PICK k \in used .. stage_len - 1 : Found(k) /\ frame'.pos = stage[k]
    BY <1>6 DEF DecodeFrame
  <2>3. k \in Nat /\ used <= k /\ k < stage_len /\ stage[k] = (taken - stage_len) + k
    BY <2>2, <1>1, <1>n, FoundAt DEF Numeric
  <2>4. ConsumedUpTo' = (taken - stage_len) + k
    BY <1>6, <2>2, <2>3 DEF DecodeFrame, ConsumedUpTo
  <2>5. ConsumedUpTo = (taken - stage_len) + used
    BY <1>1 DEF ConsumedUpTo, StagedUpTo
  <2>6. CASE k = used
    BY <2>1, <2>4, <2>5, <2>6, PipeStutter
  <2>7. CASE k # used
    <3>1. taken <= fed
      BY DEF IInv, CursorsSafe
    <3>2. (taken - stage_len) + used < (taken - stage_len) + k
          /\ (taken - stage_len) + k <= fed
      BY <2>3, <2>7, <3>1, <1>n DEF Numeric
    <3> QED
      BY <2>1, <2>4, <2>5, <3>2 DEF Pipe!PipeNext, Pipe!Skip
  <2> QED
    BY <2>6, <2>7
<1> QED
  BY <1>2, <1>3, <1>4, <1>5, <1>6

(* Writing a frame that is not published yet shows nothing.                *)
LEMMA EmitPipe == ASSUME IInv, Emit PROVE [Pipe!PipeNext]_(Pipe!vars)
<1>1. fed' = fed /\ emitted' = emitted /\ heard' = heard /\ frame' = frame
      /\ pump = "emit" /\ pump' = "publish"
  BY DEF Emit, compVars, stageVars
<1>2. ConsumedUpTo' = ConsumedUpTo
  BY <1>1 DEF ConsumedUpTo
<1> QED
  BY <1>1, <1>2, PipeStutter

(* Publishing consumes one frame and outputs it.                            *)
LEMMA PublishPipe == ASSUME IInv, Publish PROVE [Pipe!PipeNext]_(Pipe!vars)
<1>0. TypeOK /\ CursorsSafe /\ PumpInv
  BY DEF IInv
<1>n. Numeric
  BY <1>0, Numbers, Zenon
<1> DEFINE len == src[frame.pos].len
<1>1. /\ pump = "publish" /\ pump' = "decode" /\ fed' = fed /\ heard' = heard
      /\ taken' = taken /\ stage_len' = stage_len /\ used' = used
      /\ emitted' = emitted \o UnitsOf(frame)
  BY DEF Publish, compVars, stageVars
<1>2. frame.units \in PcmUnits /\ len > 0 /\ frame.pos + len = taken - stage_len + used
      /\ used <= stage_len /\ taken <= fed
  BY <1>0, <1>1 DEF PumpInv, CursorsSafe
<1>3. len \in 0 .. MaxFrameLen /\ len \in Int
  BY <1>0, HeaderLength DEF TypeOK
<1>4. len \in 1 .. MaxFrameLen
  BY <1>2, <1>3, SizesAssumption
<1>5. ConsumedUpTo = frame.pos /\ ConsumedUpTo' = frame.pos + len
  BY <1>1, <1>2 DEF ConsumedUpTo, StagedUpTo
<1>6. frame.pos + len <= fed
  BY <1>2, <1>n DEF Numeric
<1> HIDE DEF len
<1>7. Pipe!Frame(len, frame.units)
  BY <1>1, <1>5, <1>6 DEF Pipe!Frame, UnitsOf
<1> QED
  BY <1>2, <1>4, <1>7 DEF Pipe!PipeNext

(* The interrupt plays what was published.                                  *)
LEMMA ReaderPipe == ASSUME IInv, Reader PROVE [Pipe!PipeNext]_(Pipe!vars)
<1>0. TypeOK /\ CursorsSafe
  BY DEF IInv
<1>n. Numeric
  BY <1>0, Numbers, Zenon
<1>1. PICK n \in 1 .. PcmSize : Take(n)
  BY DEF Reader
<1>2. /\ n \in 1 .. PcmAvail /\ heard' = heard + n /\ fed' = fed /\ emitted' = emitted
      /\ ConsumedUpTo' = ConsumedUpTo
  BY <1>1 DEF Take, ConsumedUpTo, StagedUpTo, compVars, stageVars
<1>3. PcmAvail = Len(emitted) - heard
  BY <1>0, TrueDistances, Zenon
<1>4. heard < heard + n /\ heard + n <= Len(emitted)
  BY <1>2, <1>3, <1>n DEF Numeric
<1> QED
  BY <1>2, <1>4 DEF Pipe!PipeNext, Pipe!Play

(* A reset restarts the pipe.                                               *)
LEMMA ResetPipe == ASSUME IInv, cq_decring_reset PROVE [Pipe!PipeNext]_(Pipe!vars)
<1>1. used = 0
  BY DEF IInv, PumpInv, cq_decring_reset
<1>2. ConsumedUpTo' = 0
  BY <1>1 DEF cq_decring_reset, ResetRings, ConsumedUpTo, StagedUpTo
<1> QED
  BY <1>2 DEF cq_decring_reset, ResetRings, Pipe!PipeNext, Pipe!Restart

(* Every step is a step of the pipe or a stutter.                           *)
LEMMA NextPipe == ASSUME IInv, [Next]_vars PROVE [Pipe!PipeNext]_(Pipe!vars)
<1>1. CASE Producer
  BY <1>1, ProducerPipe
<1>2. CASE PumpStep
  BY <1>2, MovePipe, DecodePipe, EmitPipe, PublishPipe DEF PumpStep
<1>3. CASE Reader
  BY <1>3, ReaderPipe
<1>4. CASE cq_decring_reset
  BY <1>4, ResetPipe
<1>5. CASE UNCHANGED vars
  <2>1. fed' = fed /\ emitted' = emitted /\ heard' = heard /\ ConsumedUpTo' = ConsumedUpTo
    BY <1>5 DEF vars, compVars, stageVars, pcmVars, ConsumedUpTo, StagedUpTo
  <2> QED
    BY <2>1, PipeStutter
<1> QED
  BY <1>1, <1>2, <1>3, <1>4, <1>5 DEF Next

(* Every behaviour of the rings, the stage and their three contexts is one  *)
(* of the abstract pipe: nothing lost, doubled, reordered or played early.  *)
THEOREM Implements == Spec => ImplementsPipe
<1>1. Init => Pipe!PipeInit
  BY InitPipe
<1>2. IInv /\ [Next]_vars => [Pipe!PipeNext]_(Pipe!vars)
  BY NextPipe
<1> QED
  BY <1>1, <1>2, Invariant, PTL DEF Spec, ImplementsPipe, Pipe!PipeSpec
=============================================================================
