-------------------------- MODULE AuxiliaryProofs ---------------------------
(***************************************************************************)
(* What Auxiliary's run checks of the things kept and of the streams,      *)
(* proved for every number of albums, slots, connections and servers.  A   *)
(* thing kept is right because what is in flight carries what it was asked *)
(* for; a stream is safe because nothing but a playlist opens one.         *)
(***************************************************************************)
EXTENDS Auxiliary, SequenceTheorems, TLAPS

Entries(h) == {e \in [key : Albums, img : {NoImage} \cup (Albums \X {h})] :
                 e.img \in {NoImage, <<e.key, h>>}}

GoodCache(c, h) ==
  /\ c \in Seq(Entries(h)) /\ Len(c) <= Slots
  /\ \A i, j \in 1 .. Len(c) : c[i].key = c[j].key => i = j

Servers == gHost \in Nat \ {0}
CoverInv ==
  /\ gCover \in {None} \cup {<<a, gHost>> : a \in Albums}
  /\ GoodCache(gCovers, gHost)
FactInv ==
  /\ gFactTx \in {None, <<gHost>>} /\ gStreamProbe \in {-1, 0, 1}
  /\ fact \in {0, gHost} /\ (gStreamProbe = -1 => gFactTx = None)
StreamInv == gAuSt \in {"idle", "on"} /\ (gPls # None => gAuSt = "idle")
AlbumInv == album \in Albums \cup {NoAlbum}

Inv == Servers /\ CoverInv /\ FactInv /\ StreamInv /\ AlbumInv

(* Putting what is right for its album keeps the cache right: a known album *)
(* is overwritten, a new one takes the place of the oldest.                 *)
LEMMA CachePut ==
  ASSUME NEW h \in Nat, NEW c, GoodCache(c, h), NEW key \in Albums,
         NEW img \in {NoImage, <<key, h>>}
  PROVE  GoodCache(cq_cache_put(c, key, img), h)
<1> DEFINE e == [key |-> key, img |-> img]
<1>0. Slots \in Nat \ {0}
  BY AuxiliaryAssumption
<1>1. c \in Seq(Entries(h)) /\ Len(c) \in Nat /\ DOMAIN c = 1 .. Len(c) /\ e \in Entries(h)
  BY DEF GoodCache, Entries
<1>2. CASE cq_cache_has(c, key)
  <2> DEFINE d == [i \in DOMAIN c |-> IF c[i].key = key THEN [c[i] EXCEPT !.img = img] ELSE c[i]]
  <2>1. cq_cache_put(c, key, img) = d
    BY <1>2 DEF cq_cache_put
  <2>2. \A i \in 1 .. Len(c) : c[i] \in Entries(h)
    BY <1>1
  <2>3. \A i \in 1 .. Len(c) : d[i] \in Entries(h) /\ d[i].key = c[i].key
    <3> TAKE i \in 1 .. Len(c)
    <3>1. d[i] = IF c[i].key = key THEN [c[i] EXCEPT !.img = img] ELSE c[i]
      BY <1>1
    <3>2. c[i] \in Entries(h)
      BY <2>2
    <3>3. CASE c[i].key = key
      <4>1. [c[i] EXCEPT !.img = img] = e
        BY <3>2, <3>3 DEF Entries
      <4> QED BY <1>1, <3>1, <3>3, <4>1
    <3>4. CASE c[i].key # key
      BY <3>1, <3>2, <3>4
    <3> QED BY <3>3, <3>4
  <2>4. d \in [1 .. Len(c) -> Entries(h)]
    BY <1>1, <2>3
  <2>5. d \in Seq(Entries(h)) /\ Len(d) = Len(c)
    BY <1>1, <2>4
  <2> HIDE DEF d
  <2> QED BY <2>1, <2>3, <2>5 DEF GoodCache
<1>3. CASE ~cq_cache_has(c, key)
  <2> DEFINE t == IF Len(c) = Slots THEN Tail(c) ELSE c
  <2>1. cq_cache_put(c, key, img) = Append(t, e)
    BY <1>3 DEF cq_cache_put
  <2>2. \A i \in 1 .. Len(c) : c[i].key # key
    BY <1>1, <1>3 DEF cq_cache_has
  <2>3. /\ t \in Seq(Entries(h)) /\ Len(t) \in Nat /\ Len(t) + 1 <= Slots
        /\ \A i \in 1 .. Len(t) : t[i].key # key
        /\ \A i, j \in 1 .. Len(t) : t[i].key = t[j].key => i = j
    <3>1. CASE Len(c) = Slots
      <4>1. c # <<>> /\ t = Tail(c)
        BY <1>0, <1>1, <3>1
      <4> HIDE DEF t
      <4>2. t \in Seq(Entries(h)) /\ Len(t) = Len(c) - 1
        BY <1>1, <4>1, HeadTailProperties
      <4>6. \A i \in 1 .. Len(t) : t[i] = c[i + 1]
        BY <1>1, <4>1, HeadTailProperties
      <4>3. \A i \in 1 .. Len(t) : t[i] = c[i + 1] /\ i + 1 \in 1 .. Len(c)
        BY <1>1, <4>2, <4>6
      <4>4. \A i \in 1 .. Len(t) : t[i].key # key
        BY <2>2, <4>3
      <4>5. \A i, j \in 1 .. Len(t) : t[i].key = t[j].key => i = j
        <5> TAKE i, j \in 1 .. Len(t)
        <5> HAVE t[i].key = t[j].key
        <5>1. c[i + 1].key = c[j + 1].key /\ i + 1 \in 1 .. Len(c) /\ j + 1 \in 1 .. Len(c)
          BY <4>3
        <5>2. i + 1 = j + 1
          BY <5>1 DEF GoodCache
        <5> QED BY <5>2
      <4> QED BY <1>0, <1>1, <3>1, <4>2, <4>4, <4>5
    <3>2. CASE Len(c) # Slots
      <4>1. t = c
        BY <3>2
      <4> HIDE DEF t
      <4>2. Len(c) <= Slots /\ \A i, j \in 1 .. Len(c) : c[i].key = c[j].key => i = j
        BY DEF GoodCache
      <4>3. \A n, m \in Nat : n <= m /\ n # m => n + 1 <= m
        OBVIOUS
      <4>4. Len(c) + 1 <= Slots
        BY <1>0, <1>1, <3>2, <4>2, <4>3
      <4> QED BY <1>1, <2>2, <4>1, <4>2, <4>4
    <3> QED BY <3>1, <3>2
  <2> HIDE DEF t, e
  <2>4. Append(t, e) \in Seq(Entries(h)) /\ Len(Append(t, e)) = Len(t) + 1
    BY <1>1, <2>3
  <2>5. \A i \in 1 .. Len(t) + 1 : Append(t, e)[i] = IF i = Len(t) + 1 THEN e ELSE t[i]
    BY <1>1, <2>3
  <2>6. e.key = key
    BY DEF e
  <2>7. \A i, j \in 1 .. Len(t) + 1 : Append(t, e)[i].key = Append(t, e)[j].key => i = j
    <3> TAKE i, j \in 1 .. Len(t) + 1
    <3> HAVE Append(t, e)[i].key = Append(t, e)[j].key
    <3>1. CASE i = Len(t) + 1 /\ j # Len(t) + 1
      <4>1. j \in 1 .. Len(t) /\ t[j].key = key
        BY <2>3, <2>5, <2>6, <3>1
      <4> QED BY <2>3, <4>1
    <3>2. CASE i # Len(t) + 1 /\ j = Len(t) + 1
      <4>1. i \in 1 .. Len(t) /\ t[i].key = key
        BY <2>3, <2>5, <2>6, <3>2
      <4> QED BY <2>3, <4>1
    <3>3. CASE i # Len(t) + 1 /\ j # Len(t) + 1
      <4>1. i \in 1 .. Len(t) /\ j \in 1 .. Len(t) /\ t[i].key = t[j].key
        BY <2>3, <2>5, <3>3
      <4> QED BY <2>3, <4>1
    <3> QED BY <3>1, <3>2, <3>3
  <2> QED BY <2>1, <2>3, <2>4, <2>7 DEF GoodCache, e
<1> QED BY <1>2, <1>3

-----------------------------------------------------------------------------
LEMMA InitInv == Init => Inv
<1> SUFFICES ASSUME Init PROVE Inv
  OBVIOUS
<1>1. GoodCache(gCovers, gHost)
  <2>1. gCovers = <<>> /\ <<>> \in Seq(Entries(gHost)) /\ Len(<<>>) = 0
    BY DEF Init
  <2>2. Slots \in Nat
    BY AuxiliaryAssumption
  <2> QED BY <2>1, <2>2 DEF GoodCache
<1> QED BY <1>1 DEF Init, Inv, Servers, CoverInv, FactInv, StreamInv, AlbumInv

(* A change of the server empties everything that names the old one.        *)
LEMMA ServerInv == Inv /\ ApplyServerChange => Inv'
<1> SUFFICES ASSUME Inv, ApplyServerChange PROVE Inv'
  OBVIOUS
<1>1. gCovers' = <<>> /\ <<>> \in Seq(Entries(gHost')) /\ Len(<<>>) = 0 /\ Slots \in Nat
  BY AuxiliaryAssumption DEF ApplyServerChange
<1>2. GoodCache(gCovers', gHost')
  BY <1>1 DEF GoodCache
<1>3. CoverInv'
  BY <1>2 DEF CoverInv, ApplyServerChange
<1>4. Servers' /\ FactInv' /\ StreamInv' /\ AlbumInv'
  BY DEF Inv, ApplyServerChange, Servers, FactInv, StreamInv, AlbumInv
<1> QED BY <1>3, <1>4 DEF Inv

LEMMA NextInv == Inv /\ [Next]_vars => Inv'
<1> SUFFICES ASSUME Inv, [Next]_vars PROVE Inv'
  OBVIOUS
<1> USE DEF Inv, Servers
<1>1. CASE UserStarts
  BY <1>1 DEF UserStarts, Gesture, coverVars, queueVars, factVars, plsVars, CoverInv, FactInv,
    StreamInv, AlbumInv
<1>2. CASE ToggleListen
  BY <1>2 DEF ToggleListen, Gesture, coverVars, queueVars, factVars, plsVars, CoverInv, FactInv,
    StreamInv, AlbumInv
<1>3. CASE ServerChange
  BY <1>3, ServerInv DEF ServerChange
<1>4. CASE Suspend
  BY <1>4 DEF Suspend, Gesture, coverVars, queueVars, factVars, plsVars, CoverInv, FactInv,
    StreamInv, AlbumInv
<1>5. CASE Resume
  <2>1. CASE ApplyServerChange
    BY <2>1, ServerInv
  <2>2. CASE UNCHANGED <<user, album, coverVars, queueVars, factVars, plsVars, gHost>>
    BY <2>2 DEF coverVars, factVars, plsVars, CoverInv, FactInv, StreamInv, AlbumInv
  <2> QED BY <1>5, <2>1, <2>2 DEF Resume
<1>6. CASE PollStarts
  BY <1>6 DEF PollStarts, coverVars, queueVars, factVars, plsVars, appVars, CoverInv, FactInv,
    StreamInv, AlbumInv
<1>7. CASE CoverStarts
  BY <1>7 DEF CoverStarts, queueVars, factVars, plsVars, appVars, CoverInv, FactInv,
    StreamInv, AlbumInv
<1>8. CASE QueueStarts
  BY <1>8 DEF QueueStarts, AskQueue, coverVars, factVars, plsVars, appVars, CoverInv, FactInv,
    StreamInv, AlbumInv
<1>9. CASE FactStarts
  BY <1>9 DEF FactStarts, coverVars, queueVars, plsVars, appVars, CoverInv, FactInv,
    StreamInv, AlbumInv
<1>10. CASE UserEnds
  BY <1>10 DEF UserEnds, coverVars, factVars, plsVars, appVars, CoverInv, FactInv,
    StreamInv, AlbumInv
<1>11. CASE FireEnds
  BY <1>11 DEF FireEnds, coverVars, factVars, plsVars, appVars, CoverInv, FactInv,
    StreamInv, AlbumInv
<1>12. CASE CoverEnds
  <2>1. gCover[1] \in Albums /\ gCover = <<gCover[1], gHost>> /\ gCover' = None
    BY <1>12 DEF CoverEnds, CoverInv, None
  <2>2. PICK img \in {NoImage, gCover} : gCovers' = cq_cache_put(gCovers, gCover[1], img)
    BY <1>12 DEF CoverEnds
  <2>3. GoodCache(cq_cache_put(gCovers, gCover[1], img), gHost)
    BY <2>1, CachePut DEF CoverInv
  <2>4. gHost' = gHost /\ UNCHANGED <<album, factVars, plsVars>>
    BY <1>12 DEF CoverEnds, appVars
  <2>5. CoverInv'
    BY <2>1, <2>2, <2>3, <2>4 DEF CoverInv
  <2> QED BY <2>4, <2>5 DEF factVars, plsVars, FactInv, StreamInv, AlbumInv
<1>13. CASE QueueEnds
  BY <1>13 DEF QueueEnds, coverVars, factVars, plsVars, appVars, CoverInv, FactInv,
    StreamInv, AlbumInv
<1>14. CASE FactEnds
  BY <1>14 DEF FactEnds, coverVars, queueVars, plsVars, appVars, CoverInv, FactInv, None,
    StreamInv, AlbumInv
<1>15. CASE PlsEnds
  BY <1>15 DEF PlsEnds, StartStream, coverVars, queueVars, factVars, appVars, CoverInv, FactInv,
    StreamInv, AlbumInv
<1>16. CASE ListenEnds
  BY <1>16 DEF ListenEnds, coverVars, queueVars, factVars, appVars, CoverInv, FactInv,
    StreamInv, AlbumInv
<1>17. CASE UNCHANGED vars
  BY <1>17 DEF vars, coverVars, queueVars, factVars, plsVars, appVars, CoverInv, FactInv,
    StreamInv, AlbumInv
<1>18. CASE KickDue
  BY <1>18 DEF KickDue, coverVars, factVars, plsVars, appVars, CoverInv, FactInv,
    StreamInv, AlbumInv
<1>19. CASE CadenceDue
  BY <1>19 DEF CadenceDue, coverVars, factVars, plsVars, appVars, CoverInv, FactInv,
    StreamInv, AlbumInv
<1> QED
  BY <1>1, <1>2, <1>3, <1>4, <1>5, <1>6, <1>7, <1>8, <1>9, <1>10, <1>11, <1>12, <1>13, <1>14,
     <1>15, <1>16, <1>17, <1>18, <1>19 DEF Next, Starts, Ends

-----------------------------------------------------------------------------
(* The inductive invariant.                                                 *)
THEOREM Invariant == Spec => []Inv
<1> QED BY InitInv, NextInv, PTL DEF Spec

(* Nothing kept of the server, an image or the fact of the media plane, is  *)
(* another server's, and no image is another album's.                       *)
THEOREM NothingOfAnotherServer == Spec => []KeptIsOfThisServer
<1>1. Inv => KeptIsOfThisServer
  <2> SUFFICES ASSUME Inv PROVE KeptIsOfThisServer
    OBVIOUS
  <2>1. FactIsOfThisServer
    BY DEF Inv, FactInv, FactIsOfThisServer
  <2>2. GoodCache(gCovers, gHost)
    BY DEF Inv, CoverInv
  <2>3. \A i \in DOMAIN gCovers : gCovers[i] \in Entries(gHost)
    BY <2>2 DEF GoodCache
  <2>4. CoverIsOfItsAlbum
    BY <2>2, <2>3 DEF GoodCache, Entries, CoverIsOfItsAlbum
  <2> QED BY <2>1, <2>4 DEF KeptIsOfThisServer
<1> QED BY Invariant, <1>1, PTL

(* The answer of a playlist never meets an open stream.                     *)
THEOREM StreamSafe == Spec => []StreamIsNotOverwritten
<1>1. Inv => StreamIsNotOverwritten
  BY DEF Inv, StreamInv, StreamIsNotOverwritten
<1> QED BY Invariant, <1>1, PTL
=============================================================================
