----------------------------- MODULE Auxiliary ------------------------------
(***************************************************************************)
(* os9/casquinha.c, what runs by itself beside the reconciler: the cover   *)
(* and its cache (cq_cache.c), the queue poll and its kick, the fact of    *)
(* the media plane, the playlist that starts a listen; under one budget of *)
(* connections, and only in the foreground.  The transactions of the user  *)
(* and the /now poll are in it as what they take of the budget.            *)
(***************************************************************************)
EXTENDS Wire, FiniteSets

CONSTANTS
  Albums,          \* album ids
  NoAlbum,         \* no snapshot yet, or one without an album_id
  Slots,           \* CQ_CACHE_SLOTS
  MaxInFlight,     \* CQ_MAX_INFLIGHT
  PlsBodies,       \* what /spot/stream.pls may hold
  MaxActs,         \* bounds the model: gestures of the user
  MaxHosts         \* bounds the model: servers the user goes through

ASSUME AuxiliaryAssumption ==
  /\ Slots \in Nat \ {0} /\ MaxInFlight \in Nat \ {0} /\ NoAlbum \notin Albums
  /\ MaxActs \in Nat /\ MaxHosts \in Nat \ {0}

VARIABLES
  user,            \* which of gTx, gCmd, gFire, gSearchTx, gArtistTx are in flight
  album,           \* gSnap.album_id
  gCover,          \* gCoverReq of the cover in flight, and the host it was asked of
  gCovers,         \* oldest first, [key, img]; img: of which album and server
  gQueueTx,
  gQueueKick,      \* "none", "waiting" for its tick, or "due"
  queueDue,        \* the interval since gQueueLast is over
  unseen,          \* history: of the queue's last change, "settling" on the server
                   \* or "settled" and not asked for since; "no" when there is none
  gFactTx, gStreamProbe, fact,   \* fact: the server gFactLive is of, 0 for ~gHaveFact
  gPls, gAuSt,     \* gAuSt: "idle" or "on"
  gSuspended, gHost,
  acts             \* bounds the model

coverVars == <<gCover, gCovers>>
kickVars == <<gQueueKick, unseen>>
queueVars == <<gQueueTx, kickVars, queueDue>>
factVars == <<gFactTx, gStreamProbe, fact>>
plsVars == <<gPls, gAuSt>>
appVars == <<gSuspended, gHost, acts>>
vars == <<user, album, coverVars, queueVars, factVars, plsVars, appVars>>

None == <<>>
NoImage == <<>>

-----------------------------------------------------------------------------
(* cq_cache.c.                                                              *)
cq_cache_has(c, key) == \E i \in DOMAIN c : c[i].key = key

cq_cache_put(c, key, img) ==
  IF cq_cache_has(c, key)
  THEN [i \in DOMAIN c |-> IF c[i].key = key THEN [c[i] EXCEPT !.img = img] ELSE c[i]]
  ELSE Append(IF Len(c) = Slots THEN Tail(c) ELSE c, [key |-> key, img |-> img])

(* gArtistTx is missing from it.                                            *)
TxInFlight ==
  Cardinality(user \ {"artist"}) + Cardinality({t \in {1, 2, 3, 4} :
    <<gCover, gQueueTx, gFactTx, gPls>>[t] # None})

-----------------------------------------------------------------------------
Init ==
  /\ user = {} /\ album = NoAlbum
  /\ gCover = None /\ gCovers = <<>>
  /\ gQueueTx = None /\ gQueueKick = "none" /\ queueDue \in BOOLEAN /\ unseen = "no"
  /\ gFactTx = None /\ gStreamProbe = 0 /\ fact = 0
  /\ gPls = None /\ gAuSt = "idle"
  /\ gSuspended = FALSE /\ gHost = 1 /\ acts = 0

Gesture == acts < MaxActs /\ acts' = acts + 1

(* The user's own transactions are never gated; a search drops the drill.   *)
UserStarts ==
  /\ Gesture
  /\ \E t \in {"cmd", "fire", "search", "artist"} \ user :
       user' = (IF t = "search" THEN user \ {"artist"} ELSE user) \cup {t}
  /\ UNCHANGED <<album, coverVars, queueVars, factVars, plsVars, gSuspended, gHost>>

PollStarts ==
  /\ ~gSuspended /\ "poll" \notin user /\ user' = user \cup {"poll"}
  /\ UNCHANGED <<album, coverVars, queueVars, factVars, plsVars, appVars>>

(* The kick of a queue poll, 120 ticks out.  The server has the change by   *)
(* then; a kick that was due is put off again.                              *)
Kick == gQueueKick' = "waiting" /\ unseen' = "settling"

(* Its tick comes.                                                          *)
KickDue ==
  /\ unseen = "settling" /\ unseen' = "settled"
  /\ gQueueKick' = IF gQueueKick = "waiting" THEN "due" ELSE gQueueKick
  /\ UNCHANGED <<user, album, coverVars, gQueueTx, queueDue, factVars, plsVars, appVars>>

CadenceDue ==
  /\ gQueueTx = None /\ ~queueDue /\ queueDue' = TRUE
  /\ UNCHANGED <<user, album, coverVars, gQueueTx, kickVars, factVars, plsVars, appVars>>

(* PumpTx, the pumps of search and drill: a new snapshot may be another     *)
(* album's; another track kicks the queue poll.                             *)
UserEnds ==
  /\ \E t \in user \ {"fire"} :
       /\ user' = user \ {t}
       /\ \/ UNCHANGED <<album, kickVars>>
          \/ /\ t \in {"poll", "cmd"} /\ Kick
             /\ album' \in Albums \cup {NoAlbum}
  /\ UNCHANGED <<coverVars, gQueueTx, queueDue, factVars, plsVars, appVars>>

FireEnds ==
  /\ "fire" \in user /\ user' = user \ {"fire"} /\ Kick
  /\ UNCHANGED <<album, coverVars, gQueueTx, queueDue, factVars, plsVars, appVars>>

-----------------------------------------------------------------------------
(* PollNetwork: the cover.  Every outcome is recorded, failed or not a JPEG *)
(* as no image, under the album asked for.                                  *)
(* Mutant: recorded under the album of the snapshot. *)
CoverEnds_Snap ==
  /\ gCover # None /\ gCover' = None
  /\ \E img \in {NoImage, gCover} : gCovers' = cq_cache_put(gCovers, album, img)
  /\ UNCHANGED <<user, album, queueVars, factVars, plsVars, appVars>>

CoverEnds ==
  /\ gCover # None /\ gCover' = None
  /\ \E img \in {NoImage, gCover} : gCovers' = cq_cache_put(gCovers, gCover[1], img)
  /\ UNCHANGED <<user, album, queueVars, factVars, plsVars, appVars>>

CoverStarts ==
  /\ gCover = None /\ ~gSuspended /\ TxInFlight < MaxInFlight
  /\ album # NoAlbum /\ ~cq_cache_has(gCovers, album)
  /\ gCover' = <<album, gHost>>
  /\ UNCHANGED <<user, album, gCovers, queueVars, factVars, plsVars, appVars>>

(* PumpAux: the queue, at its interval or when a kick is due; any poll uses *)
(* the kick up.                                                             *)
QueueEnds ==
  /\ gQueueTx # None /\ gQueueTx' = None /\ queueDue' = FALSE
  /\ UNCHANGED <<user, album, coverVars, kickVars, factVars, plsVars, appVars>>

MayPollQueue ==
  /\ gQueueTx = None /\ ~gSuspended /\ TxInFlight < MaxInFlight
  /\ queueDue \/ gQueueKick = "due"

AskQueue ==
  /\ gQueueTx' = <<gHost>>
  /\ unseen' = IF unseen = "settled" THEN "no" ELSE unseen
  /\ UNCHANGED <<user, album, coverVars, queueDue, factVars, plsVars, appVars>>

(* Mutant: the kick is not used up. *)
QueueStarts_KeepsKick == MayPollQueue /\ AskQueue /\ UNCHANGED gQueueKick

QueueStarts == MayPollQueue /\ AskQueue /\ gQueueKick' = "none"

(* The fact: not_found turns the probe off, another error keeps the last.   *)
FactEnds ==
  /\ gFactTx # None /\ gFactTx' = None
  /\ \/ gStreamProbe' = -1 /\ UNCHANGED fact
     \/ gStreamProbe' = 1 /\ fact' = gFactTx[1]
     \/ UNCHANGED <<gStreamProbe, fact>>
  /\ UNCHANGED <<user, album, coverVars, queueVars, plsVars, appVars>>

FactStarts ==
  /\ gFactTx = None /\ ~gSuspended /\ gStreamProbe >= 0 /\ TxInFlight < MaxInFlight
  /\ gFactTx' = <<gHost>>
  /\ UNCHANGED <<user, album, coverVars, queueVars, gStreamProbe, fact, plsVars, appVars>>

(* ToggleListen, and the playlist's answer.                                 *)
(* Mutant: a listen that is on does not keep the playlist from being asked. *)
ToggleListen_Again ==
  /\ Gesture
  /\ IF gPls = None THEN gPls' = <<gHost>> /\ UNCHANGED gAuSt ELSE UNCHANGED plsVars
  /\ UNCHANGED <<user, album, coverVars, queueVars, factVars, gSuspended, gHost>>

ToggleListen ==
  /\ Gesture
  /\ IF gAuSt # "idle" THEN gAuSt' = "idle" /\ UNCHANGED gPls                  \* StopAudio
     ELSE IF gPls = None THEN gPls' = <<gHost>> /\ UNCHANGED gAuSt
     ELSE UNCHANGED plsVars
  /\ UNCHANGED <<user, album, coverVars, queueVars, factVars, gSuspended, gHost>>

StartStream(body) ==
  IF ParseHttpUrl(cq_pls_first_url(body)) THEN gAuSt' = "on" ELSE UNCHANGED gAuSt

PlsEnds ==
  /\ gPls # None /\ gPls' = None
  /\ \/ \E body \in PlsBodies : StartStream(body)
     \/ UNCHANGED gAuSt                                                        \* failed
  /\ UNCHANGED <<user, album, coverVars, queueVars, factVars, appVars>>

(* The engine's own end of a listen.                                        *)
ListenEnds ==
  /\ gAuSt = "on" /\ gAuSt' = "idle"
  /\ UNCHANGED <<user, album, coverVars, queueVars, factVars, gPls, appVars>>

-----------------------------------------------------------------------------
(* Mutant: the cover in flight is not dropped. *)
ApplyServerChange_KeepsCover ==
  /\ gHost < MaxHosts /\ gHost' = gHost + 1
  /\ user' = {} /\ gCover' = gCover /\ gQueueTx' = None /\ gFactTx' = None /\ gPls' = None
  /\ gCovers' = <<>>
  /\ gQueueKick' = "none" /\ unseen' = "no" /\ queueDue' \in BOOLEAN /\ gStreamProbe' = 0 /\ fact' = 0
  /\ UNCHANGED <<album, gAuSt>>

ApplyServerChange ==
  /\ gHost < MaxHosts /\ gHost' = gHost + 1
  /\ user' = {} /\ gCover' = None /\ gQueueTx' = None /\ gFactTx' = None /\ gPls' = None
  /\ gCovers' = <<>>
  /\ gQueueKick' = "none" /\ unseen' = "no" /\ queueDue' \in BOOLEAN /\ gStreamProbe' = 0 /\ fact' = 0
  /\ UNCHANGED <<album, gAuSt>>

ServerChange == Gesture /\ ApplyServerChange /\ UNCHANGED gSuspended

Suspend ==
  /\ Gesture /\ ~gSuspended /\ gSuspended' = TRUE
  /\ UNCHANGED <<user, album, coverVars, queueVars, factVars, plsVars, gHost>>

(* ReloadConfig: the preferences may name another server by now.            *)
Resume ==
  /\ gSuspended /\ gSuspended' = FALSE /\ UNCHANGED acts
  /\ \/ ApplyServerChange
     \/ UNCHANGED <<user, album, coverVars, queueVars, factVars, plsVars, gHost>>

Starts == PollStarts \/ CoverStarts \/ QueueStarts \/ FactStarts
Ends == UserEnds \/ FireEnds \/ CoverEnds \/ QueueEnds \/ FactEnds \/ PlsEnds
Next ==
  \/ UserStarts \/ ToggleListen \/ ServerChange \/ Suspend \/ Resume
  \/ Starts \/ Ends \/ ListenEnds \/ KickDue \/ CadenceDue

Spec == Init /\ [][Next]_vars

(* Every transaction ends (Transport's PolledEnds); the clock goes on.  The pass that ends one *)
(* comes to the queue before the fact, and in the next pass again before    *)
(* the fact and after the cover; the queue poll cannot be passed over for   *)
(* ever when there is room again and again.                                 *)
FairSpec ==
  /\ Spec /\ SF_vars(QueueStarts)
  /\ WF_vars(UserEnds) /\ WF_vars(FireEnds) /\ WF_vars(CoverEnds) /\ WF_vars(QueueEnds)
  /\ WF_vars(FactEnds) /\ WF_vars(PlsEnds) /\ WF_vars(KickDue) /\ WF_vars(CadenceDue)

-----------------------------------------------------------------------------
(* An image is that of the album and the server it is kept for, whatever    *)
(* became of the snapshot and of the server while it was fetched, no album  *)
(* has two, and the cache has its size.                                     *)
CoverIsOfItsAlbum ==
  /\ \A i \in DOMAIN gCovers : gCovers[i].img \in {NoImage, <<gCovers[i].key, gHost>>}
  /\ \A i, j \in DOMAIN gCovers : gCovers[i].key = gCovers[j].key => i = j
  /\ Len(gCovers) <= Slots

(* The fact the screen speaks from is the present server's, and a server    *)
(* without the endpoint is not asked again.                                 *)
FactIsOfThisServer == fact \in {0, gHost} /\ (gStreamProbe = -1 => gFactTx = None)

(* Nothing kept of the server is another server's, late answers included.   *)
KeptIsOfThisServer == CoverIsOfItsAlbum /\ FactIsOfThisServer

(* A playlist is in flight only while no listen is on: its answer never     *)
(* overwrites an open stream.                                               *)
StreamIsNotOverwritten == gPls # None => gAuSt = "idle"

(* A kick that is due is used up by a poll; and a change of the queue is    *)
(* asked for once it has settled on the server, even when a poll of the     *)
(* cadence came too early for it and took its kick: unless the application  *)
(* stays in the background, or another change puts the kick off.            *)
KickIsServed ==
  gQueueKick = "due" \/ unseen = "settled"
    ~> (gQueueKick # "due" /\ unseen # "settled") \/ gSuspended

(* A kick that waits for its tick is not dropped before it: the refetch     *)
(* after a command is the one that comes two seconds later.                 *)
OneRefetchLater == [][gQueueKick = "waiting" /\ gHost' = gHost => gQueueKick' # "none"]_vars
=============================================================================
