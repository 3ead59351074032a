------------------------------- MODULE Shelf --------------------------------
(***************************************************************************)
(* os9/casquinha.c, the shelf: the search, the drill into an artist's      *)
(* albums, the one list that shows either, and what a click in it means.   *)
(* The rows on the screen are what FillResults last wrote; what a click    *)
(* finds is computed anew from the lists.                                  *)
(***************************************************************************)
EXTENDS Wire

CONSTANTS
  Queries,    \* the texts the user searches
  Artists,    \* the artists found
  SearchReplies(_), AlbumReplies(_),   \* bodies a server may answer with
  MaxActs     \* bounds the model: gestures of the user

(* A reply is a sequence of lines, and a line that gives an artist a value  *)
(* gives it one of Artists.                                                 *)
ASSUME ShelfAssumption ==
  /\ MaxActs \in Nat
  /\ \A q \in Queries : \A body \in SearchReplies(q) :
       /\ Len(body) \in Nat /\ DOMAIN body = 1 .. Len(body)
       /\ \A i \in 1 .. Len(body) :
            (Len(body[i]) >= 2 /\ body[i][1] # <<>> /\ body[i][1][1] = "artist")
              => Tail(body[i]) \in Artists
  /\ \A a \in Artists : \A body \in AlbumReplies(a) :
       Len(body) \in Nat /\ DOMAIN body = 1 .. Len(body)

VARIABLES
  gSearchTx, gArtistTx,      \* the request in flight: <<its subject>>
  gSearchItems, gSearchArtists, gSearchAlbums, gArtistAlbums,
  gAlbumBrowse,
  gBrowseArtist,             \* the artist drilled into, as the back row names it
  shown,                     \* [browse, back, rows]: gSearchList as last filled
  albumsOf,                  \* history: the artist gArtistAlbums was asked for
  gFire,                     \* queue/add or queue/album in flight
  gLastAction,
  acts                       \* bounds the model

txVars == <<gSearchTx, gArtistTx, gBrowseArtist>>
listVars == <<gSearchItems, gSearchArtists, gSearchAlbums, gArtistAlbums, albumsOf>>
viewVars == <<gAlbumBrowse, shown>>
outVars == <<gFire, gLastAction>>
vars == <<txVars, listVars, viewVars, outVars, acts>>

None == <<>>
RowOf(kind, list) == [i \in DOMAIN list |-> <<kind, list[i]>>]
Back == <<"back", None>>
NoRow == <<"none", None>>

-----------------------------------------------------------------------------
(* FillResults, of the lists as the pass leaves them; the back row has the  *)
(* name of the artist.                                                      *)
FillResults(browse, back, artists, albums, tracks, discography) ==
  [browse |-> browse, back |-> IF browse THEN back ELSE None,
   rows |-> IF browse THEN <<Back>> \o RowOf("album", discography)
            ELSE RowOf("artist", artists) \o RowOf("album", albums) \o RowOf("track", tracks)]

(* Mutant: the back row is forgotten. *)
ResultKindAt_NoBack(row) ==
  LET as == Len(gSearchArtists)
      bs == as + Len(gSearchAlbums) IN
  IF gAlbumBrowse
  THEN IF row = 1 THEN Back
       ELSE IF row <= Len(gArtistAlbums) THEN <<"album", gArtistAlbums[row]>> ELSE NoRow
  ELSE IF row <= as THEN <<"artist", gSearchArtists[row]>>
  ELSE IF row <= bs THEN <<"album", gSearchAlbums[row - as]>>
  ELSE IF row <= bs + Len(gSearchItems) THEN <<"track", gSearchItems[row - bs]>>
  ELSE NoRow

ResultKindAt(row) ==
  LET as == Len(gSearchArtists)
      bs == as + Len(gSearchAlbums) IN
  IF gAlbumBrowse
  THEN IF row = 1 THEN Back
       ELSE IF row - 1 <= Len(gArtistAlbums) THEN <<"album", gArtistAlbums[row - 1]>> ELSE NoRow
  ELSE IF row <= as THEN <<"artist", gSearchArtists[row]>>
  ELSE IF row <= bs THEN <<"album", gSearchAlbums[row - as]>>
  ELSE IF row <= bs + Len(gSearchItems) THEN <<"track", gSearchItems[row - bs]>>
  ELSE NoRow

-----------------------------------------------------------------------------
Init ==
  /\ gSearchTx = None /\ gArtistTx = None /\ gBrowseArtist = None /\ albumsOf = None
  /\ gSearchItems = <<>> /\ gSearchArtists = <<>> /\ gSearchAlbums = <<>> /\ gArtistAlbums = <<>>
  /\ gAlbumBrowse = FALSE /\ shown = [browse |-> FALSE, back |-> None, rows |-> <<>>]
  /\ gFire = None /\ gLastAction = None
  /\ acts = 0

Gesture == acts < MaxActs /\ acts' = acts + 1

(* ActionRepeat: a repeat within the window does nothing.                   *)
NotRepeated(sel) == gLastAction # sel /\ gLastAction' = sel

(* A fresh search leaves the drill; the rows stay until its reply.          *)
(* Mutant: the drill in flight is left to answer. *)
RunSearch_KeepsDrill ==
  /\ Gesture
  /\ \E q \in Queries :
       /\ NotRepeated(<<"search", q>>)
       /\ gSearchTx' = <<q>>
  /\ gArtistTx' = gArtistTx /\ gBrowseArtist' = None
  /\ gAlbumBrowse' = FALSE
  /\ UNCHANGED <<listVars, shown, gFire>>

RunSearch ==
  /\ Gesture
  /\ \E q \in Queries :
       /\ NotRepeated(<<"search", q>>)
       /\ gSearchTx' = <<q>>
  /\ gArtistTx' = None /\ gBrowseArtist' = None
  /\ gAlbumBrowse' = FALSE
  /\ UNCHANGED <<listVars, shown, gFire>>

StartArtistAlbums(artist) ==
  /\ NotRepeated(<<"drill", artist>>)
  /\ gArtistTx' = <<artist>> /\ gBrowseArtist' = <<artist>>
  /\ UNCHANGED <<gSearchTx, listVars, viewVars, gFire>>

(* A double click on row: the drill, the album or the track played (a       *)
(* command of Reconciler), or back to the last search.                      *)
DoubleClick(row) ==
  LET hit == ResultKindAt(row) IN
  /\ Gesture
  /\ \/ hit[1] = "artist" /\ StartArtistAlbums(hit[2])
     \/ /\ hit[1] \in {"album", "track"} /\ NotRepeated(<<"play", hit>>)
        /\ UNCHANGED <<txVars, listVars, viewVars, gFire>>
     \/ /\ hit = Back
        /\ gAlbumBrowse' = FALSE
        /\ shown' = FillResults(FALSE, None, gSearchArtists, gSearchAlbums, gSearchItems, <<>>)
        /\ UNCHANGED <<txVars, listVars, outVars>>

(* Add to Queue, of the row selected: a track or a whole album.             *)
QueueSelected(row) ==
  LET hit == ResultKindAt(row) IN
  /\ Gesture
  /\ hit[1] \in {"album", "track"} /\ NotRepeated(<<"queue", hit>>)
  /\ gFire' = IF gFire = None THEN <<hit>> ELSE gFire
  /\ UNCHANGED <<txVars, listVars, viewVars>>

(* Another server: what is in flight is dropped, what is shown stays.       *)
ApplyServerChange ==
  /\ Gesture
  /\ gSearchTx' = None /\ gArtistTx' = None /\ gFire' = None
  /\ UNCHANGED <<gBrowseArtist, listVars, viewVars, gLastAction>>

WindowOver ==
  /\ gLastAction # None /\ gLastAction' = None
  /\ UNCHANGED <<txVars, listVars, viewVars, gFire, acts>>

-----------------------------------------------------------------------------
(* PumpAux.                                                                 *)
FireEnds ==
  /\ gFire # None /\ gFire' = None
  /\ UNCHANGED <<txVars, listVars, viewVars, gLastAction, acts>>

SearchDone ==
  /\ gSearchTx # None /\ gSearchTx' = None
  /\ \E body \in SearchReplies(gSearchTx[1]) :
       LET f == cq_fields_parse(body) IN
       /\ gSearchItems' = Rows(f, "item") /\ gSearchArtists' = Rows(f, "artist")
       /\ gSearchAlbums' = Rows(f, "album")
       /\ shown' = FillResults(FALSE, None, Rows(f, "artist"), Rows(f, "album"), Rows(f, "item"), <<>>)
  /\ gAlbumBrowse' = FALSE
  /\ UNCHANGED <<gArtistTx, gBrowseArtist, gArtistAlbums, albumsOf, outVars, acts>>

ArtistDone ==
  /\ gArtistTx # None /\ gArtistTx' = None
  /\ \E body \in AlbumReplies(gArtistTx[1]) :
       LET albums == Rows(cq_fields_parse(body), "item") IN
       /\ gArtistAlbums' = albums /\ albumsOf' = gArtistTx
       /\ shown' = FillResults(TRUE, gBrowseArtist, <<>>, <<>>, <<>>, albums)
  /\ gAlbumBrowse' = TRUE
  /\ UNCHANGED <<gSearchTx, gBrowseArtist, gSearchItems, gSearchArtists, gSearchAlbums,
                 outVars, acts>>

SearchFailed ==
  /\ gSearchTx # None /\ gSearchTx' = None
  /\ UNCHANGED <<gArtistTx, gBrowseArtist, listVars, viewVars, outVars, acts>>

ArtistFailed ==
  /\ gArtistTx # None /\ gArtistTx' = None
  /\ UNCHANGED <<gSearchTx, gBrowseArtist, listVars, viewVars, outVars, acts>>

Next ==
  \/ RunSearch \/ \E row \in DOMAIN shown.rows : DoubleClick(row) \/ QueueSelected(row)
  \/ ApplyServerChange \/ WindowOver
  \/ FireEnds \/ SearchDone \/ ArtistDone \/ SearchFailed \/ ArtistFailed

Spec == Init /\ [][Next]_vars

-----------------------------------------------------------------------------
TypeOK ==
  /\ gSearchTx \in {None} \cup {<<q>> : q \in Queries}
  /\ gArtistTx \in {None} \cup {<<a>> : a \in Artists}
  /\ gAlbumBrowse \in BOOLEAN /\ shown.browse \in BOOLEAN
  /\ acts \in 0 .. MaxActs
  /\ \A i \in DOMAIN gSearchArtists : gSearchArtists[i] \in Artists

(* The rows shown are the rows a click finds, and there is no row beyond    *)
(* them, as long as the screen and the lists agree on whether an artist is  *)
(* drilled into.                                                            *)
RowsAreMapped ==
  shown.browse = gAlbumBrowse =>
    \A row \in 1 .. Len(shown.rows) + 1 :
      ResultKindAt(row) = IF row \in DOMAIN shown.rows THEN shown.rows[row] ELSE NoRow

(* The back row names the artist whose albums are listed under it, through  *)
(* drills and searches that begin while others are in flight: the name is   *)
(* that of the last drill begun, the albums come with a reply.              *)
BackRowNamesTheArtist == shown.browse => shown.back = albumsOf

(* What ResultKindAt says of itself, "Row layout matches FillResults": a    *)
(* double click acts on the row it hits.                                    *)
ClickHitsWhatIsShown ==
  \A row \in DOMAIN shown.rows : ResultKindAt(row) = shown.rows[row]
=============================================================================
