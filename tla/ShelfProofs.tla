---------------------------- MODULE ShelfProofs -----------------------------
(***************************************************************************)
(* The shelf, for lists of any length and replies of any content: the row  *)
(* a click finds is the row shown whenever screen and lists agree on the   *)
(* drill, and the back row names the artist whose albums are under it.     *)
(***************************************************************************)
EXTENDS Shelf, FiniteSetTheorems, WellFoundedInduction, TLAPS

IsList(s) == s \in Seq({s[i] : i \in DOMAIN s})

(* The screen shows the lists as they are, in the mode it was filled in,    *)
(* albums under the name of the artist they were asked for.                 *)
Filled ==
  IF shown.browse
  THEN FillResults(TRUE, albumsOf, <<>>, <<>>, <<>>, gArtistAlbums)
  ELSE FillResults(FALSE, None, gSearchArtists, gSearchAlbums, gSearchItems, <<>>)

(* A drill in flight is the one whose artist the back row will name.        *)
DrillNamed == gArtistTx # None => gBrowseArtist = gArtistTx

Inv ==
  /\ TypeOK /\ DrillNamed
  /\ shown = Filled
  /\ IsList(gSearchItems) /\ IsList(gSearchArtists)
  /\ IsList(gSearchAlbums) /\ IsList(gArtistAlbums)

-----------------------------------------------------------------------------
(* A list ends at its first gap, and a reply of finitely many fields has    *)
(* one: as many rows as fields would need a field more.                     *)
LEMMA FirstGap ==
  ASSUME NEW f, NEW prefix, IsFiniteSet(DOMAIN f)
  PROVE  \E n \in 0 .. Cardinality(DOMAIN f) :
           <<prefix, n>> \notin DOMAIN f /\ \A i \in 0 .. n - 1 : <<prefix, i>> \in DOMAIN f
<1> DEFINE N == Cardinality(DOMAIN f)
           key == [n \in 0 .. N |-> <<prefix, n>>]
           gaps == {n \in Nat : <<prefix, n>> \notin DOMAIN f}
<1>1. N \in Nat
  BY FS_CardinalityType
<1>2. \E n \in 0 .. N : n \in gaps
  <2>1. SUFFICES ASSUME \A n \in 0 .. N : n \notin gaps
                 PROVE  FALSE
    OBVIOUS
  <2>2. key \in [0 .. N -> DOMAIN f]
    BY <1>1, <2>1
  <2>3. IsFiniteSet(0 .. N) /\ Cardinality(0 .. N) = N + 1
    BY <1>1, FS_Interval
  <2>4. N < Cardinality(0 .. N)
    BY <1>1, <2>3
  <2> HIDE DEF key, gaps
  <2>5. \E x, y \in 0 .. N : x # y /\ key[x] = key[y]
    BY <2>2, <2>3, <2>4, FS_PigeonHole
  <2> QED
    BY <2>5 DEF key
<1>3. PICK n \in gaps : \A m \in gaps : ~(<<m, n>> \in OpToRel(<, Nat))
  <2>1. gaps \subseteq Nat /\ gaps # {}
    BY <1>2
  <2> HIDE DEF gaps
  <2> QED
    BY <2>1, WFMin, NatLessThanWellFounded
<1>4. \A m \in gaps : ~(m < n)
  BY <1>3 DEF OpToRel
<1>5. n \in 0 .. N
  BY <1>1, <1>2, <1>4
<1> QED
  BY <1>4, <1>5

(* The rows of any reply are a list.                                        *)
LEMMA RowsAreList ==
  ASSUME NEW f, NEW prefix, IsFiniteSet(DOMAIN f)
  PROVE  IsList(Rows(f, prefix))
<1> DEFINE First(n) == /\ <<prefix, n>> \notin DOMAIN f
                       /\ \A i \in 0 .. n - 1 : <<prefix, i>> \in DOMAIN f
           count == CHOOSE n \in 0 .. Cardinality(DOMAIN f) : First(n)
           rows == [n \in 1 .. count |-> f[<<prefix, n - 1>>]]
<1>1. Rows(f, prefix) = rows
  BY DEF Rows
<1>2. count \in Nat
  <2>1. \E n \in 0 .. Cardinality(DOMAIN f) : First(n)
    BY FirstGap
  <2> HIDE DEF First
  <2>2. count \in 0 .. Cardinality(DOMAIN f)
    BY <2>1
  <2> QED
    BY <2>2
<1> DEFINE R == {rows[i] : i \in DOMAIN rows}
<1> HIDE DEF count
<1>3. DOMAIN rows = 1 .. count /\ rows = [n \in 1 .. count |-> rows[n]]
  OBVIOUS
<1> HIDE DEF rows
<1>4. \A n \in 1 .. count : rows[n] \in R
  BY <1>3
<1> HIDE DEF R
<1>5. rows \in [1 .. count -> R]
  BY <1>3, <1>4
<1>6. rows \in Seq(R)
  BY <1>2, <1>5
<1> QED
  BY <1>1, <1>6 DEF IsList, R

(* Row n of a list is its field n - 1, and there is one.                    *)
LEMMA RowIsField ==
  ASSUME NEW f, NEW prefix, IsFiniteSet(DOMAIN f), NEW n \in DOMAIN Rows(f, prefix)
  PROVE  <<prefix, n - 1>> \in DOMAIN f /\ Rows(f, prefix)[n] = f[<<prefix, n - 1>>]
<1> DEFINE First(m) == /\ <<prefix, m>> \notin DOMAIN f
                       /\ \A i \in 0 .. m - 1 : <<prefix, i>> \in DOMAIN f
           count == CHOOSE m \in 0 .. Cardinality(DOMAIN f) : First(m)
<1>1. Rows(f, prefix) = [m \in 1 .. count |-> f[<<prefix, m - 1>>]]
  BY DEF Rows
<1>2. count \in Nat /\ First(count)
  <2>1. \E m \in 0 .. Cardinality(DOMAIN f) : First(m)
    BY FirstGap
  <2> HIDE DEF First
  <2>2. count \in 0 .. Cardinality(DOMAIN f) /\ First(count)
    BY <2>1
  <2> QED
    BY <2>2
<1> HIDE DEF count
<1>3. n \in 1 .. count
  BY <1>1
<1>4. n - 1 \in 0 .. count - 1
  BY <1>2, <1>3
<1> QED
  BY <1>1, <1>2, <1>3, <1>4

(* Of the lines of a key one is the last.                                   *)
LEMMA LastLine ==
  ASSUME NEW n \in Nat, NEW T \in SUBSET (1 .. n), T # {}
  PROVE  \E i \in T : \A j \in T : j <= i
<1> DEFINE U == {n - i : i \in T}
<1>1. U \subseteq Nat /\ U # {}
  OBVIOUS
<1>2. PICK u \in U : \A v \in U : ~(<<v, u>> \in OpToRel(<, Nat))
  <2> HIDE DEF U
  <2> QED
    BY <1>1, WFMin, NatLessThanWellFounded
<1>3. \A v \in U : ~(v < u)
  BY <1>1, <1>2 DEF OpToRel
<1>4. PICK i \in T : u = n - i
  BY <1>2
<1>5. \A j \in T : ~(n - j < n - i)
  BY <1>3, <1>4
<1> QED
  BY <1>5

(* A reply gives finitely many fields, each with the value of a line that   *)
(* has its key and a TAB.                                                   *)
LEMMA FieldsOfReply ==
  ASSUME NEW body, Len(body) \in Nat, DOMAIN body = 1 .. Len(body)
  PROVE  /\ IsFiniteSet(DOMAIN cq_fields_parse(body))
         /\ \A key \in DOMAIN cq_fields_parse(body) :
              \E i \in 1 .. Len(body) :
                /\ Len(body[i]) >= 2 /\ body[i][1] # <<>> /\ body[i][1] = key
                /\ cq_fields_parse(body)[key] = Tail(body[i])
<1> DEFINE fields == {i \in DOMAIN body : IsField(body[i])}
           Of(key) == {i \in fields : body[i][1] = key}
           keys == {body[i][1] : i \in fields}
           last(key) == CHOOSE i \in Of(key) : \A j \in Of(key) : j <= i
<1>1. cq_fields_parse(body) = [key \in keys |-> Tail(body[last(key)])]
  BY Zenon DEF cq_fields_parse
<1>2. IsFiniteSet(keys)
  <2> DEFINE key == [i \in fields |-> body[i][1]]
  <2>1. IsFiniteSet(1 .. Len(body))
    BY FS_Interval
  <2>2. IsFiniteSet(fields)
    BY <2>1, FS_Subset
  <2>3. key \in Surjection(fields, keys)
    BY DEF Surjection
  <2> QED
    BY <2>2, <2>3, FS_Surjection
<1>3. ASSUME NEW key \in keys PROVE last(key) \in Of(key)
  <2>1. Of(key) \in SUBSET (1 .. Len(body)) /\ Of(key) # {}
    OBVIOUS
  <2> HIDE DEF Of
  <2> QED
    BY <2>1, LastLine
<1>4. ASSUME NEW key \in keys
      PROVE  \E i \in 1 .. Len(body) :
               /\ Len(body[i]) >= 2 /\ body[i][1] # <<>> /\ body[i][1] = key
               /\ cq_fields_parse(body)[key] = Tail(body[i])
  <2>1. cq_fields_parse(body)[key] = Tail(body[last(key)])
    BY <1>1
  <2>2. last(key) \in Of(key)
    BY <1>3
  <2> HIDE DEF last
  <2> QED
    BY <2>1, <2>2 DEF IsField
<1>5. DOMAIN cq_fields_parse(body) = keys
  BY <1>1
<1> QED
  BY <1>2, <1>4, <1>5

(* The artists a reply lists are those its lines give.                      *)
LEMMA ArtistsOfReply ==
  ASSUME NEW body, Len(body) \in Nat, DOMAIN body = 1 .. Len(body),
         \A i \in 1 .. Len(body) :
           (Len(body[i]) >= 2 /\ body[i][1] # <<>> /\ body[i][1][1] = "artist")
             => Tail(body[i]) \in Artists
  PROVE  \A i \in DOMAIN Rows(cq_fields_parse(body), "artist") :
           Rows(cq_fields_parse(body), "artist")[i] \in Artists
<1> DEFINE f == cq_fields_parse(body)
<1>1. /\ IsFiniteSet(DOMAIN f)
      /\ \A key \in DOMAIN f :
           \E i \in 1 .. Len(body) :
             /\ Len(body[i]) >= 2 /\ body[i][1] # <<>> /\ body[i][1] = key
             /\ f[key] = Tail(body[i])
  BY FieldsOfReply
<1> HIDE DEF f
<1> SUFFICES ASSUME NEW n \in DOMAIN Rows(f, "artist")
             PROVE  Rows(f, "artist")[n] \in Artists
  BY DEF f
<1>2. <<"artist", n - 1>> \in DOMAIN f /\ Rows(f, "artist")[n] = f[<<"artist", n - 1>>]
  BY <1>1, RowIsField
<1>3. PICK i \in 1 .. Len(body) :
        /\ Len(body[i]) >= 2 /\ body[i][1] # <<>> /\ body[i][1] = <<"artist", n - 1>>
        /\ f[<<"artist", n - 1>>] = Tail(body[i])
  BY <1>1, <1>2
<1>4. body[i][1][1] = "artist"
  BY <1>3
<1> QED
  BY <1>2, <1>3, <1>4

(* Any sequence is a list.                                                 *)
LEMMA ListOver == ASSUME NEW S, NEW s \in Seq(S) PROVE IsList(s)
<1> DEFINE R == {s[i] : i \in DOMAIN s}
<1>1. Len(s) \in Nat /\ DOMAIN s = 1 .. Len(s) /\ s = [i \in 1 .. Len(s) |-> s[i]]
  OBVIOUS
<1>2. \A i \in 1 .. Len(s) : s[i] \in R
  BY <1>1
<1> HIDE DEF R
<1>3. s \in [1 .. Len(s) -> R]
  BY <1>1, <1>2
<1>4. s \in Seq(R)
  BY <1>1, <1>3
<1> QED
  BY <1>4 DEF IsList, R

(* The rows of one kind, in the order of their list.                        *)
LEMMA RowOfList ==
  ASSUME NEW kind, NEW s, IsList(s)
  PROVE  /\ IsList(RowOf(kind, s)) /\ Len(RowOf(kind, s)) = Len(s)
         /\ \A i \in 1 .. Len(s) : RowOf(kind, s)[i] = <<kind, s[i]>>
<1>1. Len(s) \in Nat /\ DOMAIN s = 1 .. Len(s)
  BY DEF IsList
<1>2. RowOf(kind, s) = [i \in 1 .. Len(s) |-> <<kind, s[i]>>]
  BY <1>1 DEF RowOf
<1> DEFINE T == {<<kind, s[i]>> : i \in DOMAIN s}
<1>3. \A i \in 1 .. Len(s) : <<kind, s[i]>> \in T
  BY <1>1
<1> HIDE DEF T
<1>4. [i \in 1 .. Len(s) |-> <<kind, s[i]>>] \in Seq(T)
  BY <1>1, <1>3
<1>5. Len([i \in 1 .. Len(s) |-> <<kind, s[i]>>]) = Len(s)
  BY <1>1
<1> QED
  BY <1>1, <1>2, <1>4, <1>5, ListOver

(* A list has a length, and two of them, one after the other, are a list.   *)
LEMMA Joined ==
  ASSUME NEW a, NEW b, IsList(a), IsList(b)
  PROVE  /\ Len(a) \in Nat /\ Len(b) \in Nat
         /\ IsList(a \o b) /\ Len(a \o b) = Len(a) + Len(b)
<1> DEFINE S == {a[i] : i \in DOMAIN a}
           T == {b[i] : i \in DOMAIN b}
<1>0. a \in Seq(S) /\ b \in Seq(T)
  BY DEF IsList
<1> HIDE DEF S, T
<1>1. a \in Seq(S \cup T) /\ b \in Seq(S \cup T)
  BY <1>0
<1>2. a \o b \in Seq(S \cup T)
  BY <1>1
<1>3. IsList(a \o b)
  BY <1>2, ListOver
<1> QED
  BY <1>1, <1>3

(* Where the rows of two lists, one after the other, are.                   *)
LEMMA TwoLists ==
  ASSUME NEW a, NEW b, IsList(a), IsList(b), NEW row \in 1 .. Len(a) + Len(b) + 1
  PROVE  /\ DOMAIN (a \o b) = 1 .. Len(a) + Len(b) /\ Len(a \o b) = Len(a) + Len(b)
         /\ row <= Len(a) => row \in DOMAIN (a \o b) /\ row \in 1 .. Len(a) /\ (a \o b)[row] = a[row]
         /\ ~(row <= Len(a)) /\ row <= Len(a) + Len(b) =>
              row \in DOMAIN (a \o b) /\ row - Len(a) \in 1 .. Len(b) /\ (a \o b)[row] = b[row - Len(a)]
         /\ ~(row <= Len(a) + Len(b)) => row \notin DOMAIN (a \o b) /\ ~(row <= Len(a))
<1> DEFINE S == {a[i] : i \in DOMAIN a}
           T == {b[i] : i \in DOMAIN b}
<1>0. a \in Seq(S) /\ b \in Seq(T)
  BY DEF IsList
<1> HIDE DEF S, T
<1>1. a \in Seq(S \cup T) /\ b \in Seq(S \cup T)
  BY <1>0
<1>2. /\ DOMAIN (a \o b) = 1 .. Len(a) + Len(b) /\ Len(a \o b) = Len(a) + Len(b)
      /\ Len(a) \in Nat /\ Len(b) \in Nat
  BY <1>1
<1>3. ASSUME row <= Len(a)
      PROVE  row \in DOMAIN (a \o b) /\ row \in 1 .. Len(a) /\ (a \o b)[row] = a[row]
  BY <1>1, <1>2, <1>3
<1>4. ASSUME ~(row <= Len(a)), row <= Len(a) + Len(b)
      PROVE  /\ row \in DOMAIN (a \o b) /\ row - Len(a) \in 1 .. Len(b)
             /\ (a \o b)[row] = b[row - Len(a)]
  BY <1>1, <1>2, <1>4
<1>5. ASSUME ~(row <= Len(a) + Len(b))
      PROVE  row \notin DOMAIN (a \o b) /\ ~(row <= Len(a))
  BY <1>2, <1>5
<1> QED
  BY <1>2, <1>3, <1>4, <1>5

(* And of three.                                                            *)
LEMMA ThreeLists ==
  ASSUME NEW a, NEW b, NEW c, IsList(a), IsList(b), IsList(c),
         NEW row \in 1 .. Len(a) + Len(b) + Len(c) + 1
  PROVE  LET s == (a \o b) \o c IN
         /\ DOMAIN s = 1 .. Len(a) + Len(b) + Len(c) /\ Len(s) = Len(a) + Len(b) + Len(c)
         /\ row <= Len(a) => row \in DOMAIN s /\ row \in 1 .. Len(a) /\ s[row] = a[row]
         /\ ~(row <= Len(a)) /\ row <= Len(a) + Len(b) =>
              row \in DOMAIN s /\ row - Len(a) \in 1 .. Len(b) /\ s[row] = b[row - Len(a)]
         /\ ~(row <= Len(a) + Len(b)) /\ row <= Len(a) + Len(b) + Len(c) =>
              /\ row \in DOMAIN s /\ row - (Len(a) + Len(b)) \in 1 .. Len(c) /\ ~(row <= Len(a))
              /\ s[row] = c[row - (Len(a) + Len(b))]
         /\ ~(row <= Len(a) + Len(b) + Len(c)) =>
              row \notin DOMAIN s /\ ~(row <= Len(a) + Len(b)) /\ ~(row <= Len(a))
<1> DEFINE ab == a \o b
<1>1. /\ IsList(ab) /\ Len(ab) = Len(a) + Len(b)
      /\ Len(a) \in Nat /\ Len(b) \in Nat /\ Len(c) \in Nat /\ Len(ab) \in Nat
  BY Joined
<1>2. row <= Len(a) + Len(b) + 1 =>
        /\ row <= Len(a) => row \in DOMAIN ab /\ row \in 1 .. Len(a) /\ ab[row] = a[row]
        /\ ~(row <= Len(a)) /\ row <= Len(a) + Len(b) =>
             row \in DOMAIN ab /\ row - Len(a) \in 1 .. Len(b) /\ ab[row] = b[row - Len(a)]
  BY <1>1, TwoLists
<1> HIDE DEF ab
<1>3. row \in 1 .. Len(ab) + Len(c) + 1
  BY <1>1
<1>4. /\ DOMAIN (ab \o c) = 1 .. Len(ab) + Len(c) /\ Len(ab \o c) = Len(ab) + Len(c)
      /\ row <= Len(ab) => row \in DOMAIN (ab \o c) /\ row \in 1 .. Len(ab) /\ (ab \o c)[row] = ab[row]
      /\ ~(row <= Len(ab)) /\ row <= Len(ab) + Len(c) =>
           /\ row \in DOMAIN (ab \o c) /\ row - Len(ab) \in 1 .. Len(c)
           /\ (ab \o c)[row] = c[row - Len(ab)]
      /\ ~(row <= Len(ab) + Len(c)) => row \notin DOMAIN (ab \o c) /\ ~(row <= Len(ab))
  BY <1>1, <1>3, TwoLists
<1>5. row <= Len(a) => row <= Len(a) + Len(b)
  BY <1>1
<1> QED
  BY <1>1, <1>2, <1>4, <1>5 DEF ab

(* The drill: the way back, then the albums.                                *)
LEMMA DrillMapped ==
  ASSUME Inv, shown.browse, gAlbumBrowse, NEW row \in 1 .. Len(shown.rows) + 1
  PROVE  ResultKindAt(row) = IF row \in DOMAIN shown.rows THEN shown.rows[row] ELSE NoRow
<1> DEFINE back == <<Back>>
           rows == RowOf("album", gArtistAlbums)
<1>1. shown.rows = back \o rows
  BY DEF Inv, Filled, FillResults
<1>2. /\ Len(rows) = Len(gArtistAlbums) /\ IsList(rows)
      /\ \A i \in 1 .. Len(gArtistAlbums) : rows[i] = <<"album", gArtistAlbums[i]>>
  BY RowOfList DEF Inv
<1>3. IsList(back) /\ Len(back) = 1 /\ back[1] = Back
  <2>1. back \in Seq({Back}) /\ Len(back) = 1 /\ back[1] = Back
    OBVIOUS
  <2> QED
    BY <2>1, ListOver
<1>4. ResultKindAt(row) = IF row = 1 THEN Back
                          ELSE IF row - 1 <= Len(gArtistAlbums)
                          THEN <<"album", gArtistAlbums[row - 1]>> ELSE NoRow
  BY DEF ResultKindAt
<1> HIDE DEF back, rows
<1>5. Len(rows) \in Nat /\ Len(back \o rows) = Len(back) + Len(rows)
  BY <1>2, <1>3, Joined
<1>6. row \in 1 .. Len(back) + Len(rows) + 1
  BY <1>1, <1>5
<1>7. /\ row <= Len(back) => row \in DOMAIN (back \o rows) /\ row \in 1 .. Len(back)
                             /\ (back \o rows)[row] = back[row]
      /\ ~(row <= Len(back)) /\ row <= Len(back) + Len(rows) =>
           /\ row \in DOMAIN (back \o rows) /\ row - Len(back) \in 1 .. Len(rows)
           /\ (back \o rows)[row] = rows[row - Len(back)]
      /\ ~(row <= Len(back) + Len(rows)) => row \notin DOMAIN (back \o rows)
  <2>1. IsList(back) /\ IsList(rows)
    BY <1>2, <1>3
  <2> QED
    BY <2>1, <1>6, TwoLists, Zenon
<1>8. (row = 1 <=> row <= Len(back)) /\ (row - 1 <= Len(rows) <=> row <= Len(back) + Len(rows))
  BY <1>3, <1>5, <1>6
<1>9. CASE row <= Len(back)
  <2>1. row = 1
    BY <1>8, <1>9
  <2> QED
    BY <1>1, <1>3, <1>4, <1>7, <1>9, <2>1
<1>10. CASE ~(row <= Len(back)) /\ row <= Len(back) + Len(rows)
  <2>1. row # 1 /\ row - 1 <= Len(gArtistAlbums) /\ row - 1 \in 1 .. Len(gArtistAlbums)
    BY <1>2, <1>3, <1>7, <1>8, <1>10
  <2>2. rows[row - 1] = <<"album", gArtistAlbums[row - 1]>>
    BY <1>2, <2>1
  <2> QED
    BY <1>1, <1>3, <1>4, <1>7, <1>10, <2>1, <2>2
<1>11. CASE ~(row <= Len(back) + Len(rows))
  <2>1. row # 1 /\ ~(row - 1 <= Len(gArtistAlbums))
    BY <1>2, <1>3, <1>5, <1>6, <1>8, <1>11
  <2> QED
    BY <1>1, <1>4, <1>7, <1>11, <2>1
<1> QED
  BY <1>9, <1>10, <1>11

(* The search: artists, albums, tracks.                                     *)
LEMMA SearchMapped ==
  ASSUME Inv, ~shown.browse, ~gAlbumBrowse, NEW row \in 1 .. Len(shown.rows) + 1
  PROVE  ResultKindAt(row) = IF row \in DOMAIN shown.rows THEN shown.rows[row] ELSE NoRow
<1> DEFINE a == RowOf("artist", gSearchArtists)
           b == RowOf("album", gSearchAlbums)
           t == RowOf("track", gSearchItems)
<1>1. shown.rows = (a \o b) \o t
  BY DEF Inv, Filled, FillResults
<1>2. /\ IsList(a) /\ Len(a) = Len(gSearchArtists)
      /\ \A i \in 1 .. Len(gSearchArtists) : a[i] = <<"artist", gSearchArtists[i]>>
  BY RowOfList DEF Inv
<1>3. /\ IsList(b) /\ Len(b) = Len(gSearchAlbums)
      /\ \A i \in 1 .. Len(gSearchAlbums) : b[i] = <<"album", gSearchAlbums[i]>>
  BY RowOfList DEF Inv
<1>4. /\ IsList(t) /\ Len(t) = Len(gSearchItems)
      /\ \A i \in 1 .. Len(gSearchItems) : t[i] = <<"track", gSearchItems[i]>>
  BY RowOfList DEF Inv
<1> HIDE DEF a, b, t
<1>5. ResultKindAt(row) =
        IF row <= Len(a) THEN <<"artist", gSearchArtists[row]>>
        ELSE IF row <= Len(a) + Len(b) THEN <<"album", gSearchAlbums[row - Len(a)]>>
        ELSE IF row <= Len(a) + Len(b) + Len(t) THEN <<"track", gSearchItems[row - (Len(a) + Len(b))]>>
        ELSE NoRow
  BY <1>2, <1>3, <1>4 DEF ResultKindAt
<1>6. Len((a \o b) \o t) = Len(a) + Len(b) + Len(t)
  BY <1>2, <1>3, <1>4, Joined
<1>7. row \in 1 .. Len(a) + Len(b) + Len(t) + 1
  BY <1>1, <1>6
<1> DEFINE s == (a \o b) \o t
<1>8. /\ row <= Len(a) => row \in DOMAIN s /\ row \in 1 .. Len(a) /\ s[row] = a[row]
      /\ ~(row <= Len(a)) /\ row <= Len(a) + Len(b) =>
           row \in DOMAIN s /\ row - Len(a) \in 1 .. Len(b) /\ s[row] = b[row - Len(a)]
      /\ ~(row <= Len(a) + Len(b)) /\ row <= Len(a) + Len(b) + Len(t) =>
           /\ row \in DOMAIN s /\ row - (Len(a) + Len(b)) \in 1 .. Len(t) /\ ~(row <= Len(a))
           /\ s[row] = t[row - (Len(a) + Len(b))]
      /\ ~(row <= Len(a) + Len(b) + Len(t)) =>
           row \notin DOMAIN s /\ ~(row <= Len(a) + Len(b)) /\ ~(row <= Len(a))
  <2>1. IsList(a) /\ IsList(b) /\ IsList(t)
    BY <1>2, <1>3, <1>4
  <2> QED
    BY <2>1, <1>7, ThreeLists, SMTT(60) DEF s
<1>9. shown.rows = s
  BY <1>1
<1> HIDE DEF s
<1>10. CASE row <= Len(a)
  BY <1>2, <1>5, <1>8, <1>9, <1>10
<1>11. CASE ~(row <= Len(a)) /\ row <= Len(a) + Len(b)
  BY <1>3, <1>5, <1>8, <1>9, <1>11
<1>12. CASE ~(row <= Len(a) + Len(b)) /\ row <= Len(a) + Len(b) + Len(t)
  BY <1>4, <1>5, <1>8, <1>9, <1>12
<1>13. CASE ~(row <= Len(a) + Len(b) + Len(t))
  BY <1>5, <1>8, <1>9, <1>13
<1> QED
  BY <1>8, <1>10, <1>11, <1>12, <1>13

-----------------------------------------------------------------------------
(* Nothing is shown at first, and nothing asked.                            *)
LEMMA InitInv == Init => Inv
<1>1. IsList(<<>>)
  BY DEF IsList
<1>2. ASSUME NEW kind PROVE RowOf(kind, <<>>) = <<>>
  BY DEF RowOf
<1>3. <<>> \o <<>> = <<>>
  OBVIOUS
<1>4. FillResults(FALSE, None, <<>>, <<>>, <<>>, <<>>) = [browse |-> FALSE, back |-> None, rows |-> <<>>]
  BY <1>2, <1>3 DEF FillResults
<1>5. FillResults(FALSE, None, <<>>, <<>>, <<>>, gArtistAlbums) = FillResults(FALSE, None, <<>>, <<>>, <<>>, <<>>)
  BY DEF FillResults
<1>6. ASSUME Init PROVE shown = Filled /\ shown.browse = FALSE
  <2>1. shown = [browse |-> FALSE, back |-> None, rows |-> <<>>] /\ shown.browse = FALSE
    BY <1>6 DEF Init
  <2>2. Filled = FillResults(FALSE, None, <<>>, <<>>, <<>>, <<>>)
    BY <1>5, <1>6, <2>1 DEF Init, Filled
  <2> QED
    BY <1>4, <2>1, <2>2
<1>7. ASSUME Init PROVE TypeOK
  <2>1. MaxActs \in Nat
    BY ShelfAssumption, Zenon
  <2>2. acts \in 0 .. MaxActs
    BY <1>7, <2>1 DEF Init
  <2>3. DOMAIN gSearchArtists = {}
    BY <1>7 DEF Init
  <2>4. gSearchTx = None /\ gArtistTx = None /\ gAlbumBrowse = FALSE
    BY <1>7 DEF Init
  <2>5. shown.browse = FALSE
    BY <1>6, <1>7
  <2> QED
    BY <2>2, <2>3, <2>4, <2>5 DEF TypeOK
<1>8. Init => DrillNamed
  BY DEF Init, DrillNamed
<1> QED
  BY <1>1, <1>6, <1>7, <1>8 DEF Init, Inv

-----------------------------------------------------------------------------
(* What a step must keep of the lists, when none of them changes.           *)
LEMMA SameLists ==
  ASSUME Inv, UNCHANGED <<listVars, shown>>
  PROVE  /\ shown' = Filled' /\ shown'.browse \in BOOLEAN
         /\ IsList(gSearchItems') /\ IsList(gSearchArtists')
         /\ IsList(gSearchAlbums') /\ IsList(gArtistAlbums')
         /\ \A i \in DOMAIN gSearchArtists' : gSearchArtists'[i] \in Artists
<1>1. /\ shown' = shown /\ gSearchItems' = gSearchItems /\ gSearchArtists' = gSearchArtists
      /\ gSearchAlbums' = gSearchAlbums /\ gArtistAlbums' = gArtistAlbums
      /\ albumsOf' = albumsOf
  BY DEF listVars
<1>2. Filled' = Filled
  BY <1>1 DEF Filled
<1> QED
  BY <1>1, <1>2 DEF Inv, TypeOK, DrillNamed

(* A gesture is counted, and no other step counts.                          *)
LEMMA Counted ==
  ASSUME Inv, Gesture \/ acts' = acts
  PROVE  acts' \in 0 .. MaxActs
<1>1. MaxActs \in Nat
  BY ShelfAssumption, Zenon
<1>2. acts \in 0 .. MaxActs
  BY DEF Inv, TypeOK
<1> QED
  BY <1>1, <1>2 DEF Gesture

(* A search ends the drill, in flight or not.                               *)
LEMMA RunSearchInv == ASSUME Inv, RunSearch PROVE Inv'
<1>1. PICK q \in Queries : gSearchTx' = <<q>>
  BY DEF RunSearch
<1>2. Gesture /\ gArtistTx' = None /\ gAlbumBrowse' = FALSE /\ UNCHANGED <<listVars, shown>>
  BY DEF RunSearch
<1> QED
  BY <1>1, <1>2, SameLists, Counted DEF Inv, TypeOK, DrillNamed

(* The rows shown are numbered from 1.                                      *)
LEMMA ShownRows == ASSUME Inv, NEW row \in DOMAIN shown.rows PROVE row \in Nat \ {0}
<1>1. IsList(RowOf("album", gArtistAlbums)) /\ IsList(RowOf("artist", gSearchArtists))
      /\ IsList(RowOf("album", gSearchAlbums)) /\ IsList(RowOf("track", gSearchItems))
  BY RowOfList DEF Inv
<1>2. IsList(<<Back>>)
  <2>1. <<Back>> \in Seq({Back})
    OBVIOUS
  <2> QED
    BY <2>1, ListOver
<1>3. /\ IsList(<<Back>> \o RowOf("album", gArtistAlbums))
      /\ IsList((RowOf("artist", gSearchArtists) \o RowOf("album", gSearchAlbums))
                  \o RowOf("track", gSearchItems))
  BY <1>1, <1>2, Joined
<1>4. \/ shown.rows = <<Back>> \o RowOf("album", gArtistAlbums)
      \/ shown.rows = (RowOf("artist", gSearchArtists) \o RowOf("album", gSearchAlbums))
                       \o RowOf("track", gSearchItems)
  BY DEF Inv, Filled, FillResults
<1>5. IsList(shown.rows)
  BY <1>3, <1>4
<1> QED
  BY <1>5 DEF IsList

(* What a row means when an artist is hit: the artist is one of the list.   *)
LEMMA ArtistHit ==
  ASSUME Inv, NEW row \in DOMAIN shown.rows, ResultKindAt(row)[1] = "artist"
  PROVE  ResultKindAt(row)[2] \in Artists
<1>1. row \in Nat \ {0}
  BY ShownRows
<1>2. /\ row <= Len(gSearchArtists)
      /\ ResultKindAt(row) = <<"artist", gSearchArtists[row]>>
  BY DEF ResultKindAt, Back, NoRow
<1>3. Len(gSearchArtists) \in Nat /\ DOMAIN gSearchArtists = 1 .. Len(gSearchArtists)
  BY DEF Inv, IsList
<1>4. row \in DOMAIN gSearchArtists
  BY <1>1, <1>2, <1>3
<1> QED
  BY <1>2, <1>4 DEF Inv, TypeOK, DrillNamed

(* A drill is of an artist found, and gives the back row its name.          *)
LEMMA DrillInv ==
  ASSUME Inv, Gesture, NEW artist \in Artists, StartArtistAlbums(artist)
  PROVE  Inv'
<1>1. /\ gArtistTx' = <<artist>> /\ gBrowseArtist' = <<artist>>
      /\ gSearchTx' = gSearchTx /\ gAlbumBrowse' = gAlbumBrowse
      /\ UNCHANGED <<listVars, shown>>
  BY DEF StartArtistAlbums, viewVars
<1> QED
  BY <1>1, SameLists, Counted DEF Inv, TypeOK, DrillNamed

(* Steps that leave the lists and what is shown, and may drop a request.    *)
LEMMA LeavesLists ==
  ASSUME Inv, UNCHANGED <<listVars, viewVars, gBrowseArtist>>,
         gSearchTx' \in {None, gSearchTx}, gArtistTx' \in {None, gArtistTx},
         Gesture \/ acts' = acts
  PROVE  Inv'
<1>1. gAlbumBrowse' = gAlbumBrowse /\ UNCHANGED <<listVars, shown>> /\ gBrowseArtist' = gBrowseArtist
  BY DEF viewVars
<1> QED
  BY <1>1, SameLists, Counted DEF Inv, TypeOK, DrillNamed

(* Back to the last search: its lists are still there.                      *)
LEMMA BackInv ==
  ASSUME Inv, Gesture, gAlbumBrowse' = FALSE, UNCHANGED <<txVars, listVars>>,
         shown' = FillResults(FALSE, None, gSearchArtists, gSearchAlbums, gSearchItems, <<>>)
  PROVE  Inv'
<1>1. /\ gSearchItems' = gSearchItems /\ gSearchArtists' = gSearchArtists
      /\ gSearchAlbums' = gSearchAlbums /\ gArtistAlbums' = gArtistAlbums
      /\ gSearchTx' = gSearchTx /\ gArtistTx' = gArtistTx /\ gBrowseArtist' = gBrowseArtist
      /\ albumsOf' = albumsOf
  BY DEF listVars, txVars
<1>2. shown'.browse = FALSE
  BY DEF FillResults
<1>3. shown' = Filled'
  BY <1>1, <1>2 DEF Filled
<1> QED
  BY <1>1, <1>2, <1>3, Counted DEF Inv, TypeOK, DrillNamed

(* What a reply brings are lists, and they are shown as they come.          *)
LEMMA SearchDoneInv == ASSUME Inv, SearchDone PROVE Inv'
<1>1. PICK body \in SearchReplies(gSearchTx[1]) :
        LET f == cq_fields_parse(body) IN
        /\ gSearchItems' = Rows(f, "item") /\ gSearchArtists' = Rows(f, "artist")
        /\ gSearchAlbums' = Rows(f, "album")
        /\ shown' = FillResults(FALSE, None, Rows(f, "artist"), Rows(f, "album"), Rows(f, "item"), <<>>)
  BY DEF SearchDone
<1> DEFINE f == cq_fields_parse(body)
<1>2. gSearchTx[1] \in Queries
  BY DEF Inv, TypeOK, SearchDone
<1>3. /\ IsFiniteSet(DOMAIN f)
      /\ \A i \in DOMAIN Rows(f, "artist") : Rows(f, "artist")[i] \in Artists
  <2>1. /\ Len(body) \in Nat /\ DOMAIN body = 1 .. Len(body)
        /\ \A i \in 1 .. Len(body) :
             (Len(body[i]) >= 2 /\ body[i][1] # <<>> /\ body[i][1][1] = "artist")
               => Tail(body[i]) \in Artists
    BY <1>2, ShelfAssumption, Zenon
  <2> QED
    BY <2>1, FieldsOfReply, ArtistsOfReply
<1>4. /\ gSearchItems' = Rows(f, "item") /\ gSearchArtists' = Rows(f, "artist")
      /\ gSearchAlbums' = Rows(f, "album")
      /\ shown' = FillResults(FALSE, None, Rows(f, "artist"), Rows(f, "album"), Rows(f, "item"), <<>>)
  BY <1>1
<1> HIDE DEF f
<1>5. IsList(gSearchItems') /\ IsList(gSearchArtists') /\ IsList(gSearchAlbums')
  BY <1>3, <1>4, RowsAreList
<1>6. shown'.browse = FALSE
  BY <1>4 DEF FillResults
<1>7. shown' = Filled'
  BY <1>4, <1>6 DEF Filled
<1>8. /\ gSearchTx' = None /\ gArtistTx' = gArtistTx /\ gBrowseArtist' = gBrowseArtist /\ albumsOf' = albumsOf
      /\ gArtistAlbums' = gArtistAlbums /\ gAlbumBrowse' = FALSE /\ acts' = acts
  BY DEF SearchDone
<1>9. \A i \in DOMAIN gSearchArtists' : gSearchArtists'[i] \in Artists
  BY <1>3, <1>4
<1>10. IsList(gArtistAlbums')
  BY <1>8 DEF Inv
<1> QED
  BY <1>5, <1>6, <1>7, <1>8, <1>9, <1>10, Counted DEF Inv, TypeOK, DrillNamed

LEMMA ArtistDoneInv == ASSUME Inv, ArtistDone PROVE Inv'
<1>1. PICK body \in AlbumReplies(gArtistTx[1]) :
        LET albums == Rows(cq_fields_parse(body), "item") IN
        /\ gArtistAlbums' = albums /\ albumsOf' = gArtistTx
        /\ shown' = FillResults(TRUE, gBrowseArtist, <<>>, <<>>, <<>>, albums)
  BY DEF ArtistDone
<1> DEFINE f == cq_fields_parse(body)
<1>2. gArtistTx[1] \in Artists
  BY DEF Inv, TypeOK, ArtistDone
<1>3. IsFiniteSet(DOMAIN f)
  <2>1. Len(body) \in Nat /\ DOMAIN body = 1 .. Len(body)
    BY <1>2, ShelfAssumption, Zenon
  <2> QED
    BY <2>1, FieldsOfReply
<1>4. /\ gArtistAlbums' = Rows(f, "item") /\ albumsOf' = gArtistTx
      /\ shown' = FillResults(TRUE, gBrowseArtist, <<>>, <<>>, <<>>, Rows(f, "item"))
  BY <1>1
<1> HIDE DEF f
<1>5. IsList(gArtistAlbums')
  BY <1>3, <1>4, RowsAreList
<1>6. shown'.browse = TRUE
  BY <1>4 DEF FillResults
<1>7. shown' = Filled'
  <2>1. gBrowseArtist = gArtistTx
    BY DEF Inv, DrillNamed, ArtistDone
  <2> QED
    BY <1>4, <1>6, <2>1 DEF Filled
<1>8. /\ gArtistTx' = None /\ gSearchTx' = gSearchTx /\ gBrowseArtist' = gBrowseArtist
      /\ gSearchItems' = gSearchItems /\ gSearchArtists' = gSearchArtists
      /\ gSearchAlbums' = gSearchAlbums /\ gAlbumBrowse' = TRUE /\ acts' = acts
  BY DEF ArtistDone
<1>9. IsList(gSearchItems') /\ IsList(gSearchArtists') /\ IsList(gSearchAlbums')
  BY <1>8 DEF Inv
<1> QED
  BY <1>5, <1>6, <1>7, <1>8, <1>9, Counted DEF Inv, TypeOK, DrillNamed

(* A double click acts on the row it hits.                                  *)
LEMMA DoubleClickInv ==
  ASSUME Inv, NEW row \in DOMAIN shown.rows, DoubleClick(row)
  PROVE  Inv'
<1> DEFINE hit == ResultKindAt(row)
<1>1. Gesture
  BY DEF DoubleClick
<1>2. CASE hit[1] = "artist" /\ StartArtistAlbums(hit[2])
  <2>1. hit[2] \in Artists
    BY <1>2, ArtistHit
  <2> QED
    BY <1>1, <1>2, <2>1, DrillInv
<1>3. CASE UNCHANGED <<txVars, listVars, viewVars, gFire>>
  BY <1>1, <1>3, LeavesLists DEF txVars
<1>4. CASE /\ gAlbumBrowse' = FALSE
           /\ shown' = FillResults(FALSE, None, gSearchArtists, gSearchAlbums, gSearchItems, <<>>)
           /\ UNCHANGED <<txVars, listVars, outVars>>
  BY <1>1, <1>4, BackInv
<1> QED
  BY <1>2, <1>3, <1>4 DEF DoubleClick

(* Every step keeps the invariant.                                          *)
LEMMA NextInv == ASSUME Inv, [Next]_vars PROVE Inv'
<1>1. CASE RunSearch
  BY <1>1, RunSearchInv
<1>2. CASE \E row \in DOMAIN shown.rows : DoubleClick(row)
  BY <1>2, DoubleClickInv
<1>3. CASE \E row \in DOMAIN shown.rows : QueueSelected(row)
  BY <1>3, LeavesLists DEF QueueSelected, txVars
<1>4. CASE ApplyServerChange
  BY <1>4, LeavesLists DEF ApplyServerChange
<1>5. CASE WindowOver \/ FireEnds
  BY <1>5, LeavesLists DEF WindowOver, FireEnds, txVars
<1>6. CASE SearchDone
  BY <1>6, SearchDoneInv
<1>7. CASE ArtistDone
  BY <1>7, ArtistDoneInv
<1>8. CASE SearchFailed \/ ArtistFailed
  BY <1>8, LeavesLists DEF SearchFailed, ArtistFailed
<1>9. CASE UNCHANGED vars
  BY <1>9, LeavesLists DEF vars, txVars
<1> QED
  BY <1>1, <1>2, <1>3, <1>4, <1>5, <1>6, <1>7, <1>8, <1>9 DEF Next

-----------------------------------------------------------------------------
(* The screen shows the lists as last filled, and a drill in flight is the  *)
(* one the back row will name: this holds of every state.                   *)
THEOREM Invariant == Spec => []Inv
<1>1. Init => Inv
  BY InitInv
<1>2. Inv /\ [Next]_vars => Inv'
  BY NextInv
<1> QED
  BY <1>1, <1>2, PTL DEF Spec

(* TypeOK: the requests are of queries and artists, and whatever a reply    *)
(* holds, the artists listed are the ones a drill may ask for.              *)
THEOREM TypeCorrect == Spec => []TypeOK
<1>1. Inv => TypeOK
  BY DEF Inv
<1> QED
  BY <1>1, Invariant, PTL

(* BackRowNamesTheArtist: whatever searches and drills begin while others   *)
(* are in flight, the albums listed are those of the artist the row above   *)
(* them names.                                                              *)
THEOREM BackRowTrue == Spec => []BackRowNamesTheArtist
<1>1. ASSUME Inv PROVE BackRowNamesTheArtist
  <2>1. SUFFICES ASSUME shown.browse PROVE shown.back = albumsOf
    BY DEF BackRowNamesTheArtist
  <2>2. shown = FillResults(TRUE, albumsOf, <<>>, <<>>, <<>>, gArtistAlbums)
    BY <1>1, <2>1 DEF Inv, Filled
  <2> QED
    BY <2>2 DEF FillResults
<1> QED
  BY <1>1, Invariant, PTL

(* RowsAreMapped, for lists of any length: ResultKindAt finds the row that  *)
(* FillResults wrote, and none beyond, as long as both mean the same list.  *)
THEOREM RowsMapped == Spec => []RowsAreMapped
<1>1. ASSUME Inv PROVE RowsAreMapped
  <2>1. SUFFICES ASSUME shown.browse = gAlbumBrowse, NEW row \in 1 .. Len(shown.rows) + 1
                 PROVE  ResultKindAt(row) = IF row \in DOMAIN shown.rows THEN shown.rows[row] ELSE NoRow
    BY DEF RowsAreMapped
  <2>2. CASE gAlbumBrowse
    BY <1>1, <2>1, <2>2, DrillMapped
  <2>3. CASE ~gAlbumBrowse
    BY <1>1, <2>1, <2>3, SearchMapped
  <2> QED
    BY <2>2, <2>3
<1> QED
  BY <1>1, Invariant, PTL
=============================================================================
