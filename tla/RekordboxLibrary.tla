---------------------------- MODULE RekordboxLibrary ---------------------------
(***************************************************************************)
(* Reading the track list of a Rekordbox stick                             *)
(* (backends/media/rekordbox_pdb.cpp): tables that are chains of pages,    *)
(* the rows of a page, artists looked up by track.                         *)
(*                                                                         *)
(* A database is [header, tables, pages]: whether the header holds, the    *)
(* tables [type, first, last] and the pages, numbered from 0, as           *)
(* [self, type, next, rows].  A page without data has no rows; a row of    *)
(* which ok does not hold is one that does not fit its page.  A title, a   *)
(* name or a path is a number, 0 when it is empty.                         *)
(***************************************************************************)
EXTENDS Integers, Sequences, FiniteSets, SequencesExt

CONSTANTS
  ArtistRoom,   \* kMaxArtists
  TrackRoom,    \* kMaxTracks
  RowRoom       \* kMaxRowsPerTable

ASSUME LibraryBounds == {ArtistRoom, TrackRoom, RowRoom} \subseteq Nat \ {0}

(* find_table: of a type there is at most one table. *)
TablesOf(db, type) == SelectSeq(db.tables, LAMBDA t : t.type = type)
NoTable == [type |-> 0, first |-> 0, last |-> 0]

(* for_each_row: from the first page to the last along next, no page twice,*)
(* up to the first row that does not fit and no more than the limit.       *)
PageFits(db, table, page) == db.pages[page].self = page /\ db.pages[page].type = table.type
VisitPage(walk, db, table) ==
  LET page == walk.page
      rows == db.pages[page].rows
      read == CHOOSE n \in 0 .. Len(rows) : /\ \A i \in 1 .. n : rows[i].ok
                                           /\ n < Len(rows) => ~ rows[n + 1].ok
  IN IF walk.at # "page" THEN walk
     ELSE IF page \notin DOMAIN db.pages \/ page \in walk.visited THEN [walk EXCEPT !.at = "rejected"]
     ELSE IF ~ PageFits(db, table, page) THEN [walk EXCEPT !.at = "rejected"]
     ELSE [page |-> db.pages[page].next, visited |-> walk.visited \cup {page},
           rows |-> walk.rows \o SubSeq(rows, 1, read),
           at |-> IF read < Len(rows) THEN "rejected" ELSE IF page = table.last THEN "end" ELSE "page"]
ForEachRow(db, table, limit) ==
  LET walk == FoldLeft(LAMBDA acc, visit : VisitPage(acc, db, table),
                       [page |-> table.first, visited |-> {}, rows |-> <<>>, at |-> "page"],
                       [i \in 1 .. Cardinality(DOMAIN db.pages) |-> i])
      read == Len(walk.rows)
  IN [ok |-> walk.at = "end" /\ read <= limit,
      rows |-> SubSeq(walk.rows, 1, IF read < limit THEN read ELSE limit)]

(* read_artist_rows: a name of an artist replaces an earlier one; rows     *)
(* without an id or a name are passed over.                                *)
AddArtist(acc, row) ==
  IF row.id = 0 \/ row.name = 0 THEN acc
  ELSE IF row.id \notin DOMAIN acc.names /\ Cardinality(DOMAIN acc.names) >= ArtistRoom
  THEN [acc EXCEPT !.ok = FALSE]
  ELSE [acc EXCEPT !.names = [id \in DOMAIN @ \cup {row.id} |-> IF id = row.id THEN row.name ELSE @[id]]]
ReadArtists(db) ==
  LET found == TablesOf(db, "artists")
      table == IF found = <<>> THEN NoTable ELSE Head(found)
      none == [ok |-> Len(found) <= 1, names |-> <<>>]
      walk == ForEachRow(db, table, ArtistRoom)
  IN IF Len(found) > 1 \/ (table.first = 0 /\ table.last = 0) THEN none
     ELSE FoldLeft(AddArtist, [none EXCEPT !.ok = walk.ok], walk.rows)

(* read_track_rows: no track twice; a track without a path is left out, a  *)
(* track without a title has its file name.                                *)
Titled(row, names) ==
  [id |-> row.id, title |-> IF row.title = 0 THEN row.file ELSE row.title,
   artist |-> IF row.artist \in DOMAIN names THEN names[row.artist] ELSE 0, path |-> row.path]
AddTrack(acc, row, names) ==
  IF ~ acc.ok THEN acc
  ELSE IF row.id = 0 \/ row.id \in acc.ids THEN [acc EXCEPT !.ok = FALSE]
  ELSE IF row.path = 0 THEN [acc EXCEPT !.ids = @ \cup {row.id}]
  ELSE IF Len(acc.tracks) >= TrackRoom THEN [acc EXCEPT !.ok = FALSE, !.ids = @ \cup {row.id}]
  ELSE [acc EXCEPT !.ids = @ \cup {row.id}, !.tracks = Append(@, Titled(row, names))]
ReadTracks(db, names) ==
  LET found == TablesOf(db, "tracks")
      walk == ForEachRow(db, Head(found), RowRoom)
      read == FoldLeft(LAMBDA acc, row : AddTrack(acc, row, names), [ok |-> TRUE, ids |-> {}, tracks |-> <<>>], walk.rows)
  IN IF Len(found) # 1 THEN [ok |-> FALSE, tracks |-> <<>>]
     ELSE [ok |-> read.ok /\ walk.ok, tracks |-> read.tracks]

(* By title, by artist among the same title, by id among the same artist. *)
Precedes(a, b) ==
  \/ a.title < b.title
  \/ a.title = b.title /\ (a.artist < b.artist \/ (a.artist = b.artist /\ a.id < b.id))
ReadLibrary(db) ==
  LET artists == ReadArtists(db)
      read == ReadTracks(db, artists.names)
      refused(error) == [error |-> error, tracks |-> <<>>]
  IN IF ~ db.header \/ ~ artists.ok THEN refused("malformed")
     ELSE IF ~ read.ok THEN refused(IF Len(read.tracks) >= TrackRoom THEN "limit" ELSE "malformed")
     ELSE IF read.tracks = <<>> THEN refused("malformed")
     ELSE [error |-> "none", tracks |-> SetToSortSeq(ToSet(read.tracks), Precedes)]

-----------------------------------------------------------------------------
(* A table is read when the pages from its first lead to its last, through *)
(* pages that fit, however the other pages are linked; then the rows of    *)
(* the chain are read, in its order and each once.                         *)
Chain(db, table, length) ==
  LET step[k \in 1 .. length] == IF k = 1 THEN table.first ELSE
        IF step[k - 1] \in DOMAIN db.pages THEN db.pages[step[k - 1]].next ELSE -1
  IN step
LeadsToLast(db, table, length) ==
  LET chain == Chain(db, table, length)
  IN /\ chain[length] = table.last /\ \A i \in 1 .. length - 1 : chain[i] # table.last
     /\ \A i \in 1 .. length : chain[i] \in DOMAIN db.pages /\ PageFits(db, table, chain[i])
RowsOfChain(db, table, length) == FlattenSeq([i \in 1 .. length |-> db.pages[Chain(db, table, length)[i]].rows])

TestRow(id) == [id |-> id, ok |-> id # 4, name |-> id, title |-> 0, file |-> id % 2, artist |-> 1, path |-> 1]
TestPages ==
  {[p \in 0 .. 2 |-> [self |-> IF p = wrong THEN 0 ELSE p, type |-> "tracks", next |-> next[p], rows |-> rows[p]]] :
     wrong \in {0, 2}, next \in [0 .. 2 -> 0 .. 3],
     rows \in [0 .. 2 -> {<<>>, <<TestRow(1)>>, <<TestRow(2), TestRow(3)>>, <<TestRow(5), TestRow(4)>>}]}
TestDatabases ==
  {[header |-> TRUE, pages |-> pages, tables |-> <<[type |-> "tracks", first |-> 1, last |-> last]>>] :
     pages \in TestPages, last \in {0, 1, 2}}

ASSUME ReadsTheChain ==
  \A db \in TestDatabases :
    LET table == Head(db.tables)
        lengths == {n \in 1 .. 3 : LeadsToLast(db, table, n)}
        walk == ForEachRow(db, table, RowRoom)
    IN /\ walk.ok => lengths # {}
       /\ \A n \in lengths :
            LET rows == RowsOfChain(db, table, n)
            IN /\ walk.ok <=> (\A i \in DOMAIN rows : rows[i].ok) /\ Len(rows) <= RowRoom
               /\ walk.ok => walk.rows = rows

(* A library that is read lists each track once, in order, and no error    *)
(* comes with tracks.                                                      *)
ASSUME ListsInOrder ==
  \A db \in TestDatabases :
    LET read == ReadLibrary(db)
    IN /\ read.error = "none" <=> read.tracks # <<>>
       /\ \A i, j \in DOMAIN read.tracks : i < j => Precedes(read.tracks[i], read.tracks[j])
                                                    /\ read.tracks[i].id # read.tracks[j].id
=============================================================================
