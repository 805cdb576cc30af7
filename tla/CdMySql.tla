-------------------------------- MODULE CdMySql --------------------------------
(***************************************************************************)
(* The CD catalogue on a MySQL server: the functions of app_mysql.c, the   *)
(* test program of ch08 that calls each of them once, and the graphical    *)
(* program of chap16 (and chap17, which does the same calls) that adds and *)
(* searches.  Every statement sent to the server is a step, and each of    *)
(* them may fail by itself; nothing makes two statements a transaction.    *)
(* Users share the tables.                                                 *)
(***************************************************************************)
EXTENDS Integers, Sequences, FiniteSets, FiniteSetsExt, SequencesExt

CONSTANTS
  SqlUsers,
  Artists, AppTestArtist,  \* the names; the one app_test adds
  NumTracks,               \* the tracks app_test adds
  MAX_CD_RESULT,
  MaxIds,                  \* bound on the rows ever added to cd, and to artist
  MayFail                  \* statements may fail

ASSUME SqlAssumption ==
  /\ AppTestArtist \in Artists /\ MayFail \in BOOLEAN
  /\ {NumTracks, MAX_CD_RESULT, MaxIds} \subseteq Nat

VARIABLES
  artist, cd, track,      \* the tables
  autoId,                 \* the next AUTO_INCREMENT of each
  sqlPc, local,           \* each user's program: the statement to send, its variables
  tree,                   \* the rows a search has put into the tree view, per user
  addFailed               \* history: add_cd returned 0 once

tables  == <<artist, cd, track, autoId>>
sqlVars == <<tables, sqlPc, local, tree, addFailed>>

NoCd == -1
Ids  == 1 .. MaxIds

\* artist_id, cd_id: int variables; lastId: LAST_INSERT_ID() of the connection;
\* found: cd_search_st but for its unused ids, -1; rows: what find_cds returned;
\* i: the loop index; dialog: addcd_dialog is open.
NewLocal(main) == [main |-> main, name |-> AppTestArtist, symphony |-> main = "app_test",
                   artist_id |-> NoCd, cd_id |-> NoCd, lastId |-> 0, found |-> <<>>,
                   rows |-> 0, i |-> 0, dialog |-> FALSE]

SqlInit ==
  /\ artist = {} /\ cd = {} /\ track = {}
  /\ autoId = [t \in {"artist", "cd"} |-> 1]
  /\ sqlPc = [u \in SqlUsers |-> "none"] /\ local = [u \in SqlUsers |-> NewLocal("none")]
  /\ tree = [u \in SqlUsers |-> <<>>] /\ addFailed = FALSE

Sends(u, statement) == sqlPc[u] = statement

\* u goes on to send `statement`, with l in its variables.
Goes(u, statement, l) ==
  /\ sqlPc' = [sqlPc EXCEPT ![u] = statement] /\ local' = [local EXCEPT ![u] = l]

NoTable == UNCHANGED tables
NoTree  == UNCHANGED <<tree, addFailed>>

-----------------------------------------------------------------------------
\* The programs around the database functions.

\* app_test when database_start succeeds; else every call returns 0 at once.
StartAppTest(u) ==
  /\ Sends(u, "none") /\ Goes(u, "select artist", NewLocal("app_test")) /\ NoTable /\ NoTree

\* main of the graphical program: its login loop until database_start succeeds.
LogOn(u) ==
  /\ Sends(u, "none") /\ Goes(u, "gtk_main", NewLocal("gui")) /\ NoTable /\ NoTree

on_addcd_activate(u) ==
  /\ Sends(u, "gtk_main") /\ ~local[u].dialog
  /\ Goes(u, "gtk_main", [local[u] EXCEPT !.dialog = TRUE]) /\ NoTable /\ NoTree

addcd_dialog_button_clicked(u) ==
  /\ Sends(u, "gtk_main") /\ local[u].dialog /\ NoTable /\ NoTree
  /\ \/ Goes(u, "gtk_main", [local[u] EXCEPT !.dialog = FALSE])
     \/ \E name \in Artists, symphony \in BOOLEAN :
          Goes(u, "select artist", [local[u] EXCEPT !.name = name, !.symphony = symphony])

quit_app(u) ==
  /\ Sends(u, "gtk_main") /\ Goes(u, "none", NewLocal("none")) /\ NoTable /\ NoTree

\* The return of add_cd.  app_test goes on whatever was returned: cd_id is then
\* what the caller left in it, on the stack anything.  The graphical program
\* passes a pointer it never set: a write through it may be the program's end.
AddReturns(u, succeeded, cd_id, written) ==
  /\ addFailed' = (addFailed \/ ~succeeded) /\ UNCHANGED tree
  /\ \/ /\ local[u].main = "app_test"
        /\ \E id \in IF written THEN {cd_id} ELSE Ids \cup {0} :
             Goes(u, "insert track", [NewLocal("app_test") EXCEPT !.cd_id = id])
     \/ /\ local[u].main = "gui" /\ Goes(u, "gtk_main", NewLocal("gui"))
     \/ /\ local[u].main = "gui" /\ written /\ Goes(u, "none", NewLocal("none"))

-----------------------------------------------------------------------------
\* add_cd and get_artist_id.

SelectArtist(u) ==
  /\ Sends(u, "select artist") /\ NoTable /\ NoTree
  /\ \/ \E a \in artist :
          /\ a.name = local[u].name
          /\ Goes(u, "insert cd", [local[u] EXCEPT !.artist_id = a.id])
     \/ /\ MayFail \/ \A a \in artist : a.name # local[u].name
        /\ Goes(u, "insert artist", local[u])

\* get_artist_id returns 0 when it fails, an id to its caller.
InsertArtist(u) ==
  /\ Sends(u, "insert artist") /\ NoTree
  /\ \/ /\ autoId["artist"] <= MaxIds
        /\ artist' = artist \cup {[id |-> autoId["artist"], name |-> local[u].name]}
        /\ autoId' = [autoId EXCEPT !["artist"] = @ + 1] /\ UNCHANGED <<cd, track>>
        /\ Goes(u, "select artist_id", [local[u] EXCEPT !.lastId = autoId["artist"]])
     \/ MayFail /\ NoTable /\ Goes(u, "insert cd", [local[u] EXCEPT !.artist_id = 0])

\* No row, when the connection is lost before the result, leaves the -1.
SelectArtistId(u) ==
  /\ Sends(u, "select artist_id") /\ NoTable /\ NoTree
  /\ \E id \in {local[u].lastId} \cup (IF MayFail THEN {0, NoCd} ELSE {}) :
       Goes(u, "insert cd", [local[u] EXCEPT !.artist_id = id])

InsertCd(u) ==
  /\ Sends(u, "insert cd")
  /\ \/ /\ autoId["cd"] <= MaxIds /\ NoTree
        /\ cd' = cd \cup {[id |-> autoId["cd"], artist_id |-> local[u].artist_id,
                           symphony |-> local[u].symphony]}
        /\ autoId' = [autoId EXCEPT !["cd"] = @ + 1] /\ UNCHANGED <<artist, track>>
        /\ Goes(u, "select cd_id", [local[u] EXCEPT !.lastId = autoId["cd"], !.artist_id = NoCd])
     \/ MayFail /\ NoTable /\ AddReturns(u, FALSE, NoCd, FALSE)

SelectCdId(u) ==
  /\ Sends(u, "select cd_id") /\ NoTable
  /\ \/ AddReturns(u, TRUE, local[u].lastId, TRUE)
     \/ MayFail /\ AddReturns(u, FALSE, NoCd, FALSE)
     \/ MayFail /\ AddReturns(u, FALSE, NoCd, TRUE)

\* add_tracks: (cd_id, track_id) is the primary key.
InsertTrack(u) ==
  /\ Sends(u, "insert track") /\ NoTree /\ UNCHANGED <<artist, cd, autoId>>
  /\ LET l   == local[u]
         row == [cd_id |-> l.cd_id, track_id |-> l.i + 1]
     IN \/ /\ l.i < NumTracks /\ row \notin track /\ track' = track \cup {row}
           /\ Goes(u, "insert track", [l EXCEPT !.i = @ + 1])
        \/ /\ l.i = NumTracks \/ row \in track \/ MayFail
           /\ UNCHANGED track /\ Goes(u, "find", [l EXCEPT !.i = 0])

-----------------------------------------------------------------------------
\* find_cds, get_cd and get_cd_tracks.

\* The rows of cd whose artist is there: the join of the two tables.
Joined == {c \in cd : \E a \in artist : a.id = c.artist_id}

Listed(rows) == SetToSortSeq({c.id : c \in rows}, <)

FirstOf(found) == IF found = <<>> THEN NoCd ELSE Head(found)

\* app_test takes the first one it finds, on_search_button_clicked shows them.
\* There a failed query leaves num_rows as it was on the stack.
find_cds(u) ==
  /\ NoTable /\ UNCHANGED addFailed
  /\ \/ /\ Sends(u, "find") /\ UNCHANGED tree
        /\ \/ LET found == Listed({c \in Joined : c.symphony}) IN
                Goes(u, "count users", [local[u] EXCEPT !.cd_id = FirstOf(found)])
           \/ MayFail /\ Goes(u, "count users", [local[u] EXCEPT !.cd_id = NoCd])
     \/ /\ Sends(u, "gtk_main") /\ UNCHANGED tree
        /\ \/ \E rows \in SUBSET Joined :
                Goes(u, "get cd", [local[u] EXCEPT !.found = Listed(rows), !.i = 0,
                                                   !.rows = Cardinality(rows)])
           \/ /\ MayFail
              /\ \E garbage \in 0 .. MAX_CD_RESULT + 1 :
                   Goes(u, "get cd", [local[u] EXCEPT !.found = <<>>, !.i = 0,
                                                      !.rows = garbage])

ResultOf(l, i) == IF i < Len(l.found) THEN l.found[i + 1] ELSE NoCd

More(l) == l.i < l.rows /\ l.i < MAX_CD_RESULT

\* A row of the tree: the CD, or blanks when get_cd returned 0.
get_cd(u) ==
  /\ Sends(u, "get cd") /\ NoTable /\ UNCHANGED addFailed
  /\ LET l == local[u]  id == ResultOf(l, l.i) IN
       /\ More(l)
       /\ \E shown \in (IF \E c \in Joined : c.id = id THEN {id} ELSE {NoCd})
                         \cup (IF MayFail THEN {NoCd} ELSE {}) :
            tree' = [tree EXCEPT ![u] = Append(@, [cd |-> shown, tracksOf |-> NoCd])]
       /\ Goes(u, "get tracks", l)

\* Mutant of get_cd_tracks: the index is increased before it is used.
get_next_tracks(u) ==
  /\ Sends(u, "get tracks") /\ NoTable /\ UNCHANGED addFailed
  /\ LET l == local[u] IN
       /\ tree' = [tree EXCEPT ![u] =
             [@ EXCEPT ![Len(@)].tracksOf = ResultOf(l, l.i + 1)]]
       /\ Goes(u, "get cd", [l EXCEPT !.i = @ + 1])

\* The children of that row: the tracks, none when the query fails.
get_cd_tracks(u) ==
  /\ Sends(u, "get tracks") /\ NoTable /\ UNCHANGED addFailed
  /\ LET l == local[u]  id == ResultOf(l, l.i) IN
       /\ \E of \in {id} \cup (IF MayFail THEN {NoCd} ELSE {}) :
            tree' = [tree EXCEPT ![u] =
              [@ EXCEPT ![Len(@)].tracksOf =
                  IF \E t \in track : t.cd_id = of THEN of ELSE NoCd]]
       /\ Goes(u, "get cd", [l EXCEPT !.i = @ + 1])

\* The rows are shown until the next search, which makes a tree store of its own.
SearchEnds(u) ==
  /\ Sends(u, "get cd") /\ ~More(local[u]) /\ NoTable /\ UNCHANGED addFailed
  /\ tree' = [tree EXCEPT ![u] = <<>>]
  /\ Goes(u, "gtk_main", [local[u] EXCEPT !.found = <<>>, !.rows = 0, !.i = 0])

-----------------------------------------------------------------------------
\* delete_cd.  Any failed DELETE but the last returns 0.

CountUsersOfArtist(u) ==
  /\ Sends(u, "count users") /\ NoTable /\ NoTree
  /\ LET l    == local[u]
         mine == {c.artist_id : c \in {c \in cd : c.id = l.cd_id}}
         rows == {c \in cd : c.artist_id \in mine}
     IN \/ Goes(u, "delete tracks",
                [l EXCEPT !.artist_id = IF Cardinality(rows) = 1 THEN Max(mine) ELSE NoCd])
        \/ MayFail /\ Goes(u, "delete tracks", [l EXCEPT !.artist_id = NoCd])

TestEnds(u) == Goes(u, "none", NewLocal("none"))

\* Mutant of DeleteTracks: its failure is not checked.
DeleteTracksAnyway(u) ==
  /\ Sends(u, "delete tracks") /\ UNCHANGED <<artist, cd, autoId>> /\ NoTree
  /\ \/ /\ track' = {t \in track : t.cd_id # local[u].cd_id}
        /\ Goes(u, "delete cd", local[u])
     \/ MayFail /\ UNCHANGED track /\ Goes(u, "delete cd", local[u])

DeleteTracks(u) ==
  /\ Sends(u, "delete tracks") /\ UNCHANGED <<artist, cd, autoId>> /\ NoTree
  /\ \/ /\ track' = {t \in track : t.cd_id # local[u].cd_id}
        /\ Goes(u, "delete cd", local[u])
     \/ MayFail /\ UNCHANGED track /\ TestEnds(u)

\* Mutant of DeleteCd: its failure is not checked.
DeleteCdAnyway(u) ==
  /\ Sends(u, "delete cd") /\ UNCHANGED <<artist, track, autoId>> /\ NoTree
  /\ \/ cd' = {c \in cd : c.id # local[u].cd_id} /\ Goes(u, "delete artist", local[u])
     \/ MayFail /\ UNCHANGED cd /\ Goes(u, "delete artist", local[u])

DeleteCd(u) ==
  /\ Sends(u, "delete cd") /\ UNCHANGED <<artist, track, autoId>> /\ NoTree
  /\ \/ cd' = {c \in cd : c.id # local[u].cd_id} /\ Goes(u, "delete artist", local[u])
     \/ MayFail /\ UNCHANGED cd /\ TestEnds(u)

\* The last call of app_test but database_end.
DeleteArtist(u) ==
  /\ Sends(u, "delete artist") /\ UNCHANGED <<cd, track, autoId>> /\ NoTree /\ TestEnds(u)
  /\ \/ artist' = {a \in artist : a.id # local[u].artist_id}
     \/ MayFail /\ UNCHANGED artist

add_cd(u) ==
  \/ SelectArtist(u) \/ InsertArtist(u) \/ SelectArtistId(u) \/ InsertCd(u) \/ SelectCdId(u)

delete_cd(u) ==
  CountUsersOfArtist(u) \/ DeleteTracks(u) \/ DeleteCd(u) \/ DeleteArtist(u)

SqlNext ==
  \E u \in SqlUsers :
    \/ StartAppTest(u) \/ LogOn(u) \/ on_addcd_activate(u) \/ addcd_dialog_button_clicked(u)
    \/ quit_app(u) \/ add_cd(u) \/ InsertTrack(u) \/ find_cds(u) \/ get_cd(u)
    \/ get_cd_tracks(u) \/ SearchEnds(u) \/ delete_cd(u)

SqlSpec == SqlInit /\ [][SqlNext]_sqlVars

-----------------------------------------------------------------------------

\* Whichever statements fail, one user's CDs keep their artist: delete_cd removes
\* it after the only CD that has it (265-304).  An artist_id that is no id (0 or
\* -1) is that of an add whose artist was refused (107-123).
ArtistsAreKept ==
  \A c \in cd : c.artist_id > 0 => \E a \in artist : a.id = c.artist_id

\* The tracks are those of CDs on file and numbered without a gap, wherever
\* add_tracks or delete_cd stopped (126-147, 283-294), unless add_cd returned 0
\* and app_test went on with a cd_id it did not get.
TracksHaveCd ==
  ~addFailed => \A t \in track :
    /\ \E c \in cd : c.id = t.cd_id
    /\ \A n \in 1 .. t.track_id : [cd_id |-> t.cd_id, track_id |-> n] \in track

\* After a search the tree has as many rows as were announced, at most the size
\* of the result; each row is blank or the CD of that place of the result, and
\* its tracks are those of the same CD (chap16 callbacks.c 95-131).
TreeIsOfResult ==
  \A u \in SqlUsers : LET l == local[u] IN sqlPc[u] = "get cd" /\ ~More(l) =>
    /\ Len(tree[u]) = IF l.rows < MAX_CD_RESULT THEN l.rows ELSE MAX_CD_RESULT
    /\ \A i \in DOMAIN tree[u] : /\ tree[u][i].cd \in {ResultOf(l, i - 1), NoCd}
                                 /\ tree[u][i].tracksOf \in {ResultOf(l, i - 1), NoCd}

\* The three tables refer to one another, and the tree shows one result of them.
SqlInv == ArtistsAreKept /\ TracksHaveCd /\ TreeIsOfResult
================================================================================
