--------------------------------- MODULE CdUi ---------------------------------
(***************************************************************************)
(* The users of the CD application: app_ui.c, with the client side of a    *)
(* search (search_cdc_entry of clientif.c), one process per user on one    *)
(* database.  A step is one call of an access function of cd_data.h with   *)
(* the code and the user's decisions up to the next one; CdPipe and        *)
(* CdQueue show that such a call is atomic (CdService).                    *)
(*                                                                         *)
(* A catalogue name typed by a user has 1 to 29 characters here: longer    *)
(* ones are cut by enter_new_cat_entry, and the empty one, which hangs the *)
(* server in the next search for "", is in CdPipe.                         *)
(***************************************************************************)
EXTENDS CdDbm, Naturals

CONSTANTS
  Users,
  MaxTrack,  \* bound on the track number a user types a text for
  AnyText,   \* the search string "", which occurs in every name
  MaxMatching, \* bound on entries_matching, which grows with every search
               \* that is given up
  MayDie     \* whether a user's program may be killed

ASSUME CdUiAssumption ==
  /\ MaxTrack \in Nat /\ MaxMatching \in Nat
  /\ TrackNos = 1 .. MaxTrack + 1
  /\ AnyText \in Patterns \ TooLong /\ Occurs[AnyText] = Catalogs
  /\ Empty \notin Catalogs
  /\ MayDie \in BOOLEAN /\ IsFiniteSet(Users)

VARIABLES
  team,      \* the users that there are
  db,
  upc,       \* where the program of u is
  cur,       \* current_cdc_entry.catalog, Empty when nothing is selected
  track_no,
  there,     \* existing_track.catalog[0] # '\0'
  work_file, \* the matches in the file that were not read yet
  matching,  \* entries_matching, which is static
  item,      \* item_found or cdc_found
  cds, tracks, \* cd_entries_found, track_entries_found
  \* history
  asked,     \* the matches of the last search
  offered,   \* those the search has returned
  torn       \* catalogue names whose tracks two users changed at a time, or
             \* one whose program was killed while it deleted some

entryVars  == <<track_no, there>>
searchVars == <<work_file, matching, item, asked, offered>>
countVars  == <<cds, tracks>>
uiVars == <<team, db, upc, cur, entryVars, searchVars, countVars, torn>>

UPc == {"menu", "get", "ask", "deltracks", "delcat", "delcdc", "offer",
        "count", "counted", "gone"}

UiTypeOK ==
  /\ team \subseteq Users
  /\ db \in Databases
  /\ upc \in [Users -> UPc]
  /\ cur \in [Users -> Catalogs \cup {Empty}]
  /\ track_no \in [Users -> 1 .. MaxTrack + 1]
  /\ there \in [Users -> BOOLEAN]
  /\ work_file \in [Users -> SUBSET Catalogs]
  /\ matching \in [Users -> Nat]
  /\ item \in [Users -> Catalogs \cup {Empty}]
  /\ cds \in [Users -> Nat] /\ tracks \in [Users -> Nat]
  /\ asked \in [Users -> SUBSET Catalogs]
  /\ offered \in [Users -> SUBSET Catalogs]
  /\ torn \subseteq Catalogs

UiInit ==
  /\ team \in SUBSET Users
  /\ db = EmptyDb
  /\ upc = [u \in Users |-> "menu"]
  /\ cur = [u \in Users |-> Empty]
  /\ track_no = [u \in Users |-> 1]
  /\ there = [u \in Users |-> FALSE]
  /\ work_file = [u \in Users |-> {}]
  /\ matching = [u \in Users |-> 0]
  /\ item = [u \in Users |-> Empty]
  /\ cds = [u \in Users |-> 0] /\ tracks = [u \in Users |-> 0]
  /\ asked = [u \in Users |-> {}] /\ offered = [u \in Users |-> {}]
  /\ torn = {}

HasTrack(c, n) == db.cdt[<<c, n>>] # Absent

Goto(u, pc) == upc' = [upc EXCEPT ![u] = pc]

\* Back in the loop of main: the variables of the called function are gone.
ToMenu(u) ==
  /\ Goto(u, "menu")
  /\ track_no' = [track_no EXCEPT ![u] = 1]
  /\ there' = [there EXCEPT ![u] = FALSE]

NextTrack(u) == track_no' = [track_no EXCEPT ![u] = @ + 1]

\* The users in the middle of entering or deleting tracks of c.
Changing(c) ==
  {u \in Users : cur[u] = c /\ upc[u] \in {"get", "ask", "deltracks", "delcat",
                                           "delcdc"}}

-------------------------------------------------------------------------------
(* Catalogue entries and tracks.                                           *)

\* Menu entry 1: enter_new_cat_entry, confirmed, and add_cdc_entry.
AddCat(u) ==
  /\ upc[u] = "menu"
  /\ \E c \in Catalogs \ TooLong, t \in Titles :
       \E o \in add_cdc_entry(db, c, t) :
         /\ db' = o.db
         /\ cur' = [cur EXCEPT ![u] =
                      IF o.result.response = "r_success" THEN c ELSE Empty]
  /\ UNCHANGED <<upc, entryVars, searchVars, countVars, torn>>

\* Starts a loop over the tracks of the current entry at the place pc.
OverTracks(u, pc) ==
  /\ upc[u] = "menu"
  /\ cur[u] # Empty
  /\ track_no' = [track_no EXCEPT ![u] = 1]
  /\ Goto(u, pc)
  /\ torn' = IF Changing(cur[u]) # {} THEN torn \cup {cur[u]} ELSE torn
  /\ UNCHANGED <<db, cur, there, searchVars, countVars>>

\* Menu entry 4: enter_new_track_entries.
EnterTracks(u) == OverTracks(u, "get")

\* The get_cdt_entry of its loop.
GetTrack(u) ==
  /\ upc[u] = "get"
  /\ there' = [there EXCEPT ![u] = HasTrack(cur[u], track_no[u])]
  /\ Goto(u, "ask")
  /\ UNCHANGED <<db, cur, track_no, searchVars, countVars, torn>>

\* The user just presses return: the existing track stays, or the loop ends.
KeepTrack(u) ==
  /\ upc[u] = "ask"
  /\ IF there[u]
     THEN /\ track_no[u] <= MaxTrack
          /\ NextTrack(u)
          /\ Goto(u, "get")
          /\ UNCHANGED there
     ELSE ToMenu(u)
  /\ UNCHANGED <<db, cur, searchVars, countVars, torn>>

\* The user types a text: add_cdt_entry.
TypeTrack(u) ==
  /\ upc[u] = "ask"
  /\ track_no[u] <= MaxTrack
  /\ \E x \in Texts : \E o \in add_cdt_entry(db, cur[u], track_no[u], x) :
       /\ db' = o.db
       /\ IF o.result.response = "r_success"
          THEN NextTrack(u) /\ Goto(u, "get") /\ UNCHANGED there
          ELSE ToMenu(u)
  /\ UNCHANGED <<cur, searchVars, countVars, torn>>

\* The user types d.
TypeD(u) ==
  /\ upc[u] = "ask"
  /\ Goto(u, "deltracks")
  /\ UNCHANGED <<db, cur, entryVars, searchVars, countVars, torn>>

\* One turn of a loop that deletes tracks until it fails.
DeleteTrack(u, from, Finish) ==
  /\ upc[u] = from
  /\ \E o \in del_cdt_entry(db, cur[u], track_no[u]) :
       /\ db' = o.db
       /\ IF o.result.response = "r_success"
          THEN NextTrack(u) /\ UNCHANGED <<upc, there>>
          ELSE Finish
  /\ UNCHANGED <<cur, searchVars, countVars, torn>>

\* Mutant of DeleteRest: only this track is deleted.
DeleteOne(u) ==
  /\ upc[u] = "deltracks"
  /\ \E o \in del_cdt_entry(db, cur[u], track_no[u]) : db' = o.db
  /\ ToMenu(u)
  /\ UNCHANGED <<cur, searchVars, countVars, torn>>

\* The loop that a d starts.
DeleteRest(u) == DeleteTrack(u, "deltracks", ToMenu(u))

\* Menu entry 5, confirmed: del_cat_entry.
DelCat(u) == OverTracks(u, "delcat")

\* Its del_cdc_entry is next.
ToDelCdc(u) == Goto(u, "delcdc") /\ UNCHANGED <<track_no, there>>

\* Mutant of DelCatTracks: the loop ends after one track.
DelCatOneTrack(u) ==
  /\ upc[u] = "delcat"
  /\ \E o \in del_cdt_entry(db, cur[u], track_no[u]) : db' = o.db
  /\ ToDelCdc(u)
  /\ UNCHANGED <<cur, searchVars, countVars, torn>>

DelCatTracks(u) == DeleteTrack(u, "delcat", ToDelCdc(u))

\* Its del_cdc_entry.  The entry stays the current one.
DelCatEntry(u) ==
  /\ upc[u] = "delcdc"
  /\ \E o \in del_cdc_entry(db, cur[u]) : db' = o.db
  /\ ToMenu(u)
  /\ UNCHANGED <<cur, searchVars, countVars, torn>>

-------------------------------------------------------------------------------
(* Searches.                                                               *)

\* Mutant of ReturnMatch: entries_matching is counted down in any case.
ReturnMatchCounts(u, file, count, pc, done) ==
  /\ matching' = [matching EXCEPT ![u] = count - 1]
  /\ IF count = 0 \/ file = {}
     THEN /\ work_file' = [work_file EXCEPT ![u] = {}]
          /\ item' = [item EXCEPT ![u] = Empty]
          /\ Goto(u, done)
     ELSE \E c \in file :
            /\ work_file' = [work_file EXCEPT ![u] = file \ {c}]
            /\ item' = [item EXCEPT ![u] = c]
            /\ Goto(u, pc)

\* The end of search_cdc_entry in clientif.c, with count = entries_matching
\* and file = what is in work_file: a match is returned and the caller goes
\* on at pc; when there is none it goes to done.
ReturnMatch(u, file, count, pc, done) ==
  IF count = 0 \/ file = {}
  THEN /\ work_file' = [work_file EXCEPT ![u] = {}]
       /\ matching' = [matching EXCEPT ![u] = IF count = 0 THEN 0 ELSE count - 1]
       /\ item' = [item EXCEPT ![u] = Empty]
       /\ Goto(u, done)
  ELSE \E c \in file :
         /\ work_file' = [work_file EXCEPT ![u] = file \ {c}]
         /\ matching' = [matching EXCEPT ![u] = count - 1]
         /\ item' = [item EXCEPT ![u] = c]
         /\ Goto(u, pc)

\* Mutant of FirstMatch: the last match is not counted.
FirstMatchCountsLess(u, s, pc, done) ==
  LET found == Matching(db, s) IN
    /\ asked' = [asked EXCEPT ![u] = found]
    /\ ReturnMatch(u, found,
         IF found = {} THEN 0 ELSE Cardinality(found) - 1, pc, done)
    /\ offered' = [offered EXCEPT ![u] = {item'[u]} \ {Empty}]

\* A first call: the server sends what matches, and entries_matching is
\* counted up from its old value.
FirstMatch(u, s, pc, done) ==
  LET found == Matching(db, s)
      count == matching[u] + Cardinality(found) IN
    /\ count <= MaxMatching
    /\ asked' = [asked EXCEPT ![u] = found]
    /\ ReturnMatch(u, found, count, pc, done)
    /\ offered' = [offered EXCEPT ![u] = {item'[u]} \ {Empty}]

\* Mutant of NextMatch: the match before the last ends the search.
NextMatchButLast(u, pc, done) ==
  /\ ReturnMatch(u, IF Cardinality(work_file[u]) = 1 THEN {} ELSE work_file[u],
                 matching[u], pc, done)
  /\ offered' = [offered EXCEPT ![u] = @ \cup ({item'[u]} \ {Empty})]
  /\ UNCHANGED asked

\* A further call.
NextMatch(u, pc, done) ==
  /\ ReturnMatch(u, work_file[u], matching[u], pc, done)
  /\ offered' = [offered EXCEPT ![u] = @ \cup ({item'[u]} \ {Empty})]
  /\ UNCHANGED asked

\* The current entry after a search: nothing, when nothing was found.
Deselect(u) == cur' = IF item'[u] = Empty THEN [cur EXCEPT ![u] = Empty] ELSE cur

\* Menu entry 2: find_cat.
FindCat(u) ==
  /\ upc[u] = "menu"
  /\ \E s \in Patterns : FirstMatch(u, s, "offer", "menu")
  /\ Deselect(u)
  /\ UNCHANGED <<db, entryVars, countVars, torn>>

\* "This entry?" no.
RefuseMatch(u) ==
  /\ upc[u] = "offer"
  /\ NextMatch(u, "offer", "menu")
  /\ Deselect(u)
  /\ UNCHANGED <<db, entryVars, countVars, torn>>

\* "This entry?" yes: what is left in work_file is not read.
AcceptMatch(u) ==
  /\ upc[u] = "offer"
  /\ cur' = [cur EXCEPT ![u] = item[u]]
  /\ item' = [item EXCEPT ![u] = Empty]
  /\ asked' = [asked EXCEPT ![u] = {}]
  /\ offered' = [offered EXCEPT ![u] = {}]
  /\ Goto(u, "menu")
  /\ UNCHANGED <<db, entryVars, work_file, matching, countVars, torn>>

\* One more CD when the search has returned one.
CountCd(u, n) ==
  cds' = [cds EXCEPT ![u] = IF item'[u] = Empty THEN n ELSE n + 1]

\* Menu entry 3: count_all_entries, its search for "".
CountAll(u) ==
  /\ upc[u] = "menu"
  /\ FirstMatch(u, AnyText, "count", "counted")
  /\ CountCd(u, 0)
  /\ UNCHANGED <<db, cur, entryVars, tracks, torn>>

\* Its get_cdt_entry finds a track.
CountTrack(u) ==
  /\ upc[u] = "count"
  /\ HasTrack(item[u], track_no[u])
  /\ tracks' = [tracks EXCEPT ![u] = @ + 1]
  /\ NextTrack(u)
  /\ UNCHANGED <<db, upc, cur, there, searchVars, cds, torn>>

\* It finds none: on to the next CD.
CountNext(u) ==
  /\ upc[u] = "count"
  /\ ~HasTrack(item[u], track_no[u])
  /\ track_no' = [track_no EXCEPT ![u] = 1]
  /\ NextMatch(u, "count", "counted")
  /\ CountCd(u, cds[u])
  /\ UNCHANGED <<db, cur, there, tracks, torn>>

\* The counts have been printed.
Counted(u) ==
  /\ upc[u] = "counted"
  /\ cds' = [cds EXCEPT ![u] = 0]
  /\ tracks' = [tracks EXCEPT ![u] = 0]
  /\ Goto(u, "menu")
  /\ UNCHANGED <<db, cur, entryVars, searchVars, torn>>

-------------------------------------------------------------------------------

Leave(u) ==
  /\ upc' = [upc EXCEPT ![u] = "gone"]
  /\ UNCHANGED <<db, cur, entryVars, searchVars, countVars>>

Quit(u) == upc[u] = "menu" /\ Leave(u) /\ UNCHANGED torn

\* The program is killed, possibly in the middle of a loop.
Die(u) ==
  /\ MayDie
  /\ upc[u] # "gone"
  /\ Leave(u)
  /\ torn' = IF upc[u] \in {"deltracks", "delcat"} THEN torn \cup {cur[u]} ELSE torn

UserStep(u) ==
  \/ AddCat(u)
  \/ EnterTracks(u) \/ GetTrack(u) \/ KeepTrack(u) \/ TypeTrack(u)
  \/ TypeD(u) \/ DeleteRest(u)
  \/ DelCat(u) \/ DelCatTracks(u) \/ DelCatEntry(u)
  \/ FindCat(u) \/ RefuseMatch(u) \/ AcceptMatch(u)
  \/ CountAll(u) \/ CountTrack(u) \/ CountNext(u) \/ Counted(u)
  \/ Quit(u)

UiNext == (\E u \in team : UserStep(u) \/ Die(u)) /\ UNCHANGED team

UiSpec == UiInit /\ [][UiNext]_uiVars

-------------------------------------------------------------------------------
(* Properties.                                                             *)

TracksOf(c) == {n \in TrackNos : HasTrack(c, n)}

\* The tracks of an entry are numbered 1, 2, ... without a gap whenever nobody
\* changes them: every loop of app_ui.c that lists, counts or deletes tracks
\* stops at the first number that is missing.  Only two users at a time, or the
\* death of a program in a loop that deletes, can break this.
TracksHaveNoGap ==
  \A c \in Catalogs \ torn :
    Changing(c) = {} => TracksOf(c) = 1 .. Cardinality(TracksOf(c))

\* The same exceptions apart, del_cat_entry leaves no track of its entry.
DeleteIsComplete ==
  [][\A u \in Users :
       upc[u] = "delcdc" /\ upc'[u] = "menu" /\ cur[u] \notin torn =>
         TracksOf(cur[u])' = {}]_uiVars

\* find_cat offers every match of its search before it says "no more", although
\* entries_matching keeps what earlier searches left in it.
EveryMatchIsOffered == \A u \in Users : item[u] = Empty => offered[u] = asked[u]

\* What count_all_entries prints is what the database held when it printed.
CountIsExact ==
  \A u \in Users :
    upc[u] = "counted" =>
      LET present == {c \in Catalogs : db.cdc[c] # Absent} IN
        /\ cds[u] = Cardinality(present)
        /\ tracks[u] = Cardinality({k \in present \X TrackNos : db.cdt[k] # Absent})

\* What count_all_entries prints is what the database holds, for the user who is
\* alone (app_ui.c 434-460): with another it is not a count of any moment.
CountAloneIsExact == Cardinality(team) = 1 => CountIsExact

\* What the user interface counts, offers and numbers is what the database holds.
UiInv == UiTypeOK /\ EveryMatchIsOffered /\ CountAloneIsExact /\ TracksHaveNoGap

-------------------------------------------------------------------------------
(* What comments of the code say, and the code does not do.                *)

\* app_ui.c, del_cat_entry: "We never allow tracks for a non-existent catalog
\* entry to exist."
NoOrphanTracks ==
  \A c \in Catalogs :
    db.cdc[c] = Absent /\ Changing(c) = {} => TracksOf(c) = {}

================================================================================
