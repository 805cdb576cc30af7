-------------------------------- MODULE MCData --------------------------------
(***************************************************************************)
(* Model checking of the data structures and of the programs on files, a   *)
(* database or memory of their own.  They share nothing with one another:  *)
(* a behaviour is one of theirs, chosen in the initial state.  What the    *)
(* others could choose is fixed, and they do not move.                     *)
(***************************************************************************)
EXTENDS RingTest, Rings, SList, UnaryCalc, CursesApp, CdMySql, WebPages, CdLocal,
        CdUi, SigSlot

CONSTANTS r1, r2, c1, c2, some, u1, u2

MCCapacity  == r1 :> 2 @@ r2 :> 1
MCCells     == 1 .. 3
MCPositions == {-1, 0, 1, 2}
MCPrefixes  == {<<"1", "1">>, <<"12", "12">>, <<"1", "12">>}
MCSearches  == {{"a"}, {"a", ""}}
MCListing   == <<"self", "p1", "p2", "p3">>
MCTexts     == {{"a1"}, {"a1", "a2"}}

\* One signal and two objects or two signals and one object, one of the two maybe copied.
MCLives ==
  {[x \in Signals \cup Receivers |->
      IF x = gone THEN "dead" ELSE IF x = made THEN "none" ELSE "live"] :
     gone \in {"s2", "o2"}, made \in {"s2", "o2", "nothing"}}

MCTrackNos  == 1 .. MaxTrack + 1
MCPatterns  == {AnyText, some}
MCOccurs    == [s \in MCPatterns |-> IF s = AnyText THEN Catalogs ELSE {c1}]

VARIABLE program

Programs == {"ring2", "test", "slist", "ring3", "ring1", "calculator", "curses", "mysql",
             "pages", "local", "ui", "sigslot"}

dataVars == <<ringVars, ringTestVars, sListVars, smallRingVars, unaryVars, cursesVars, sqlVars,
              pageVars, localVars, uiVars, sigVars, program>>

\* The arrays of the unit test are only made for the unit test.
NoRingTest ==
  ring = <<>> /\ rdfd = 0 /\ wrfd = 0 /\ dst = <<>> /\ step = 0 /\ passed = TRUE

DataInit ==
  /\ program \in Programs
  /\ program # "curses" => current_cat = "1"
  /\ program # "pages" => module = "issue" /\ rssPages = [p \in Pids |-> 3]
  /\ life \in MCLives /\ (program # "sigslot" => life["s2"] = "dead" /\ life["o2"] = "live")
  /\ team \in {{u1}, Users} /\ (program # "ui" => team = {u1})
  /\ RingInit /\ SListInit /\ SmallRingsInit /\ UnaryCalcInit
  /\ IF program = "test" THEN RingTestInit ELSE NoRingTest
  /\ CursesInit /\ SqlInit /\ PagesInit /\ LocalInit /\ UiInit /\ SigInit

Only(p) ==
  /\ program = p /\ UNCHANGED program
  /\ p # "ring2"      => UNCHANGED ringVars
  /\ p # "test"       => UNCHANGED ringTestVars
  /\ p # "slist"      => UNCHANGED sListVars
  /\ p \notin {"ring1", "ring3"} => UNCHANGED smallRingVars
  /\ p # "calculator" => UNCHANGED unaryVars
  /\ p # "curses"     => UNCHANGED cursesVars
  /\ p # "mysql"      => UNCHANGED sqlVars
  /\ p # "pages"      => UNCHANGED pageVars
  /\ p # "local"      => UNCHANGED localVars
  /\ p # "ui"         => UNCHANGED uiVars
  /\ p # "sigslot"    => UNCHANGED sigVars

\* Both users have one catalogue entry between them, and fewer searches.
UsersStep ==
  /\ UiNext
  /\ team = Users => db'.cdc[c2] = Absent /\ \A u \in Users : matching'[u] <= 2

\* At most one title cannot be written, and it has the shorter number.
CursesStep == CursesNext /\ unwritten' \subseteq {[cat |-> "1", title |-> "a"]}

\* At most three tracks: those of one CD and one of another.
SqlStep == SqlNext /\ Cardinality(track') <= 3

DataNext ==
  \/ Only("ring2") /\ RingNext
  \/ Only("test") /\ RingTestNext
  \/ Only("slist") /\ SListNext
  \/ Only("ring3") /\ Ring3Next
  \/ Only("ring1") /\ Ring1Next
  \/ Only("calculator") /\ UnaryCalcNext
  \/ Only("curses") /\ CursesStep
  \/ Only("mysql") /\ SqlStep
  \/ Only("pages") /\ PagesNext
  \/ Only("local") /\ LocalNext
  \/ Only("ui") /\ UsersStep
  \/ Only("sigslot") /\ SigNext

DataSpec == DataInit /\ [][DataNext]_dataVars
===============================================================================
