------------------------------- MODULE CursesApp -------------------------------
(***************************************************************************)
(* ch06, curses_app.c: the CD catalogue as two text files, a line for each *)
(* title and each track, and one user in front of a menu.  Lines that      *)
(* begin with the catalogue number of the current CD are removed by        *)
(* copying the others to a third file, which then takes the name.  A step  *)
(* is one answer of the user or one call on the files; the program may be  *)
(* killed at any point and started again.  fopen may fail where the code    *)
(* goes on without the file; a file that is there can be read, unlinked and *)
(* renamed.                                                                *)
(***************************************************************************)
EXTENDS Integers, Sequences, FiniteSets

CONSTANTS CatalogNos, IsPrefixOfCat, \* the numbers, and which one begins with which
          CdTitles,            \* the titles besides the empty one
          Searches,            \* a text to search is the set of titles it is in
          MaxTitles, MaxTracks, \* bounds on the lines of titles.cdb and one CD's tracks
          BOXED_LINES

\* No CD is selected: current_cd[0] is '\0'.
NoTitle == ""

ASSUME CursesAssumption ==
  /\ IsPrefixOfCat \subseteq CatalogNos \X CatalogNos
  /\ \A c \in CatalogNos : <<c, c>> \in IsPrefixOfCat
  /\ NoTitle \notin CdTitles /\ Searches \subseteq SUBSET (CdTitles \cup {NoTitle})
  /\ {MaxTitles, MaxTracks, BOXED_LINES} \subseteq Nat

VARIABLES
  disk,          \* titles.cdb, tracks.cdb and cdb.tmp: whether it is there, its lines
  current_cd, current_cat, selected_row,
  cursesPc,      \* where the program is
  task, file,    \* "remove" or "update", and the file that is rewritten
  rewriting, kept, \* temp_file is in use; the lines copied to it
  shown,         \* first_line of list_tracks, or the track to enter in update_cd
  wasKilled,     \* history: the program was killed once
  unwritten      \* history: the lines that insert_title could not write

cursesVars == <<disk, current_cd, current_cat, selected_row, cursesPc, task, file,
                rewriting, kept, shown, wasKilled, unwritten>>

rewriteVars == <<task, file, rewriting, kept>>
historyVars == <<wasKilled, unwritten>>

NoFile    == [there |-> FALSE, lines |-> <<>>]
File(s)   == [there |-> TRUE, lines |-> s]
LinesOf(f) == disk[f].lines

main_menu     == <<"add", "find", "count", "quit">>
extended_menu == <<"add", "find", "count", "list", "remove", "update", "quit">>

CursesInit ==
  /\ disk = [f \in {"titles", "tracks", "temp"} |-> NoFile]
  /\ current_cd = NoTitle /\ current_cat \in CatalogNos /\ selected_row = 0
  /\ cursesPc = "menu" /\ task = "remove" /\ file = "titles"
  /\ rewriting = FALSE /\ kept = <<>> /\ shown = 0 /\ wasKilled = FALSE /\ unwritten = {}

Menu(cd) == IF cd # NoTitle THEN extended_menu ELSE main_menu

\* strncmp over the length of current_cat.
OfCurrent(line) == <<current_cat, line.cat>> \in IsPrefixOfCat

\* The loops over a file: the lines of s that are in S, in their order.
Among(s, S) ==
  LET upTo[i \in 0 .. Len(s)] ==
        IF i = 0 THEN <<>> ELSE IF s[i] \in S THEN Append(upTo[i - 1], s[i]) ELSE upTo[i - 1]
  IN upTo[Len(s)]

LinesIn(f)     == {LinesOf(f)[i] : i \in DOMAIN LinesOf(f)}
CurrentTracks  == Among(LinesOf("tracks"), {line \in LinesIn("tracks") : OfCurrent(line)})
OtherLines(f)  == Among(LinesOf(f), {line \in LinesIn(f) : ~OfCurrent(line)})
TitledAs(match) == Among(LinesOf("titles"), {line \in LinesIn("titles") : line.title \in match})

\* Mutant of ToMainMenu: no protection against the menu getting shorter.
ToMainMenuSameRow(cd) == current_cd' = cd /\ cursesPc' = "menu" /\ UNCHANGED selected_row

\* Back to main, and into getchoice.
ToMainMenu(cd) ==
  /\ current_cd' = cd /\ cursesPc' = "menu"
  /\ selected_row' = IF selected_row >= Len(Menu(cd)) THEN 0 ELSE selected_row

GoTo(pc) == cursesPc' = pc /\ UNCHANGED <<current_cd, selected_row>>

Chosen(option) == cursesPc = "menu" /\ Menu(current_cd)[selected_row + 1] = option

-----------------------------------------------------------------------------
\* The menu.

getchoice ==
  /\ cursesPc = "menu"
  /\ LET max_row == Len(Menu(current_cd)) IN
       \/ selected_row' = (selected_row + 1) % max_row             \* KEY_DOWN
       \/ selected_row' = (selected_row + max_row - 1) % max_row   \* KEY_UP
  /\ UNCHANGED <<disk, current_cd, current_cat, cursesPc, rewriteVars, shown, historyVars>>

\* q, or Return on the last row.
QuitCurses ==
  /\ cursesPc = "menu" /\ GoTo("ended")
  /\ UNCHANGED <<disk, current_cat, rewriteVars, shown, historyVars>>

\* insert_title, which may fail to open the file and says so, and the selection
\* of the new CD in both cases; or "Cancelled".
add_record ==
  /\ Chosen("add") /\ UNCHANGED <<rewriteVars, shown, wasKilled>>
  /\ \/ \E cat \in CatalogNos, title \in CdTitles \cup {NoTitle} :
          LET line == [cat |-> cat, title |-> title] IN
          /\ \/ /\ Len(LinesOf("titles")) < MaxTitles /\ UNCHANGED unwritten
                /\ disk' = [disk EXCEPT !["titles"] = File(Append(@.lines, line))]
             \/ unwritten' = unwritten \cup {line} /\ UNCHANGED disk
          /\ current_cat' = cat /\ ToMainMenu(title)
     \/ ToMainMenu(current_cd) /\ UNCHANGED <<disk, current_cat, unwritten>>

count_cds ==
  /\ Chosen("count") /\ ToMainMenu(current_cd)
  /\ UNCHANGED <<disk, current_cat, rewriteVars, shown, historyVars>>

\* Mutant of find_cd: the last match stays selected when there are several.
find_cd_last ==
  /\ Chosen("find") /\ UNCHANGED <<disk, rewriteVars, shown, historyVars, current_cat>>
  /\ \E match \in Searches :
       LET found == TitledAs(match)
           count == Len(found)
       IN ToMainMenu(IF count = 0 THEN NoTitle ELSE found[count].title)

\* Every match is copied to current_cd and current_cat; only one is a selection.
find_cd ==
  /\ Chosen("find") /\ UNCHANGED <<disk, rewriteVars, shown, historyVars>>
  /\ \E match \in Searches :
       LET found == TitledAs(match)
           count == Len(found)
       IN /\ current_cat' = IF count = 0 THEN current_cat ELSE found[count].cat
          /\ ToMainMenu(IF count # 1 THEN NoTitle ELSE found[1].title)

-----------------------------------------------------------------------------
\* list_tracks: the pad and its first line on the screen.

list_tracks ==
  /\ Chosen("list") /\ UNCHANGED <<disk, current_cat, rewriteVars, historyVars>>
  /\ \/ ~disk["tracks"].there /\ ToMainMenu(current_cd) /\ UNCHANGED shown
     \/ disk["tracks"].there /\ GoTo("list") /\ shown' = 0

\* KEY_UP and KEY_DOWN; the screen has BOXED_LINES + 1 lines of the pad.
ScrollTracks ==
  /\ cursesPc = "list" /\ GoTo("list") /\ UNCHANGED <<disk, current_cat, rewriteVars, historyVars>>
  /\ \/ shown > 0 /\ shown' = shown - 1
     \/ shown + BOXED_LINES + 1 < Len(CurrentTracks) /\ shown' = shown + 1

LeaveList ==
  /\ cursesPc = "list" /\ ToMainMenu(current_cd) /\ shown' = 0
  /\ UNCHANGED <<disk, current_cat, rewriteVars, historyVars>>

-----------------------------------------------------------------------------
\* remove_cd and update_cd.  Each asks first.

\* Mutant of Confirm: update_cd does not remove the old tracks.
ConfirmAppend ==
  /\ \E option \in {"remove", "update"} :
       /\ Chosen(option) /\ task' = option
       /\ \/ GoTo(IF option = "update" THEN "append" ELSE "open")
          \/ ToMainMenu(current_cd)
       /\ file' = IF option = "remove" THEN "titles" ELSE "tracks"
  /\ UNCHANGED <<disk, current_cat, rewriting, kept, shown, historyVars>>

Confirm ==
  /\ \E option \in {"remove", "update"} :
       /\ Chosen(option) /\ task' = option
       /\ GoTo("open") \/ ToMainMenu(current_cd)
       /\ file' = IF option = "remove" THEN "titles" ELSE "tracks"
  /\ UNCHANGED <<disk, current_cat, rewriting, kept, shown, historyVars>>

\* remove_tracks returns: to remove_cd, which selects no CD, or to update_cd.
AfterTracks == IF task = "remove" THEN ToMainMenu(NoTitle) ELSE GoTo("append")

\* Mutant of OpenTemp: temp_fp is not closed before the files change names.
OpenTempOnly ==
  /\ cursesPc = "open" /\ UNCHANGED <<current_cat, task, file, shown, historyVars>>
  /\ \/ /\ file = "tracks" /\ ~disk[file].there /\ AfterTracks
        /\ UNCHANGED <<disk, rewriting, kept>>
     \/ /\ disk[file].there /\ GoTo("unlink") /\ rewriting' = TRUE
        /\ disk' = [disk EXCEPT !["temp"] = File(<<>>)]
        /\ kept' = OtherLines(file)

\* Both fopens, and the loop that copies into the buffer of temp_fp.  There may
\* be no tracks file yet: remove_tracks returns.
OpenTemp ==
  /\ cursesPc = "open" /\ UNCHANGED <<current_cat, task, file, shown, historyVars>>
  /\ \/ /\ file = "tracks" /\ ~disk[file].there /\ AfterTracks
        /\ UNCHANGED <<disk, rewriting, kept>>
     \/ /\ disk[file].there /\ GoTo("close") /\ rewriting' = TRUE
        /\ disk' = [disk EXCEPT !["temp"] = File(<<>>)]
        /\ kept' = OtherLines(file)

\* The CD could be selected but not written, and there is no titles file: remove_cd
\* goes on to read the stream that fopen did not return.
ReadNoTitles ==
  /\ cursesPc = "open" /\ file = "titles" /\ ~disk["titles"].there
  /\ disk' = [disk EXCEPT !["temp"] = File(<<>>)]
  /\ GoTo("killed") /\ wasKilled' = TRUE
  /\ UNCHANGED <<current_cat, rewriteVars, shown, unwritten>>

CloseTemp ==
  /\ cursesPc = "close" /\ GoTo("unlink")
  /\ disk' = [disk EXCEPT !["temp"] = File(kept)]
  /\ UNCHANGED <<current_cat, rewriteVars, shown, historyVars>>

UnlinkFile ==
  /\ cursesPc = "unlink" /\ GoTo("rename")
  /\ disk' = [disk EXCEPT ![file] = NoFile]
  /\ UNCHANGED <<current_cat, rewriteVars, shown, historyVars>>

\* Mutant of RenameTemp: remove_cd ends without remove_tracks.
RenameAndReturn ==
  /\ cursesPc = "rename" /\ rewriting' = FALSE /\ kept' = <<>>
  /\ disk' = [disk EXCEPT ![file] = disk["temp"], !["temp"] = NoFile]
  /\ AfterTracks /\ UNCHANGED <<current_cat, shown, task, file, historyVars>>

RenameTemp ==
  /\ cursesPc = "rename" /\ rewriting' = FALSE /\ kept' = <<>>
  /\ disk' = [disk EXCEPT ![file] = disk["temp"], !["temp"] = NoFile]
  /\ IF file = "titles" THEN file' = "tracks" /\ GoTo("open")
                        ELSE UNCHANGED file /\ AfterTracks
  /\ UNCHANGED <<current_cat, shown, task, historyVars>>

\* fopen creates the file; then the windows, which may not fit the terminal.
OpenTracks ==
  /\ cursesPc = "append"
  /\ disk' = [disk EXCEPT !["tracks"] = File(@.lines)]
  /\ \/ GoTo("type") /\ shown' = 1
     \/ ToMainMenu(current_cd) /\ UNCHANGED shown
  /\ UNCHANGED <<current_cat, rewriteVars, historyVars>>

EnterTrackTitle ==
  /\ cursesPc = "type" /\ shown <= MaxTracks /\ shown' = shown + 1 /\ GoTo("type")
  /\ UNCHANGED <<disk, current_cat, rewriteVars, historyVars>>

\* The blank line; the tracks were in the buffer of tracks_fp until fclose.
BlankLine ==
  /\ cursesPc = "type" /\ ToMainMenu(current_cd) /\ shown' = 0
  /\ disk' = [disk EXCEPT !["tracks"].lines =
                @ \o [track \in 1 .. shown - 1 |-> [cat |-> current_cat, track |-> track]]]
  /\ UNCHANGED <<current_cat, rewriteVars, historyVars>>

-----------------------------------------------------------------------------

Killed ==
  /\ cursesPc \notin {"killed", "ended"} /\ GoTo("killed") /\ wasKilled' = TRUE /\ shown' = 0
  /\ UNCHANGED <<disk, current_cat, rewriteVars, unwritten>>

Start ==
  /\ cursesPc \in {"killed", "ended"} /\ rewriting' = FALSE /\ kept' = <<>>
  /\ cursesPc' = "menu" /\ current_cd' = NoTitle /\ selected_row' = 0
  /\ UNCHANGED <<disk, current_cat, task, file, shown, historyVars>>

CursesNext ==
  \/ getchoice \/ QuitCurses \/ add_record \/ count_cds \/ find_cd
  \/ list_tracks \/ ScrollTracks \/ LeaveList
  \/ Confirm \/ OpenTemp \/ ReadNoTitles \/ CloseTemp \/ UnlinkFile \/ RenameTemp
  \/ OpenTracks \/ EnterTrackTitle \/ BlankLine
  \/ Killed \/ Start

CursesSpec == CursesInit /\ [][CursesNext]_cursesVars

-----------------------------------------------------------------------------

\* The highlighted row is one of the menu that is shown, which gets shorter
\* when the CD is gone (206-231), and the part of the pad that is shown ends
\* with the last track at most (620, 656).
ScreenInRange ==
  /\ cursesPc = "menu" => selected_row \in 0 .. Len(Menu(current_cd)) - 1
  /\ cursesPc = "list" /\ shown > 0 => shown + BOXED_LINES + 1 <= Len(CurrentTracks)

\* The CD that the extended menu works on is in the titles file: under the
\* number and the title it was selected with, after any searches, additions,
\* removals and restarts (417, 482, 495, 572).  The exception is one that
\* insert_title could not write: add_record selects it all the same (347, 416).
SelectedIsOnFile ==
  cursesPc = "menu" /\ current_cd # NoTitle =>
    LET line == [cat |-> current_cat, title |-> current_cd] IN
    line \in LinesIn("titles") \cup unwritten

\* Wherever the program is killed while it rewrites a file, the lines of the
\* other CDs are on the disk, under the file's name or the temporary one
\* (521-530, 556-566).
KeptOnDisk ==
  rewriting =>
    \/ disk[file].there /\ kept = OtherLines(file)
    \/ ~disk[file].there /\ disk["temp"] = File(kept)

\* The tracks of a number are numbered 1, 2, ... in the order of the file, also
\* after updates that were cancelled or cut off (696-738).
TracksNumbered ==
  LET lines == LinesOf("tracks") IN
  \A i \in DOMAIN lines :
    lines[i].track = Cardinality({j \in 1 .. i : lines[j].cat = lines[i].cat})

\* Unless the program was killed, each track has a title with its number:
\* remove_cd removes both by the same rule (558, 569, 523).  Tracks may also be
\* entered for a CD that insert_title could not write, and then keep no title.
TracksHaveTitle ==
  ~wasKilled /\ cursesPc = "menu" =>
    \A track \in LinesIn("tracks") : \E line \in LinesIn("titles") \cup unwritten :
      track.cat = line.cat

\* "remove_cd - delete the current CD from the database" (534), "Compare catalog
\* number and copy entry if no match" (557): a line with another number is kept.
RemovesOnlyCurrent ==
  rewriting /\ disk[file].there =>
    \A i \in DOMAIN LinesOf(file) : LinesOf(file)[i].cat # current_cat =>
      \E k \in DOMAIN kept : kept[k] = LinesOf(file)[i]

\* The files and the selection agree: the four above and what is kept on the disk.
CursesInv == /\ ScreenInRange /\ SelectedIsOnFile /\ KeptOnDisk
             /\ TracksNumbered /\ TracksHaveTitle
================================================================================
