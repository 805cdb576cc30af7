-------------------------------- MODULE CdLocal --------------------------------
(***************************************************************************)
(* The first form of the CD application (ch07/app): app_ui.c on access.c,  *)
(* in one process, with the two dbm files.  A step is a call on a dbm file *)
(* with the code and the user's answers up to the next; each call may fail *)
(* and the program may be killed between two of them and started again,    *)
(* also with -i.  Of an entry its catalogue name is kept, of a track the   *)
(* name and number.                                                        *)
(***************************************************************************)
EXTENDS Naturals, FiniteSets

CONSTANTS
  Names,      \* the catalogue names typed: at most 29 characters; "" is none of them
  TextsSought, \* a search text is the set of the names it is in; "" is in all
  LastTrack   \* bound on the number of a track that is typed

\* No entry.
NoName == ""

ASSUME LocalAssumption ==
  NoName \notin Names /\ TextsSought \subseteq SUBSET Names /\ LastTrack \in Nat

VARIABLES
  cdc, cdt,       \* the names in cdc_data, the <<name, number>> in cdt_data
  current_entry,  \* current_cdc_entry.catalog
  localPc,        \* the next call
  trackNo,        \* track_no
  sought, keys,   \* the names with the text, the ones of the scan still to come
  found,          \* the entry that search_cdc_entry returned
  entriesFound, tracksFound,  \* what was found in this scan
  tornNames       \* history: names in whose deletion a call failed, or the kill came

files  == <<cdc, cdt, tornNames>>
scan   == <<sought, keys, found, entriesFound, tracksFound>>

localVars == <<files, current_entry, localPc, trackNo, scan>>

LocalInit ==
  /\ cdc = {} /\ cdt = {} /\ current_entry = NoName /\ localPc = "off" /\ trackNo = 1
  /\ sought = {} /\ keys = {} /\ found = NoName /\ entriesFound = 0 /\ tracksFound = 0
  /\ tornNames = {}

CallAt(pc) == localPc = pc
Call(pc)   == localPc' = pc

\* Back in the loop of main, whose functions have lost their variables.
Forgotten ==
  /\ trackNo' = 1 /\ sought' = {} /\ keys' = {} /\ found' = NoName
  /\ entriesFound' = 0 /\ tracksFound' = 0

Return == Call("menu") /\ Forgotten

-----------------------------------------------------------------------------
\* main, command_mode and database_initialize.

StartLocal ==
  /\ CallAt("off") /\ Call("open") /\ current_entry' = NoName
  /\ UNCHANGED <<files, scan, trackNo>>

\* The option -i.
StartNew ==
  /\ CallAt("off") /\ Call("unlink cdc") /\ current_entry' = NoName
  /\ UNCHANGED <<files, scan, trackNo>>

\* The names of both files of cdc_data, then those of cdt_data.
UnlinkOld ==
  /\ UNCHANGED <<current_entry, scan, trackNo>>
  /\ \/ CallAt("unlink cdc") /\ Call("unlink cdt") /\ cdc' = {} /\ UNCHANGED <<cdt, tornNames>>
     \/ CallAt("unlink cdt") /\ Call("open new") /\ cdt' = {} /\ tornNames' = {} /\ UNCHANGED cdc

\* Both dbm_open, or "unable to initialize".  With -i the program ends then.
OpenBoth ==
  /\ UNCHANGED <<files, scan, trackNo, current_entry>>
  /\ \/ CallAt("open") /\ (Call("menu") \/ Call("off"))
     \/ CallAt("open new") /\ Call("off")

QuitLocal ==
  /\ CallAt("menu") /\ Call("off") /\ UNCHANGED <<files, scan, trackNo, current_entry>>

-----------------------------------------------------------------------------
\* Entries and tracks.

\* DBM_REPLACE: the name may be there.
local_add_cdc_entry(name) == cdc' = cdc \cup {name} /\ current_entry' = name

\* The entry, confirmed; the current entry is gone when it is not stored.
enter_new_cat_entry ==
  /\ CallAt("menu") /\ Return /\ UNCHANGED <<cdt, tornNames>>
  /\ \E name \in Names :
       \/ local_add_cdc_entry(name)
       \/ current_entry' = NoName /\ UNCHANGED cdc

\* The choices of the longer menu.
ChooseEntry ==
  /\ CallAt("menu") /\ current_entry # NoName /\ trackNo' = 1
  /\ \E pc \in {"get", "delete all"} : Call(pc)
  /\ UNCHANGED <<files, scan, current_entry>>

\* The calls of access.c on the file of tracks, when they succeed.
ThisTrack     == <<current_entry, trackNo>>
local_get_cdt_entry == ThisTrack \in cdt
local_add_cdt_entry == cdt' = cdt \cup {ThisTrack}
local_del_cdt_entry == ThisTrack \in cdt /\ cdt' = cdt \ {ThisTrack}

\* Mutant of EnterTrack: the loop goes on when a track was not stored.
EnterTrackOn ==
  /\ CallAt("get") /\ UNCHANGED <<cdc, current_entry, tornNames>>
  /\ \/ ThisTrack \in cdt /\ Call("get") /\ trackNo' = trackNo + 1 /\ UNCHANGED <<cdt, scan>>
     \/ ~local_get_cdt_entry /\ Return /\ UNCHANGED cdt
     \/ /\ trackNo <= LastTrack /\ Call("get") /\ trackNo' = trackNo + 1
        /\ cdt' \in {cdt \cup {ThisTrack}, cdt} /\ UNCHANGED scan
     \/ Call("delete rest") /\ UNCHANGED <<cdt, trackNo, scan>>

\* get_cdt_entry, then Return alone, a text and add_cdt_entry, or d.
EnterTrack ==
  /\ CallAt("get") /\ UNCHANGED <<cdc, current_entry, tornNames>>
  /\ \/ ThisTrack \in cdt /\ Call("get") /\ trackNo' = trackNo + 1 /\ UNCHANGED <<cdt, scan>>
     \/ ~local_get_cdt_entry /\ Return /\ UNCHANGED cdt
     \/ /\ trackNo <= LastTrack /\ Call("get") /\ trackNo' = trackNo + 1
        /\ local_add_cdt_entry /\ UNCHANGED scan
     \/ Return /\ UNCHANGED cdt                                 \* it was not stored
     \/ Call("delete rest") /\ UNCHANGED <<cdt, trackNo, scan>>

\* The loop over del_cdt_entry ends with the first that fails: there is no such
\* track, or the file could not be written.
DeleteTracksOf(from, Ended) ==
  /\ CallAt(from) /\ UNCHANGED <<cdc, current_entry>>
  /\ \/ /\ local_del_cdt_entry /\ trackNo' = trackNo + 1 /\ UNCHANGED <<tornNames, localPc, scan>>
     \/ /\ Ended /\ UNCHANGED cdt
        /\ tornNames' = IF ThisTrack \in cdt THEN tornNames \cup {current_entry} ELSE tornNames

\* The loop that a d starts, and the one of del_cat_entry, confirmed.
DeleteRestLocal == DeleteTracksOf("delete rest", Return)

del_cat_tracks == DeleteTracksOf("delete all", Call("delete entry") /\ UNCHANGED <<trackNo, scan>>)

local_del_cdc_entry ==
  /\ CallAt("delete entry") /\ Return /\ UNCHANGED <<cdt, current_entry, tornNames>>
  /\ cdc' \in {cdc \ {current_entry}, cdc}

\* list_tracks reads.
ListTracks ==
  /\ CallAt("menu") /\ current_entry # NoName /\ Return /\ UNCHANGED <<files, current_entry>>

-----------------------------------------------------------------------------
\* search_cdc_entry, called until it returns nothing.  dbm_firstkey and
\* dbm_nextkey go through the keys in an order of their own.

StartScan(names, pc) ==
  /\ CallAt("menu") /\ Call(pc) /\ sought' = names /\ keys' = cdc \cap names
  /\ UNCHANGED <<files, trackNo, found, entriesFound, tracksFound, current_entry>>

\* Mutant of local_search_cdc_entry: every call starts again with the first key.
local_search_from_first(next) ==
  /\ keys # {} /\ Call(next) /\ entriesFound' = entriesFound + 1 /\ trackNo' = 1
  /\ \E name \in keys : found' = name /\ UNCHANGED keys
  /\ UNCHANGED <<files, sought, tracksFound, current_entry>>

\* The next match, and how many there were.
local_search_cdc_entry(next) ==
  /\ keys # {} /\ Call(next) /\ entriesFound' = entriesFound + 1 /\ trackNo' = 1
  /\ \E name \in keys : found' = name /\ keys' = keys \ {name}
  /\ UNCHANGED <<files, sought, tracksFound, current_entry>>

\* find_cat: the user takes a match or sees the next; the one that is taken,
\* or none, is the new current entry.
find_cat ==
  \/ \E names \in TextsSought : StartScan(names, "search")
  \/ CallAt("search") /\ local_search_cdc_entry("offer")
  \/ CallAt("search") /\ keys = {} /\ Return /\ current_entry' = NoName /\ UNCHANGED files
  \/ CallAt("offer") /\ Return /\ current_entry' = found /\ UNCHANGED files
  \/ CallAt("offer") /\ Call("search") /\ UNCHANGED <<files, scan, trackNo, current_entry>>

\* Mutant of count_all_entries: no get_cdt_entry for the last CD.
count_but_last ==
  \/ StartScan(Names, "count")
  \/ CallAt("count") /\ local_search_cdc_entry(IF Cardinality(keys) = 1 THEN "count" ELSE "tracks")
  \/ CallAt("count") /\ keys = {} /\ Call("counted")
     /\ UNCHANGED <<files, scan, trackNo, current_entry>>
  \/ CallAt("tracks") /\ <<found, trackNo>> \in cdt
     /\ trackNo' = trackNo + 1 /\ tracksFound' = tracksFound + 1
     /\ UNCHANGED <<files, sought, keys, found, entriesFound, localPc, current_entry>>
  \/ CallAt("tracks") /\ <<found, trackNo>> \notin cdt /\ Call("count")
     /\ UNCHANGED <<files, scan, trackNo, current_entry>>
  \/ CallAt("counted") /\ Return /\ UNCHANGED <<files, current_entry>>

\* The text "" is in every name; for each CD one get_cdt_entry after the other.
count_all_entries ==
  \/ StartScan(Names, "count")
  \/ CallAt("count") /\ local_search_cdc_entry("tracks")
  \/ CallAt("count") /\ keys = {} /\ Call("counted")
     /\ UNCHANGED <<files, scan, trackNo, current_entry>>
  \/ CallAt("tracks") /\ <<found, trackNo>> \in cdt
     /\ trackNo' = trackNo + 1 /\ tracksFound' = tracksFound + 1
     /\ UNCHANGED <<files, sought, keys, found, entriesFound, localPc, current_entry>>
  \/ CallAt("tracks") /\ <<found, trackNo>> \notin cdt /\ Call("count")
     /\ UNCHANGED <<files, scan, trackNo, current_entry>>
  \/ CallAt("counted") /\ Return /\ UNCHANGED <<files, current_entry>>

-----------------------------------------------------------------------------

\* Killed between two calls: the variables are gone.
KillLocal ==
  /\ localPc # "off" /\ Call("off") /\ UNCHANGED <<cdc, cdt, current_entry>>
  /\ Forgotten
  /\ tornNames' = IF localPc \in {"delete all", "delete rest"}
                  THEN tornNames \cup {current_entry} ELSE tornNames

LocalNext ==
  \/ StartLocal \/ StartNew \/ UnlinkOld \/ OpenBoth \/ QuitLocal
  \/ enter_new_cat_entry \/ ChooseEntry \/ EnterTrack \/ DeleteRestLocal \/ del_cat_tracks
  \/ local_del_cdc_entry \/ ListTracks \/ find_cat \/ count_all_entries \/ KillLocal

LocalSpec == LocalInit /\ [][LocalNext]_localVars

-----------------------------------------------------------------------------

\* The tracks of a CD are 1, 2, ... without a gap, whatever is typed and whichever
\* of the calls that add tracks fail: every loop ends at the first number that is
\* missing (220-260, 269-272, 337-343, 361-367).  The exception is a deletion that
\* a failed call or a kill has cut off.
LocalTracksHaveNoGap ==
  localPc = "menu" => \A name \in Names \ tornNames :
    LET numbers == {n \in 1 .. LastTrack + 1 : <<name, n>> \in cdt}
    IN numbers = 1 .. Cardinality(numbers)

\* A scan returns each entry with the text once, and none twice: after any number
\* of calls, those it returned and those to come make up what matches, although
\* the position is in static variables (access.c 253-256, 266-297).
ScanReturnsEachOnce ==
  localPc \in {"search", "offer", "count", "tracks", "counted"} =>
    /\ keys \subseteq cdc \cap sought /\ found \notin keys
    /\ entriesFound + Cardinality(keys) = Cardinality(cdc \cap sought)

\* count_all_entries prints what is in the files (356-372).
LocalCountIsExact ==
  localPc = "counted" /\ tornNames = {} =>
    /\ entriesFound = Cardinality(cdc)
    /\ tracksFound = Cardinality({k \in cdt : k[1] \in cdc})

\* What is stored, searched and counted by one process agrees.
LocalInv == LocalTracksHaveNoGap /\ ScanReturnsEachOnce /\ LocalCountIsExact
================================================================================
