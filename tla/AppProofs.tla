------------------------------- MODULE AppProofs -------------------------------
(***************************************************************************)
(* Proofs about the forms of the CD application: in one process, over a    *)
(* server, on a database of tables, and with curses on two text files.     *)
(***************************************************************************)
EXTENDS CdLocal, CdUi, CdMySql, CursesApp, CdDbmProofs, FiniteSetTheorems,
        NaturalsInduction, WellFoundedInduction, TLAPS

-----------------------------------------------------------------------------
(* The CD application in one process (ch07).                               *)

ScanPlaces == {"search", "offer", "count", "tracks", "counted"}
Deletions  == {"delete rest", "delete all"}

LocalPlaces == {"off", "open", "unlink cdc", "unlink cdt", "open new", "menu", "get",
                "delete entry"} \cup ScanPlaces \cup Deletions

CdcTypeOK == cdc \subseteq Names /\ IsFiniteSet(cdc)
CdtTypeOK == cdt \subseteq Names \X (1 .. LastTrack) /\ IsFiniteSet(cdt)

LocalTypeOK ==
  /\ CdcTypeOK /\ CdtTypeOK
  /\ current_entry \in Names \cup {NoName} /\ localPc \in LocalPlaces /\ trackNo \in Nat \ {0}
  /\ sought \subseteq Names /\ keys \subseteq cdc \cap sought /\ found \in Names \cup {NoName}
  /\ entriesFound \in Nat /\ tracksFound \in Nat /\ tornNames \subseteq Names

\* The variables of the functions, outside of them, and the current entry inside.
ScanIsOver ==
  /\ localPc \notin ScanPlaces => keys = {} /\ found = NoName /\ entriesFound = 0 /\ tracksFound = 0
  /\ localPc \in Deletions \cup {"get", "delete entry"} => current_entry # NoName

NumbersOf(name) == {n \in Nat : <<name, n>> \in cdt}

\* Where the tracks of a CD are without a gap, and the loop is not past their end.
LoopWithin(name, n) ==
  (localPc = "get" /\ name = current_entry) \/ (localPc = "tracks" /\ name = found)
    => trackNo <= n + 1

BeingDeleted(name) == localPc \in Deletions /\ name = current_entry

\* A deletion has made one gap at most, which ends at the track it is at.
TracksInPlace ==
  \A name \in Names \ tornNames :
    /\ ~BeingDeleted(name) => \E n \in Nat : NumbersOf(name) = 1 .. n /\ LoopWithin(name, n)
    /\ BeingDeleted(name) =>
         \E n \in Nat, first \in 1 .. trackNo :
           NumbersOf(name) = 1 .. first - 1 \cup trackNo .. n /\ trackNo <= n + 1

ScanCounts ==
  /\ localPc \in ScanPlaces =>
       /\ found \notin keys
       /\ entriesFound + Cardinality(keys) = Cardinality(cdc \cap sought)
  /\ localPc = "tracks" => found \in cdc
  /\ localPc = "counted" => keys = {}
  /\ localPc \in {"count", "tracks", "counted"} => sought = Names

TracksIn(names) == {k \in cdt : k[1] \in names}

\* The tracks of the entries that the count is through with, and of the one it is at.
CountSoFar ==
  tornNames = {} =>
    /\ localPc \in {"count", "counted"} => tracksFound = Cardinality(TracksIn(cdc \ keys))
    /\ localPc = "tracks" =>
         tracksFound = Cardinality(TracksIn((cdc \ keys) \ {found})) + (trackNo - 1)

LocalIInv == LocalTypeOK /\ ScanIsOver /\ TracksInPlace /\ ScanCounts /\ CountSoFar

-----------------------------------------------------------------------------

USE LocalAssumption

\* Nothing is stored at first.
LEMMA LocalStart == LocalInit => LocalIInv
<1> SUFFICES ASSUME LocalInit PROVE LocalIInv
  OBVIOUS
<1>1. LocalTypeOK
  BY FS_EmptySet DEF LocalInit, LocalTypeOK, LocalPlaces, CdcTypeOK, CdtTypeOK
<1>2. ASSUME NEW name PROVE NumbersOf(name) = 1 .. 0
  BY DEF LocalInit, NumbersOf
<1>3. TracksInPlace
  BY <1>2 DEF LocalInit, TracksInPlace, BeingDeleted, LoopWithin, Deletions
<1> QED BY <1>1, <1>3 DEF LocalInit, LocalIInv, ScanIsOver, ScanCounts, CountSoFar, ScanPlaces,
                          Deletions

\* The tracks stay in place in a step that changes none and starts no loop but
\* at the first track; a deletion that it leaves is torn.
LEMMA TracksKept ==
  ASSUME LocalTypeOK, TracksInPlace, cdt' = cdt, tornNames \subseteq tornNames',
         localPc \in Deletions => current_entry \in tornNames',
         trackNo' = 1 \/ localPc' \notin Deletions \cup {"get", "tracks"}
  PROVE  TracksInPlace'
<1> SUFFICES ASSUME NEW name \in Names, name \notin tornNames'
             PROVE  /\ ~BeingDeleted(name)' =>
                         \E n \in Nat : NumbersOf(name)' = 1 .. n /\ LoopWithin(name, n)'
                    /\ BeingDeleted(name)' =>
                         \E n \in Nat, first \in 1 .. trackNo' :
                           /\ NumbersOf(name)' = 1 .. first - 1 \cup trackNo' .. n
                           /\ trackNo' <= n + 1
  BY DEF TracksInPlace
<1>1. PICK n \in Nat : NumbersOf(name) = 1 .. n
  BY DEF TracksInPlace, BeingDeleted
<1>2. NumbersOf(name)' = 1 .. n
  BY <1>1 DEF NumbersOf
<1>3. LoopWithin(name, n)'
  BY DEF LoopWithin
<1>4. CASE BeingDeleted(name)'
  <2>1. trackNo' = 1 /\ 1 .. 0 \cup 1 .. n = 1 .. n
    BY <1>4 DEF BeingDeleted
  <2> QED BY <1>2, <1>4, <2>1
<1> QED BY <1>2, <1>3, <1>4

\* The steps of main and of the functions that read or store an entry, and those
\* that start a loop: the variables of the last function are gone.
LEMMA OutsideStep ==
  ASSUME LocalIInv,
         \/ StartLocal \/ StartNew \/ OpenBoth \/ QuitLocal \/ enter_new_cat_entry
         \/ ChooseEntry \/ local_del_cdc_entry \/ ListTracks
  PROVE  LocalIInv'
<1> USE DEF LocalIInv
<1>1. /\ cdt' = cdt /\ tornNames' = tornNames /\ localPc \notin Deletions \cup ScanPlaces
      /\ localPc' \notin ScanPlaces
      /\ trackNo' = 1 \/ localPc' \notin Deletions \cup {"get", "tracks"}
  BY DEF StartLocal, StartNew, OpenBoth, QuitLocal, enter_new_cat_entry, ChooseEntry,
         local_del_cdc_entry, ListTracks, Return, Forgotten, Call, CallAt, files, Deletions,
         ScanPlaces
<1>2. TracksInPlace'
  BY <1>1, TracksKept
<1>3. keys' = {} /\ found' = NoName /\ entriesFound' = 0 /\ tracksFound' = 0
  BY <1>1 DEF StartLocal, StartNew, OpenBoth, QuitLocal, enter_new_cat_entry, ChooseEntry,
         local_del_cdc_entry, ListTracks, Return, Forgotten, scan, ScanIsOver
<1>4. localPc' \in LocalPlaces /\ trackNo' \in Nat \ {0} /\ sought' \subseteq Names
  <2>1. localPc' \in LocalPlaces
    BY DEF StartLocal, StartNew, OpenBoth, QuitLocal, enter_new_cat_entry, ChooseEntry,
           local_del_cdc_entry, ListTracks, Return, Call, LocalPlaces, Deletions
  <2>2. trackNo' \in {trackNo, 1} /\ sought' \in {sought, {}}
    BY DEF StartLocal, StartNew, OpenBoth, QuitLocal, enter_new_cat_entry, ChooseEntry,
           local_del_cdc_entry, ListTracks, Return, Forgotten, scan
  <2> QED BY <2>1, <2>2 DEF LocalTypeOK
<1>5. /\ current_entry' \in Names \cup {NoName}
      /\ localPc' \in Deletions \cup {"get", "delete entry"} => current_entry' # NoName
  BY DEF StartLocal, StartNew, OpenBoth, QuitLocal, enter_new_cat_entry, ChooseEntry, LocalTypeOK,
         local_del_cdc_entry, ListTracks, Return, Call, CallAt, local_add_cdc_entry, Deletions
<1>6. CdcTypeOK'
  <2>1. \/ cdc' = cdc \/ cdc' = cdc \ {current_entry}
        \/ \E name \in Names : cdc' = cdc \cup {name}
    BY DEF StartLocal, StartNew, OpenBoth, QuitLocal, enter_new_cat_entry, ChooseEntry,
           local_del_cdc_entry, ListTracks, local_add_cdc_entry, files
  <2> QED BY <2>1, FS_AddElement, FS_RemoveElement DEF LocalTypeOK, CdcTypeOK
<1>7. CdtTypeOK'
  BY <1>1 DEF LocalTypeOK, CdtTypeOK
<1>8. LocalTypeOK'
  BY <1>1, <1>3, <1>4, <1>5, <1>6, <1>7 DEF LocalTypeOK
<1> QED BY <1>1, <1>2, <1>3, <1>5, <1>8 DEF ScanIsOver, ScanCounts, CountSoFar, ScanPlaces

\* unlink: no entry, or no track and so no gap.
LEMMA UnlinkStep ==
  ASSUME LocalIInv, UnlinkOld
  PROVE  LocalIInv'
<1> USE DEF LocalIInv
<1>1. /\ localPc \in {"unlink cdc", "unlink cdt"} /\ localPc' \in {"unlink cdt", "open new"}
      /\ current_entry' = current_entry /\ trackNo' = trackNo /\ sought' = sought
      /\ keys' = keys /\ found' = found /\ entriesFound' = entriesFound
      /\ tracksFound' = tracksFound
  BY DEF UnlinkOld, CallAt, Call, scan
<1>2. CASE cdc' = {} /\ cdt' = cdt /\ tornNames' = tornNames
  <2>1. TracksInPlace'
    BY <1>1, <1>2, TracksKept DEF Deletions
  <2>2. LocalTypeOK'
    BY <1>1, <1>2, FS_EmptySet
       DEF LocalTypeOK, LocalPlaces, CdcTypeOK, CdtTypeOK, ScanIsOver, ScanPlaces
  <2> QED BY <1>1, <2>1, <2>2 DEF ScanIsOver, ScanCounts, CountSoFar, ScanPlaces, Deletions
<1>3. CASE cdt' = {} /\ tornNames' = {} /\ cdc' = cdc
  <2>1. ASSUME NEW name PROVE NumbersOf(name)' = 1 .. 0
    BY <1>3 DEF NumbersOf
  <2>2. TracksInPlace'
    BY <1>1, <2>1 DEF TracksInPlace, BeingDeleted, LoopWithin, Deletions
  <2>3. LocalTypeOK'
    BY <1>1, <1>3, FS_EmptySet DEF LocalTypeOK, LocalPlaces, CdcTypeOK, CdtTypeOK
  <2> QED BY <1>1, <2>2, <2>3 DEF ScanIsOver, ScanCounts, CountSoFar, ScanPlaces, Deletions
<1> QED BY <1>2, <1>3 DEF UnlinkOld

\* A kill forgets the variables; a deletion it comes into is torn.
LEMMA KillStep ==
  ASSUME LocalIInv, KillLocal
  PROVE  LocalIInv'
<1> USE DEF LocalIInv
<1>1. /\ localPc' = "off" /\ cdc' = cdc /\ cdt' = cdt /\ current_entry' = current_entry
      /\ trackNo' = 1 /\ sought' = {} /\ keys' = {} /\ found' = NoName /\ entriesFound' = 0
      /\ tracksFound' = 0
  BY DEF KillLocal, Call, Forgotten
<1>2. /\ tornNames \subseteq tornNames' /\ tornNames' \subseteq Names
      /\ localPc \in Deletions => current_entry \in tornNames'
  BY DEF KillLocal, Deletions, LocalTypeOK, ScanIsOver
<1>3. TracksInPlace'
  BY <1>1, <1>2, TracksKept
<1>4. CdcTypeOK' /\ CdtTypeOK'
  BY <1>1 DEF LocalTypeOK, CdcTypeOK, CdtTypeOK
<1>5. LocalTypeOK'
  <2>1. localPc' \in LocalPlaces
    BY <1>1 DEF LocalPlaces
  <2> QED BY <1>1, <1>2, <1>4, <2>1 DEF LocalTypeOK
<1> QED BY <1>1, <1>3, <1>5 DEF ScanIsOver, ScanCounts, CountSoFar, ScanPlaces, Deletions

\* Back in the menu, with the tracks in place.
LEMMA ReturnStep ==
  ASSUME LocalTypeOK, Return, cdc' = cdc, CdtTypeOK', TracksInPlace', tornNames' \subseteq Names,
         current_entry' \in Names \cup {NoName}
  PROVE  LocalIInv'
<1>1. /\ localPc' = "menu" /\ trackNo' = 1 /\ sought' = {} /\ keys' = {} /\ found' = NoName
      /\ entriesFound' = 0 /\ tracksFound' = 0
  BY DEF Return, Call, Forgotten
<1>2. CdcTypeOK' /\ localPc' \in LocalPlaces
  BY <1>1 DEF LocalTypeOK, CdcTypeOK, LocalPlaces
<1>3. LocalTypeOK'
  BY <1>1, <1>2 DEF LocalTypeOK
<1> QED BY <1>1, <1>3 DEF LocalIInv, ScanIsOver, ScanCounts, CountSoFar, ScanPlaces, Deletions

\* The loop that enters tracks adds the number after the last one at most.
LEMMA EnterStep ==
  ASSUME LocalIInv, EnterTrack
  PROVE  LocalIInv'
<1>1. /\ localPc = "get" /\ cdc' = cdc /\ current_entry' = current_entry /\ tornNames' = tornNames
      /\ current_entry \in Names /\ trackNo \in Nat \ {0} /\ LocalTypeOK /\ TracksInPlace
  BY DEF LocalIInv, LocalTypeOK, ScanIsOver, EnterTrack, CallAt
<1>2. CdcTypeOK' /\ (cdt' = cdt => CdtTypeOK')
  BY <1>1 DEF LocalTypeOK, CdcTypeOK, CdtTypeOK
<1>3. CASE Return /\ cdt' = cdt
  <2>1. TracksInPlace'
    BY <1>1, <1>3, TracksKept DEF Deletions, Return, Forgotten
  <2> QED BY <1>1, <1>2, <1>3, <2>1, ReturnStep DEF LocalTypeOK
<1>4. ASSUME localPc' \in {"get", "delete rest"}, trackNo' \in Nat \ {0}, UNCHANGED scan,
             CdtTypeOK', TracksInPlace'
      PROVE  LocalIInv'
  <2>1. localPc' \in LocalPlaces
    BY <1>4 DEF LocalPlaces, Deletions
  <2>2. LocalTypeOK'
    BY <1>1, <1>2, <1>4, <2>1 DEF LocalTypeOK, scan
  <2>3. ScanIsOver'
    BY <1>1, <1>4 DEF LocalIInv, ScanIsOver, ScanPlaces, scan, LocalTypeOK
  <2> QED BY <1>4, <2>2, <2>3 DEF LocalIInv, ScanCounts, CountSoFar, ScanPlaces
<1>5. ASSUME localPc' = "get", trackNo' = trackNo + 1, ThisTrack \in cdt',
             cdt' \in {cdt, cdt \cup {ThisTrack}}
      PROVE  TracksInPlace'
  <2> SUFFICES ASSUME NEW name \in Names, name \notin tornNames
               PROVE  \E n \in Nat : NumbersOf(name)' = 1 .. n /\ LoopWithin(name, n)'
    BY <1>1, <1>5 DEF TracksInPlace, BeingDeleted, Deletions
  <2>1. PICK n \in Nat : NumbersOf(name) = 1 .. n /\ LoopWithin(name, n)
    BY <1>1 DEF TracksInPlace, BeingDeleted, Deletions
  <2>2. CASE name # current_entry
    <3>1. NumbersOf(name)' = NumbersOf(name)
      BY <1>5, <2>2 DEF NumbersOf, ThisTrack
    <3>2. LoopWithin(name, n)'
      BY <1>1, <1>5, <2>2 DEF LoopWithin
    <3> QED BY <2>1, <3>1, <3>2
  <2>3. CASE name = current_entry
    <3>1. trackNo <= n + 1
      BY <1>1, <2>1, <2>3 DEF LoopWithin
    <3>2. NumbersOf(name)' = NumbersOf(name) \cup {trackNo}
      BY <1>1, <1>5, <2>3 DEF NumbersOf, ThisTrack
    <3>3. CASE trackNo <= n
      <4>1. NumbersOf(name)' = 1 .. n /\ LoopWithin(name, n)'
        BY <1>1, <1>5, <2>1, <3>2, <3>3 DEF LoopWithin
      <4> QED BY <4>1
    <3>4. CASE trackNo = n + 1
      <4>1. NumbersOf(name)' = 1 .. n + 1 /\ LoopWithin(name, n + 1)'
        BY <1>1, <1>5, <2>1, <3>2, <3>4 DEF LoopWithin
      <4> QED BY <4>1
    <3> QED BY <1>1, <3>1, <3>3, <3>4
  <2> QED BY <2>2, <2>3
<1>6. CASE /\ ThisTrack \in cdt /\ Call("get") /\ trackNo' = trackNo + 1
           /\ UNCHANGED <<cdt, scan>>
  BY <1>1, <1>2, <1>4, <1>5, <1>6 DEF Call
<1>7. CASE /\ trackNo <= LastTrack /\ Call("get") /\ trackNo' = trackNo + 1
           /\ local_add_cdt_entry /\ UNCHANGED scan
  <2>1. CdtTypeOK'
    <3>1. ThisTrack \in Names \X (1 .. LastTrack) /\ cdt' = cdt \cup {ThisTrack}
      BY <1>1, <1>7 DEF ThisTrack, local_add_cdt_entry
    <3> HIDE DEF ThisTrack
    <3> QED BY <1>1, <3>1, FS_AddElement DEF LocalTypeOK, CdtTypeOK
  <2> QED BY <1>1, <1>4, <1>5, <1>7, <2>1 DEF Call, local_add_cdt_entry
<1>8. CASE Call("delete rest") /\ UNCHANGED <<cdt, trackNo, scan>>
  <2> SUFFICES ASSUME NEW name \in Names, name \notin tornNames
               PROVE  /\ name # current_entry => \E n \in Nat : NumbersOf(name) = 1 .. n
                      /\ name = current_entry =>
                           \E n \in Nat, first \in 1 .. trackNo :
                             /\ NumbersOf(name) = 1 .. first - 1 \cup trackNo .. n
                             /\ trackNo <= n + 1
    <3>1. /\ \A name : NumbersOf(name)' = NumbersOf(name)
          /\ \A name : BeingDeleted(name)' <=> name = current_entry
          /\ \A name, n : LoopWithin(name, n)'
          /\ trackNo' = trackNo /\ tornNames' = tornNames
      BY <1>1, <1>8 DEF BeingDeleted, Deletions, NumbersOf, LoopWithin, Call
    <3>2. TracksInPlace'
      BY <3>1 DEF TracksInPlace
    <3> QED BY <1>1, <1>2, <1>4, <1>8, <3>2 DEF Call
  <2>1. PICK n \in Nat : NumbersOf(name) = 1 .. n /\ LoopWithin(name, n)
    BY <1>1 DEF TracksInPlace, BeingDeleted, Deletions
  <2>2. ASSUME name = current_entry
        PROVE  trackNo <= n + 1 /\ 1 .. n = 1 .. trackNo - 1 \cup trackNo .. n
    BY <1>1, <2>1, <2>2 DEF LoopWithin
  <2> QED BY <1>1, <2>1, <2>2
<1> QED BY <1>3, <1>6, <1>7, <1>8 DEF EnterTrack

\* A loop of deletions takes the tracks from the front of what is left; when it
\* ends, nothing is left, or the entry is torn.
LEMMA DeleteStep ==
  ASSUME LocalIInv, DeleteRestLocal \/ del_cat_tracks
  PROVE  LocalIInv'
<1>1. /\ localPc \in Deletions /\ cdc' = cdc /\ current_entry' = current_entry
      /\ current_entry \in Names /\ trackNo \in Nat \ {0} /\ LocalTypeOK /\ TracksInPlace
  BY DEF LocalIInv, LocalTypeOK, ScanIsOver, DeleteRestLocal, del_cat_tracks, DeleteTracksOf,
         CallAt, Deletions
<1>2. CdcTypeOK' /\ (cdt' = cdt => CdtTypeOK')
  BY <1>1 DEF LocalTypeOK, CdcTypeOK, CdtTypeOK
<1>3. ASSUME localPc' \in Deletions \cup {"delete entry"}, trackNo' \in Nat \ {0},
             UNCHANGED scan, CdtTypeOK', TracksInPlace', tornNames' \subseteq Names
      PROVE  LocalIInv'
  <2>1. localPc' \in LocalPlaces /\ localPc' \notin ScanPlaces /\ localPc \notin ScanPlaces
    BY <1>1, <1>3 DEF LocalPlaces, Deletions, ScanPlaces
  <2>2. LocalTypeOK'
    BY <1>1, <1>2, <1>3, <2>1 DEF LocalTypeOK, scan
  <2>3. current_entry # NoName
    BY <1>1
  <2>4. ScanIsOver'
    BY <1>1, <1>3, <2>1, <2>3 DEF LocalIInv, ScanIsOver, scan
  <2> QED BY <2>1, <2>2, <2>4, <1>3 DEF LocalIInv, ScanCounts, CountSoFar, ScanPlaces
<1>4. CASE /\ local_del_cdt_entry /\ trackNo' = trackNo + 1
           /\ UNCHANGED <<tornNames, localPc, scan>>
  <2>1. cdt' = cdt \ {ThisTrack} /\ ThisTrack \in cdt
    BY <1>4 DEF local_del_cdt_entry
  <2>2. CdtTypeOK'
    BY <1>1, <2>1, FS_RemoveElement DEF LocalTypeOK, CdtTypeOK
  <2>3. TracksInPlace'
    <3> SUFFICES ASSUME NEW name \in Names, name \notin tornNames
                 PROVE  /\ name # current_entry => \E n \in Nat : NumbersOf(name)' = 1 .. n
                        /\ name = current_entry =>
                             \E n \in Nat, first \in 1 .. trackNo + 1 :
                               /\ NumbersOf(name)' = 1 .. first - 1 \cup trackNo + 1 .. n
                               /\ trackNo + 1 <= n + 1
      BY <1>1, <1>4 DEF TracksInPlace, BeingDeleted, Deletions, LoopWithin
    <3>1. CASE name # current_entry
      <4>1. NumbersOf(name)' = NumbersOf(name)
        BY <2>1, <3>1 DEF NumbersOf, ThisTrack
      <4> QED BY <1>1, <3>1, <4>1 DEF TracksInPlace, BeingDeleted
    <3>2. CASE name = current_entry
      <4>1. PICK n \in Nat, first \in 1 .. trackNo :
              NumbersOf(name) = 1 .. first - 1 \cup trackNo .. n /\ trackNo <= n + 1
        BY <1>1, <3>2 DEF TracksInPlace, BeingDeleted
      <4>2. trackNo \in NumbersOf(name) /\ NumbersOf(name)' = NumbersOf(name) \ {trackNo}
        BY <1>1, <2>1, <3>2 DEF NumbersOf, ThisTrack
      <4>3. trackNo <= n
        BY <1>1, <4>1, <4>2
      <4>4. NumbersOf(name)' = 1 .. first - 1 \cup trackNo + 1 .. n
        BY <1>1, <4>1, <4>2
      <4> QED BY <1>1, <3>2, <4>3, <4>4
    <3> QED BY <3>1, <3>2
  <2> QED BY <1>1, <1>3, <1>4, <2>2, <2>3 DEF LocalTypeOK
<1>5. ASSUME UNCHANGED cdt, localPc' \notin Deletions \cup {"get", "tracks"},
             tornNames' = IF ThisTrack \in cdt THEN tornNames \cup {current_entry} ELSE tornNames
      PROVE  TracksInPlace' /\ tornNames' \subseteq Names
  <2>1. tornNames' \subseteq Names
    BY <1>1, <1>5 DEF LocalTypeOK
  <2>2. ASSUME NEW name \in Names, name \notin tornNames'
        PROVE  \E n \in Nat : NumbersOf(name)' = 1 .. n
    <3>1. NumbersOf(name)' = NumbersOf(name) /\ name \notin tornNames
      BY <1>5, <2>2 DEF NumbersOf
    <3>2. CASE name # current_entry
      BY <1>1, <3>1, <3>2 DEF TracksInPlace, BeingDeleted
    <3>3. CASE name = current_entry
      <4>1. PICK n \in Nat, first \in 1 .. trackNo :
              NumbersOf(name) = 1 .. first - 1 \cup trackNo .. n /\ trackNo <= n + 1
        BY <1>1, <3>1, <3>3 DEF TracksInPlace, BeingDeleted
      <4>2. trackNo \notin NumbersOf(name)
        BY <1>5, <2>2, <3>3 DEF NumbersOf, ThisTrack
      <4>3. NumbersOf(name) = 1 .. first - 1 /\ first - 1 \in Nat
        BY <1>1, <4>1, <4>2
      <4> QED BY <3>1, <4>3
    <3> QED BY <3>2, <3>3
  <2>3. TracksInPlace'
    BY <1>5, <2>2 DEF TracksInPlace, BeingDeleted, LoopWithin
  <2> QED BY <2>1, <2>3
<1>6. CASE /\ Return /\ UNCHANGED cdt
           /\ tornNames' = IF ThisTrack \in cdt THEN tornNames \cup {current_entry} ELSE tornNames
  <2>1. localPc' = "menu"
    BY <1>6 DEF Return, Call
  <2>2. TracksInPlace' /\ tornNames' \subseteq Names
    BY <1>5, <1>6, <2>1 DEF Deletions
  <2> QED BY <1>1, <1>2, <1>6, <2>2, ReturnStep
<1>7. CASE /\ Call("delete entry") /\ UNCHANGED <<trackNo, scan, cdt>>
           /\ tornNames' = IF ThisTrack \in cdt THEN tornNames \cup {current_entry} ELSE tornNames
  <2>1. TracksInPlace' /\ tornNames' \subseteq Names
    BY <1>5, <1>7 DEF Deletions, Call
  <2> QED BY <1>1, <1>2, <1>3, <1>7, <2>1 DEF Call
<1> QED BY <1>4, <1>6, <1>7 DEF DeleteRestLocal, del_cat_tracks, DeleteTracksOf

\* A scan starts: every match is still to come.
LEMMA ScanStarts ==
  ASSUME LocalIInv, NEW names \in SUBSET Names, NEW pc \in {"search", "count"},
         pc = "count" => names = Names, StartScan(names, pc)
  PROVE  LocalIInv'
<1> USE DEF LocalIInv
<1>1. /\ localPc = "menu" /\ localPc' = pc /\ sought' = names /\ keys' = cdc \cap names
      /\ cdc' = cdc /\ cdt' = cdt /\ tornNames' = tornNames /\ trackNo' = trackNo
      /\ found' = found /\ entriesFound' = entriesFound /\ tracksFound' = tracksFound
      /\ current_entry' = current_entry
  BY DEF StartScan, CallAt, Call, files
<1>2. found = NoName /\ entriesFound = 0 /\ tracksFound = 0
  BY <1>1 DEF ScanIsOver, ScanPlaces
<1>3. TracksInPlace'
  BY <1>1, TracksKept DEF Deletions
<1>4. CdcTypeOK' /\ CdtTypeOK' /\ localPc' \in LocalPlaces
  BY <1>1 DEF LocalTypeOK, CdcTypeOK, CdtTypeOK, LocalPlaces, ScanPlaces
<1>5. LocalTypeOK'
  BY <1>1, <1>4 DEF LocalTypeOK
<1>6. ScanCounts'
  <2>1. Cardinality(keys') \in Nat
    BY <1>1, FS_Intersection, FS_CardinalityType DEF LocalTypeOK, CdcTypeOK
  <2>2. found' \notin keys' /\ entriesFound' + Cardinality(keys') = Cardinality(cdc' \cap sought')
    BY <1>1, <1>2, <2>1
  <2> QED BY <1>1, <2>2 DEF ScanCounts
<1>7. CountSoFar'
  <2> SUFFICES ASSUME pc = "count" PROVE tracksFound' = Cardinality(TracksIn(cdc \ keys)')
    BY <1>1 DEF CountSoFar
  <2>1. cdc' \ keys' = {}
    BY <1>1 DEF LocalTypeOK, CdcTypeOK
  <2>2. TracksIn(cdc \ keys)' = {}
    BY <2>1 DEF TracksIn
  <2> QED BY <1>1, <1>2, <2>2, FS_EmptySet
<1> QED BY <1>1, <1>3, <1>5, <1>6, <1>7 DEF ScanIsOver, ScanPlaces, Deletions

\* The next match is one of those to come.
LEMMA NextMatchStep ==
  ASSUME LocalIInv, NEW next \in {"offer", "tracks"}, local_search_cdc_entry(next),
         localPc = IF next = "offer" THEN "search" ELSE "count"
  PROVE  LocalIInv'
<1> USE DEF LocalIInv
<1>1. PICK name \in keys : found' = name /\ keys' = keys \ {name}
  BY DEF local_search_cdc_entry
<1>2. /\ localPc' = next /\ sought' = sought /\ cdc' = cdc /\ cdt' = cdt
      /\ tornNames' = tornNames /\ trackNo' = 1 /\ entriesFound' = entriesFound + 1
      /\ tracksFound' = tracksFound /\ current_entry' = current_entry
  BY DEF local_search_cdc_entry, Call, files
<1>3. localPc \in ScanPlaces /\ localPc \notin Deletions /\ localPc' \in LocalPlaces
      /\ localPc' \in ScanPlaces /\ localPc' \notin Deletions
  BY <1>2 DEF ScanPlaces, Deletions, LocalPlaces
<1>4. TracksInPlace'
  BY <1>2, <1>3, TracksKept
<1>5. CdcTypeOK' /\ CdtTypeOK'
  BY <1>2 DEF LocalTypeOK, CdcTypeOK, CdtTypeOK
<1>6. name \in cdc /\ name \in Names
  BY <1>1 DEF LocalTypeOK, CdcTypeOK
<1>7. LocalTypeOK'
  BY <1>1, <1>2, <1>3, <1>5, <1>6 DEF LocalTypeOK
<1>8. ScanCounts'
  <2>1. IsFiniteSet(keys)
    BY FS_Subset DEF LocalTypeOK, CdcTypeOK
  <2>2. Cardinality(keys) \in Nat /\ Cardinality(keys \ {name}) = Cardinality(keys) - 1
    BY <1>1, <2>1, FS_CardinalityType, FS_RemoveElement
  <2>3. entriesFound + Cardinality(keys) = Cardinality(cdc \cap sought) /\ entriesFound \in Nat
    BY <1>3 DEF ScanCounts, LocalTypeOK
  <2>4. entriesFound' + Cardinality(keys') = Cardinality(cdc' \cap sought')
    BY <1>1, <1>2, <2>2, <2>3
  <2>5. found' \notin keys' /\ found' \in cdc'
    BY <1>1, <1>2, <1>6
  <2>6. next = "tracks" => sought' = Names
    BY <1>2 DEF ScanCounts
  <2> QED BY <1>2, <2>4, <2>5, <2>6 DEF ScanCounts
<1>9. CountSoFar'
  <2> SUFFICES ASSUME tornNames = {}, next = "tracks"
               PROVE  tracksFound = Cardinality(TracksIn((cdc \ keys) \ {found})') + (1 - 1)
    BY <1>2 DEF CountSoFar
  <2>1. (cdc' \ keys') \ {found'} = cdc \ keys
    BY <1>1, <1>2 DEF LocalTypeOK
  <2>2. TracksIn((cdc \ keys) \ {found})' = TracksIn(cdc \ keys)
    BY <1>2, <2>1 DEF TracksIn
  <2>3. tracksFound = Cardinality(TracksIn(cdc \ keys)) /\ tracksFound \in Nat
    BY DEF CountSoFar, LocalTypeOK
  <2> QED BY <2>2, <2>3
<1> QED BY <1>3, <1>4, <1>7, <1>8, <1>9 DEF ScanIsOver, Deletions, ScanPlaces

\* find_cat.
LEMMA FindStep ==
  ASSUME LocalIInv, find_cat
  PROVE  LocalIInv'
<1> USE DEF LocalIInv
<1>1. CASE \E names \in TextsSought : StartScan(names, "search")
  BY <1>1, ScanStarts
<1>2. CASE CallAt("search") /\ local_search_cdc_entry("offer")
  BY <1>2, NextMatchStep DEF CallAt
<1>3. CASE /\ localPc \in {"search", "offer"} /\ Return /\ UNCHANGED files
           /\ current_entry' \in {found, NoName}
  <2>1. cdc' = cdc /\ cdt' = cdt /\ tornNames' = tornNames
    BY <1>3 DEF files
  <2>2. TracksInPlace' /\ CdtTypeOK' /\ tornNames' \subseteq Names
    BY <1>3, <2>1, TracksKept DEF Return, Forgotten, Deletions, LocalTypeOK, CdtTypeOK
  <2>3. current_entry' \in Names \cup {NoName}
    BY <1>3 DEF LocalTypeOK
  <2> QED BY <1>3, <2>1, <2>2, <2>3, ReturnStep
<1>4. CASE CallAt("offer") /\ Call("search") /\ UNCHANGED <<files, scan, trackNo, current_entry>>
  <2>1. /\ localPc = "offer" /\ localPc' = "search" /\ cdc' = cdc /\ cdt' = cdt
        /\ tornNames' = tornNames /\ sought' = sought /\ keys' = keys /\ found' = found
        /\ entriesFound' = entriesFound /\ tracksFound' = tracksFound /\ trackNo' = trackNo
        /\ current_entry' = current_entry
    BY <1>4 DEF CallAt, Call, files, scan
  <2>2. TracksInPlace'
    BY <2>1, TracksKept DEF Deletions
  <2>3. CdcTypeOK' /\ CdtTypeOK' /\ localPc' \in LocalPlaces
    BY <2>1 DEF LocalTypeOK, CdcTypeOK, CdtTypeOK, LocalPlaces, ScanPlaces
  <2>4. LocalTypeOK'
    BY <2>1, <2>3 DEF LocalTypeOK
  <2> QED BY <2>1, <2>2, <2>4 DEF ScanIsOver, ScanCounts, CountSoFar, ScanPlaces, Deletions
<1> QED BY <1>1, <1>2, <1>3, <1>4 DEF find_cat, CallAt

\* A CD of n tracks adds n to the tracks of the others.
LEMMA TracksAdd ==
  ASSUME LocalTypeOK, NEW names, NEW name, name \notin names, NEW n \in Nat,
         NumbersOf(name) = 1 .. n
  PROVE  Cardinality(TracksIn(names \cup {name})) = Cardinality(TracksIn(names)) + n
<1> DEFINE Mine == {k \in cdt : k[1] = name}
           f    == [i \in 1 .. n |-> <<name, i>>]
<1>1. IsFiniteSet(cdt)
  BY DEF LocalTypeOK, CdtTypeOK
<1>2. IsFiniteSet(TracksIn(names)) /\ IsFiniteSet(Mine)
  BY <1>1, FS_Subset DEF TracksIn
<1>3. TracksIn(names \cup {name}) = TracksIn(names) \cup Mine /\ TracksIn(names) \cap Mine = {}
  BY DEF TracksIn
<1>4. f \in Bijection(1 .. n, Mine)
  <2>1. \A i \in 1 .. n : f[i] = <<name, i>> /\ <<name, i>> \in cdt
    BY DEF NumbersOf
  <2>2. f \in [1 .. n -> Mine]
    BY <2>1
  <2>3. ASSUME NEW i \in 1 .. n, NEW j \in 1 .. n, f[i] = f[j] PROVE i = j
    BY <2>1, <2>3
  <2>4. ASSUME NEW k \in Mine PROVE \E i \in 1 .. n : f[i] = k
    <3>1. k = <<name, k[2]>> /\ k[2] \in Nat /\ k \in cdt
      BY DEF LocalTypeOK, CdtTypeOK
    <3>2. k[2] \in 1 .. n
      BY <3>1 DEF NumbersOf
    <3> QED BY <2>1, <3>1, <3>2
  <2> QED BY <2>2, <2>3, <2>4 DEF Bijection, Injection, Surjection, IsInjective
<1>5. Cardinality(Mine) = n
  BY <1>4, FS_CountingElements DEF ExistsBijection
<1>6. Cardinality(TracksIn(names) \cup Mine)
        = Cardinality(TracksIn(names)) + Cardinality(Mine) - Cardinality(TracksIn(names) \cap Mine)
  BY <1>2, FS_Union, Zenon
<1>7. Cardinality(TracksIn(names)) \in Nat /\ Cardinality(TracksIn(names) \cap Mine) = 0
  BY <1>2, <1>3, FS_EmptySet, FS_CardinalityType, Zenon
<1> HIDE DEF Mine
<1>8. Cardinality(TracksIn(names \cup {name})) = Cardinality(TracksIn(names) \cup Mine)
  BY <1>3
<1> QED BY <1>5, <1>6, <1>7, <1>8

\* count_all_entries.
LEMMA CountStep ==
  ASSUME LocalIInv, count_all_entries
  PROVE  LocalIInv'
<1> USE DEF LocalIInv
<1>1. CASE StartScan(Names, "count")
  BY <1>1, ScanStarts
<1>2. CASE CallAt("count") /\ local_search_cdc_entry("tracks")
  BY <1>2, NextMatchStep DEF CallAt
<1>3. CASE CallAt("counted") /\ Return /\ UNCHANGED <<files, current_entry>>
  <2>1. cdc' = cdc /\ cdt' = cdt /\ tornNames' = tornNames /\ current_entry' = current_entry
    BY <1>3 DEF files
  <2>2. TracksInPlace' /\ CdtTypeOK' /\ tornNames' \subseteq Names
    BY <1>3, <2>1, TracksKept DEF CallAt, Return, Forgotten, Deletions, LocalTypeOK, CdtTypeOK
  <2> QED BY <1>3, <2>1, <2>2, ReturnStep DEF LocalTypeOK
<1>4. ASSUME localPc \in {"count", "tracks"}, localPc' \in {"count", "tracks", "counted"},
             UNCHANGED <<files, sought, keys, found, entriesFound, current_entry>>,
             trackNo' \in Nat \ {0}, tracksFound' \in Nat,
             localPc' = "tracks" => localPc = "tracks", localPc' = "counted" => keys = {},
             TracksInPlace', CountSoFar'
      PROVE  LocalIInv'
  <2>1. /\ cdc' = cdc /\ cdt' = cdt /\ tornNames' = tornNames /\ sought' = sought /\ keys' = keys
        /\ found' = found /\ entriesFound' = entriesFound /\ current_entry' = current_entry
    BY <1>4 DEF files
  <2>2. CdcTypeOK' /\ CdtTypeOK' /\ localPc' \in LocalPlaces
    BY <2>1, <1>4 DEF LocalTypeOK, CdcTypeOK, CdtTypeOK, LocalPlaces, ScanPlaces
  <2>3. LocalTypeOK'
    BY <2>1, <2>2, <1>4 DEF LocalTypeOK
  <2>4. ScanCounts'
    BY <2>1, <1>4 DEF ScanCounts, ScanPlaces
  <2> QED BY <2>1, <2>3, <2>4, <1>4 DEF ScanIsOver, ScanPlaces, Deletions
<1>5. CASE /\ CallAt("count") /\ keys = {} /\ Call("counted")
           /\ UNCHANGED <<files, scan, trackNo, current_entry>>
  <2>1. TracksInPlace'
    BY <1>5, TracksKept DEF CallAt, Call, files, Deletions
  <2>2. CountSoFar'
    BY <1>5 DEF CallAt, Call, files, scan, CountSoFar, TracksIn
  <2> QED BY <1>4, <1>5, <2>1, <2>2 DEF CallAt, Call, scan, LocalTypeOK
<1>6. CASE /\ CallAt("tracks") /\ <<found, trackNo>> \in cdt
           /\ trackNo' = trackNo + 1 /\ tracksFound' = tracksFound + 1
           /\ UNCHANGED <<files, sought, keys, found, entriesFound, localPc, current_entry>>
  <2>1. /\ localPc = "tracks" /\ localPc' = "tracks" /\ cdt' = cdt /\ tornNames' = tornNames
        /\ cdc' = cdc /\ keys' = keys /\ found' = found /\ trackNo \in Nat /\ tracksFound \in Nat
    BY <1>6 DEF CallAt, files, LocalTypeOK
  <2>2. ASSUME NEW name \in Names, name \notin tornNames
        PROVE  \E n \in Nat : NumbersOf(name)' = 1 .. n /\ LoopWithin(name, n)'
    <3>1. PICK n \in Nat : NumbersOf(name) = 1 .. n /\ LoopWithin(name, n)
      BY <2>1, <2>2 DEF TracksInPlace, BeingDeleted, Deletions
    <3>2. name = found => trackNo \in 1 .. n
      BY <1>6, <2>1, <3>1 DEF NumbersOf
    <3>3. LoopWithin(name, n)'
      BY <1>6, <2>1, <3>2 DEF LoopWithin
    <3> QED BY <2>1, <3>1, <3>3 DEF NumbersOf
  <2>3. TracksInPlace'
    BY <2>1, <2>2 DEF TracksInPlace, BeingDeleted, Deletions
  <2>4. CountSoFar'
    <3>1. Cardinality(TracksIn((cdc \ keys) \ {found})) \in Nat
      BY FS_Subset, FS_CardinalityType DEF TracksIn, LocalTypeOK, CdtTypeOK
    <3>2. TracksIn((cdc \ keys) \ {found})' = TracksIn((cdc \ keys) \ {found})
      BY <2>1 DEF TracksIn
    <3> QED BY <1>6, <2>1, <3>1, <3>2 DEF CountSoFar
  <2> QED BY <1>4, <1>6, <2>1, <2>3, <2>4
<1>7. CASE /\ CallAt("tracks") /\ <<found, trackNo>> \notin cdt /\ Call("count")
           /\ UNCHANGED <<files, scan, trackNo, current_entry>>
  <2>1. /\ localPc = "tracks" /\ localPc' = "count" /\ cdt' = cdt /\ tornNames' = tornNames
        /\ cdc' = cdc /\ keys' = keys /\ found' = found /\ tracksFound' = tracksFound
        /\ trackNo' = trackNo /\ trackNo \in Nat \ {0} /\ tracksFound \in Nat
    BY <1>7 DEF CallAt, Call, files, scan, LocalTypeOK
  <2>2. TracksInPlace'
    BY <2>1, TracksKept DEF Deletions
  <2>3. CountSoFar'
    <3> SUFFICES ASSUME tornNames = {} PROVE tracksFound = Cardinality(TracksIn(cdc \ keys))
      BY <2>1 DEF CountSoFar, TracksIn
    <3>1. found \in cdc /\ found \notin keys /\ found \in Names
      BY <2>1 DEF ScanCounts, ScanPlaces, LocalTypeOK, CdcTypeOK
    <3>2. PICK n \in Nat : NumbersOf(found) = 1 .. n /\ LoopWithin(found, n)
      BY <2>1, <3>1 DEF TracksInPlace, BeingDeleted, Deletions
    <3>3. trackNo <= n + 1 /\ trackNo \notin 1 .. n
      BY <1>7, <2>1, <3>2 DEF LoopWithin, NumbersOf
    <3>4. n = trackNo - 1
      BY <2>1, <3>2, <3>3
    <3>5. ((cdc \ keys) \ {found}) \cup {found} = cdc \ keys
      BY <3>1
    <3>6. Cardinality(TracksIn(cdc \ keys))
            = Cardinality(TracksIn((cdc \ keys) \ {found})) + n
      BY <3>2, <3>5, TracksAdd
    <3> QED BY <2>1, <3>4, <3>6 DEF CountSoFar
  <2> QED BY <1>4, <1>7, <2>1, <2>2, <2>3 DEF scan
<1> QED BY <1>1, <1>2, <1>3, <1>5, <1>6, <1>7 DEF count_all_entries

\* The promises of the three loops follow from where they are.
LEMMA LocalPromises == LocalIInv => LocalInv
<1> SUFFICES ASSUME LocalIInv PROVE LocalInv
  OBVIOUS
<1> USE DEF LocalIInv
<1>1. LocalTracksHaveNoGap
  <2> SUFFICES ASSUME localPc = "menu", NEW name \in Names, name \notin tornNames
               PROVE  LET numbers == {n \in 1 .. LastTrack + 1 : <<name, n>> \in cdt}
                      IN numbers = 1 .. Cardinality(numbers)
    BY DEF LocalTracksHaveNoGap
  <2>1. PICK n \in Nat : NumbersOf(name) = 1 .. n
    BY DEF TracksInPlace, BeingDeleted, Deletions
  <2>2. {m \in 1 .. LastTrack + 1 : <<name, m>> \in cdt} = NumbersOf(name)
    <3>1. \A m : <<name, m>> \in cdt => m \in 1 .. LastTrack
      BY DEF LocalTypeOK, CdtTypeOK
    <3> QED BY <3>1 DEF NumbersOf
  <2>3. Cardinality(1 .. n) = n
    BY FS_Interval
  <2> QED BY <2>1, <2>2, <2>3
<1>2. ScanReturnsEachOnce
  BY DEF ScanReturnsEachOnce, ScanCounts, ScanPlaces, LocalTypeOK
<1>3. LocalCountIsExact
  <2> SUFFICES ASSUME localPc = "counted", tornNames = {}
               PROVE  /\ entriesFound = Cardinality(cdc)
                      /\ tracksFound = Cardinality({k \in cdt : k[1] \in cdc})
    BY DEF LocalCountIsExact
  <2>1. keys = {} /\ sought = Names /\ cdc \cap sought = cdc /\ cdc \ keys = cdc
    BY DEF ScanCounts, LocalTypeOK, CdcTypeOK
  <2>2. entriesFound + Cardinality({}) = Cardinality(cdc) /\ Cardinality({}) = 0
        /\ entriesFound \in Nat
    BY <2>1, FS_EmptySet DEF ScanCounts, ScanPlaces, LocalTypeOK
  <2>3. tracksFound = Cardinality(TracksIn(cdc))
    BY <2>1 DEF CountSoFar
  <2> QED BY <2>2, <2>3 DEF TracksIn
<1> QED BY <1>1, <1>2, <1>3 DEF LocalInv

\* What the first form of the CD application stores, searches and counts agrees,
\* for any names and numbers of tracks, whichever calls fail and wherever it is
\* killed: tracks without a gap, each match once, and the exact count (access.c,
\* app_ui.c of ch07).
THEOREM OneProcessAgrees == LocalSpec => []LocalInv
<1>1. LocalIInv /\ [LocalNext]_localVars => LocalIInv'
  <2> SUFFICES ASSUME LocalIInv, [LocalNext]_localVars PROVE LocalIInv'
    OBVIOUS
  <2>1. CASE UNCHANGED localVars
    <3> USE <2>1 DEF localVars, files, scan, LocalIInv
    <3>1. LocalTypeOK'
      <4>1. CdcTypeOK' /\ CdtTypeOK'
        BY Zenon DEF LocalTypeOK, CdcTypeOK, CdtTypeOK
      <4> QED BY <4>1 DEF LocalTypeOK
    <3>2. TracksInPlace'
      <4>1. /\ \A name : NumbersOf(name)' = NumbersOf(name)
            /\ \A name : BeingDeleted(name)' <=> BeingDeleted(name)
            /\ \A name, n : LoopWithin(name, n)' <=> LoopWithin(name, n)
        BY DEF BeingDeleted, NumbersOf, LoopWithin
      <4> QED BY <4>1 DEF TracksInPlace
    <3>3. ScanIsOver' /\ ScanCounts' /\ CountSoFar'
      BY DEF ScanIsOver, ScanCounts, CountSoFar, TracksIn
    <3> QED BY <3>1, <3>2, <3>3
  <2>2. CASE LocalNext
    BY <2>2, OutsideStep, UnlinkStep, KillStep, EnterStep, DeleteStep, FindStep, CountStep
       DEF LocalNext
  <2> QED BY <2>1, <2>2
<1> QED BY <1>1, LocalStart, LocalPromises, PTL DEF LocalSpec

-----------------------------------------------------------------------------
(* The users of the CD application (ch13/app, ch14/app: app_ui.c).         *)

ChangePlaces == {"get", "ask", "deltracks", "delcat", "delcdc"}

Present == {c \in Catalogs : db.cdc[c] # Absent}

\* What the program of a user has selected, found and counted at each place.
UiPlaces ==
  \A u \in Users :
    /\ upc[u] \in ChangePlaces => cur[u] # Empty
    /\ upc[u] \in {"offer", "count"} => item[u] # Empty
    /\ upc[u] \in {"menu", "offer", "counted"} => track_no[u] = 1
    /\ upc[u] \notin {"count", "counted", "gone"} => cds[u] = 0 /\ tracks[u] = 0
    /\ u \notin team => upc[u] = "menu"

\* The files: finite, no track after the last one that is typed, none of a name
\* that is too long.
UiFiles ==
  /\ IsFiniteSet(Present)
  /\ \A c \in Catalogs : ~HasTrack(c, MaxTrack + 1)
  /\ \A c \in Catalogs, n \in TrackNos : HasTrack(c, n) => c \notin TooLong

\* The matches that were not offered are in work_file, and entries_matching is no
\* less than their number.
UiSearches ==
  \A u \in Users :
    /\ item[u] = Empty => offered[u] = asked[u]
    /\ item[u] # Empty =>
         /\ IsFiniteSet(work_file[u]) /\ Cardinality(work_file[u]) <= matching[u]
         /\ item[u] \in offered[u] /\ work_file[u] \cap offered[u] = {}
         /\ offered[u] \cup work_file[u] = asked[u]

\* Where the tracks of the entry are that u changes, when nobody else does.
ChangedBy(u, c) ==
  /\ upc[u] \in {"get", "ask"} =>
       \E n \in Nat : TracksOf(c) = 1 .. n /\ track_no[u] <= n + 1
  /\ upc[u] = "ask" => (there[u] <=> HasTrack(c, track_no[u]))
  /\ upc[u] \in {"deltracks", "delcat"} =>
       \E n \in Nat, first \in 1 .. track_no[u] :
         /\ TracksOf(c) = 1 .. first - 1 \cup track_no[u] .. n /\ track_no[u] <= n + 1
         /\ upc[u] = "delcat" => first = 1
  /\ upc[u] = "delcdc" => TracksOf(c) = {}

UiTracks ==
  \A c \in Catalogs \ torn :
    /\ Changing(c) = {} => \E n \in Nat : TracksOf(c) = 1 .. n
    /\ \A u \in Changing(c) : Changing(c) = {u} /\ ChangedBy(u, c)

TracksWith(names) == {k \in names \X TrackNos : db.cdt[k] # Absent}

\* The count of a user who is alone.
UiCount ==
  \A u \in Users : team = {u} =>
    /\ upc[u] # "gone" => torn = {}
    /\ upc[u] \in {"count", "counted"} =>
         asked[u] = Present /\ cds[u] = Cardinality(offered[u])
    /\ upc[u] = "count" =>
         /\ tracks[u] = Cardinality(TracksWith(offered[u] \ {item[u]})) + (track_no[u] - 1)
         /\ \E n \in Nat : TracksOf(item[u]) = 1 .. n /\ track_no[u] <= n + 1
    /\ upc[u] = "counted" =>
         tracks[u] = Cardinality(TracksWith(Present)) /\ item[u] = Empty

UiIInv == UiTypeOK /\ UiPlaces /\ UiFiles /\ UiSearches /\ UiTracks /\ UiCount

-----------------------------------------------------------------------------

USE CdUiAssumption

\* Nothing is stored, found or changed at first.
LEMMA UiStart == UiInit => UiIInv
<1> SUFFICES ASSUME UiInit PROVE UiIInv
  OBVIOUS
<1>1. UiTypeOK
  <2>1. db \in Databases
    BY EmptyDbType DEF UiInit
  <2>2. 1 \in 1 .. MaxTrack + 1 /\ "menu" \in UPc
    BY DEF UPc
  <2> QED BY <2>1, <2>2 DEF UiInit, UiTypeOK
<1>2. \A c \in Catalogs : TracksOf(c) = {} /\ Changing(c) = {} /\ db.cdc[c] = Absent
  BY DEF UiInit, EmptyDb, TracksOf, HasTrack, Changing
<1>3. UiFiles
  <2>1. Present = {}
    BY <1>2 DEF Present
  <2>2. \A c \in Catalogs : ~HasTrack(c, MaxTrack + 1)
    BY DEF UiInit, EmptyDb, HasTrack
  <2> QED BY <1>2, <2>1, <2>2, FS_EmptySet DEF UiFiles, TracksOf
<1>4. UiTracks
  <2>1. {} = 1 .. 0 /\ 0 \in Nat
    OBVIOUS
  <2> QED BY <1>2, <2>1 DEF UiTracks
<1> QED BY <1>1, <1>3, <1>4 DEF UiInit, UiIInv, UiPlaces, UiSearches, UiCount, ChangePlaces

\* A step of u that neither leaves nor enters the places where tracks are changed.
LEMMA OutsideChanges ==
  ASSUME UiTypeOK, UiTracks, NEW u \in Users, torn' = torn, db'.cdt = db.cdt,
         upc[u] \notin ChangePlaces, upc'[u] \notin ChangePlaces,
         \A v \in Users \ {u} : /\ upc'[v] = upc[v] /\ cur'[v] = cur[v]
                                /\ track_no'[v] = track_no[v] /\ there'[v] = there[v]
  PROVE  UiTracks'
<1>1. ASSUME NEW c \in Catalogs
      PROVE  /\ Changing(c)' = Changing(c) /\ TracksOf(c)' = TracksOf(c)
             /\ \A n : HasTrack(c, n)' <=> HasTrack(c, n)
             /\ \A v \in Changing(c) : v # u /\ v \in Users
  BY DEF Changing, ChangePlaces, TracksOf, HasTrack
<1>2. ASSUME NEW c \in Catalogs, NEW v \in Changing(c), ChangedBy(v, c) PROVE ChangedBy(v, c)'
  <2>1. /\ upc'[v] = upc[v] /\ track_no'[v] = track_no[v] /\ there'[v] = there[v]
        /\ TracksOf(c)' = TracksOf(c) /\ \A n : HasTrack(c, n)' <=> HasTrack(c, n)
    BY <1>1, <1>2
  <2> QED BY <1>2, <2>1 DEF ChangedBy, HasTrack
<1> QED BY <1>1, <1>2 DEF UiTracks

\* A step of a user in one of those places, for the entry that is changed.
LEMMA ChangerStep ==
  ASSUME UiTypeOK, UiTracks, NEW u \in Users, upc[u] \in ChangePlaces, cur[u] \in Catalogs,
         cur' = cur, torn \subseteq torn',
         \A v \in Users \ {u} : /\ upc'[v] = upc[v] /\ track_no'[v] = track_no[v]
                                /\ there'[v] = there[v],
         \A c \in Catalogs, n \in TrackNos :
           c # cur[u] => db'.cdt[<<c, n>>] = db.cdt[<<c, n>>],
         cur[u] \notin torn' /\ ChangedBy(u, cur[u]) =>
           IF upc'[u] \in ChangePlaces THEN ChangedBy(u, cur[u])'
                                       ELSE \E n \in Nat : TracksOf(cur[u])' = 1 .. n
  PROVE  UiTracks'
<1>1. ASSUME NEW c \in Catalogs, c # cur[u]
      PROVE  /\ Changing(c)' = Changing(c) /\ TracksOf(c)' = TracksOf(c)
             /\ \A n \in TrackNos : HasTrack(c, n)' <=> HasTrack(c, n)
             /\ \A v \in Changing(c) : v # u /\ v \in Users
  BY <1>1 DEF Changing, ChangePlaces, TracksOf, HasTrack
<1>2. ASSUME NEW c \in Catalogs, c # cur[u], NEW v \in Changing(c), ChangedBy(v, c)
      PROVE  ChangedBy(v, c)'
  <2>1. /\ upc'[v] = upc[v] /\ track_no'[v] = track_no[v] /\ there'[v] = there[v]
        /\ TracksOf(c)' = TracksOf(c) /\ track_no[v] \in TrackNos
        /\ \A n \in TrackNos : HasTrack(c, n)' <=> HasTrack(c, n)
    BY <1>1, <1>2 DEF UiTypeOK
  <2> QED BY <1>2, <2>1 DEF ChangedBy, HasTrack
<1>3. ASSUME cur[u] \notin torn'
      PROVE  /\ Changing(cur[u])' = {} => \E n \in Nat : TracksOf(cur[u])' = 1 .. n
             /\ \A v \in Changing(cur[u])' : Changing(cur[u])' = {v} /\ ChangedBy(v, cur[u])'
  <2>1. u \in Changing(cur[u])
    BY DEF Changing, ChangePlaces
  <2>2. Changing(cur[u]) = {u} /\ ChangedBy(u, cur[u])
    BY <1>3, <2>1 DEF UiTracks
  <2>3. ASSUME NEW v \in Changing(cur[u])' PROVE v = u
    BY <2>2, <2>3 DEF Changing
  <2>4. CASE upc'[u] \in ChangePlaces
    <3>1. Changing(cur[u])' = {u}
      BY <2>3, <2>4 DEF Changing, ChangePlaces
    <3> QED BY <1>3, <2>2, <2>4, <3>1
  <2>5. CASE upc'[u] \notin ChangePlaces
    <3>1. Changing(cur[u])' = {}
      BY <2>3, <2>5 DEF Changing, ChangePlaces
    <3> QED BY <1>3, <2>2, <2>5, <3>1
  <2> QED BY <2>4, <2>5
<1>4. ASSUME NEW c \in Catalogs, c \notin torn'
      PROVE  /\ Changing(c)' = {} => \E n \in Nat : TracksOf(c)' = 1 .. n
             /\ \A v \in Changing(c)' : Changing(c)' = {v} /\ ChangedBy(v, c)'
  <2>1. CASE c = cur[u]
    BY <1>3, <1>4, <2>1
  <2>2. CASE c # cur[u]
    BY <1>1, <1>2, <1>4, <2>2 DEF UiTracks
  <2> QED BY <2>1, <2>2
<1> QED BY <1>4 DEF UiTracks

\* The count says nothing of a user who is at no place of it.
LEMMA NotCounting ==
  ASSUME UiIInv, NEW u \in team, upc'[u] \notin {"count", "counted"}, team' = team,
         torn' = torn \/ upc'[u] = "gone" \/ team # {u}, upc[u] # "gone"
  PROVE  UiCount'
<1> SUFFICES ASSUME team = {u}
             PROVE  upc'[u] # "gone" => torn' = {}
  BY DEF UiCount
<1> QED BY DEF UiIInv, UiCount, UiTypeOK

\* A match that is returned is one of the file, and the count of the matches
\* stays above what is left.
LEMMA MatchReturned ==
  ASSUME UiTypeOK, NEW u \in Users, NEW matches \in SUBSET Catalogs, IsFiniteSet(matches),
         NEW count \in Nat, Cardinality(matches) <= count, NEW pc \in UPc, NEW done \in UPc,
         ReturnMatch(u, matches, count, pc, done)
  PROVE  /\ work_file' \in [Users -> SUBSET Catalogs] /\ matching' \in [Users -> Nat]
         /\ item' \in [Users -> Catalogs \cup {Empty}] /\ upc' \in [Users -> UPc]
         /\ \A v \in Users \ {u} : /\ work_file'[v] = work_file[v] /\ matching'[v] = matching[v]
                                   /\ item'[v] = item[v] /\ upc'[v] = upc[v]
         /\ \/ matches = {} /\ item'[u] = Empty /\ upc'[u] = done
            \/ /\ item'[u] \in matches /\ item'[u] # Empty /\ upc'[u] = pc
               /\ work_file'[u] = matches \ {item'[u]} /\ IsFiniteSet(work_file'[u])
               /\ Cardinality(work_file'[u]) <= matching'[u]
<1>1. Cardinality(matches) \in Nat /\ (Cardinality(matches) = 0 => matches = {})
  BY FS_CardinalityType, FS_EmptySet
<1>2. CASE count = 0 \/ matches = {}
  <2>1. matches = {}
    BY <1>1, <1>2
  <2>2. /\ work_file' = [work_file EXCEPT ![u] = {}] /\ item' = [item EXCEPT ![u] = Empty]
        /\ \E k \in Nat : matching' = [matching EXCEPT ![u] = k]
        /\ upc' = [upc EXCEPT ![u] = done]
    BY <1>2 DEF ReturnMatch, Goto
  <2> QED BY <2>1, <2>2 DEF UiTypeOK
<1>3. CASE ~(count = 0 \/ matches = {})
  <2>1. PICK c \in matches : /\ work_file' = [work_file EXCEPT ![u] = matches \ {c}]
                          /\ item' = [item EXCEPT ![u] = c]
                          /\ matching' = [matching EXCEPT ![u] = count - 1]
                          /\ upc' = [upc EXCEPT ![u] = pc]
    BY <1>3 DEF ReturnMatch, Goto
  <2>2. c \in Catalogs /\ c # Empty /\ count - 1 \in Nat
    BY <1>3
  <2>3. IsFiniteSet(matches \ {c}) /\ Cardinality(matches \ {c}) = Cardinality(matches) - 1
    BY FS_RemoveElement
  <2>4. Cardinality(matches \ {c}) <= count - 1
    BY <1>1, <2>3
  <2> QED BY <2>1, <2>2, <2>3, <2>4 DEF UiTypeOK
<1> QED BY <1>2, <1>3

\* What a search finds: entries that are on file, finitely many.
LEMMA MatchesPresent ==
  ASSUME UiTypeOK, UiFiles, NEW s \in Patterns
  PROVE  /\ Matching(db, s) \in SUBSET Catalogs /\ Matching(db, s) \subseteq Present
         /\ IsFiniteSet(Matching(db, s)) /\ Matching(db, AnyText) = Present
<1>1. Matching(db, s) \in SUBSET Catalogs /\ Matching(db, s) \subseteq Present
  BY CdDbmAssumption DEF Matching, Present
<1>2. Matching(db, AnyText) = Present
  BY DEF Matching, Present
<1>3. IsFiniteSet(Matching(db, s))
  BY <1>1, FS_Subset DEF UiFiles
<1> QED BY <1>1, <1>2, <1>3

\* The first call of a search.
LEMMA FirstMatchStep ==
  ASSUME UiIInv, NEW u \in Users, NEW s \in Patterns, NEW pc \in UPc, NEW done \in UPc,
         FirstMatch(u, s, pc, done)
  PROVE  /\ work_file' \in [Users -> SUBSET Catalogs] /\ matching' \in [Users -> Nat]
         /\ item' \in [Users -> Catalogs \cup {Empty}] /\ upc' \in [Users -> UPc]
         /\ asked' \in [Users -> SUBSET Catalogs] /\ offered' \in [Users -> SUBSET Catalogs]
         /\ UiSearches' /\ \A v \in Users \ {u} : item'[v] = item[v] /\ upc'[v] = upc[v]
         /\ asked'[u] = Matching(db, s)
         /\ \/ asked'[u] = {} /\ offered'[u] = {} /\ item'[u] = Empty /\ upc'[u] = done
            \/ /\ item'[u] # Empty /\ upc'[u] = pc /\ offered'[u] = {item'[u]}
               /\ item'[u] \in asked'[u]
<1> DEFINE matches  == Matching(db, s)
           count == matching[u] + Cardinality(matches)
<1>1. matches \in SUBSET Catalogs /\ IsFiniteSet(matches)
  BY MatchesPresent DEF UiIInv
<1>2. Cardinality(matches) \in Nat
  BY <1>1, FS_CardinalityType
<1>3. count \in Nat /\ Cardinality(matches) <= count
  BY <1>2 DEF UiIInv, UiTypeOK
<1>4. /\ ReturnMatch(u, matches, count, pc, done) /\ asked' = [asked EXCEPT ![u] = matches]
      /\ offered' = [offered EXCEPT ![u] = {item'[u]} \ {Empty}]
  BY DEF FirstMatch
<1> HIDE DEF matches, count
<1>5. /\ work_file' \in [Users -> SUBSET Catalogs] /\ matching' \in [Users -> Nat]
      /\ item' \in [Users -> Catalogs \cup {Empty}] /\ upc' \in [Users -> UPc]
      /\ \A v \in Users \ {u} : /\ work_file'[v] = work_file[v] /\ matching'[v] = matching[v]
                                /\ item'[v] = item[v] /\ upc'[v] = upc[v]
      /\ \/ matches = {} /\ item'[u] = Empty /\ upc'[u] = done
         \/ /\ item'[u] \in matches /\ item'[u] # Empty /\ upc'[u] = pc
            /\ work_file'[u] = matches \ {item'[u]} /\ IsFiniteSet(work_file'[u])
            /\ Cardinality(work_file'[u]) <= matching'[u]
  BY <1>1, <1>3, <1>4, MatchReturned DEF UiIInv
<1>6. {item'[u]} \ {Empty} \in SUBSET Catalogs
  BY <1>5
<1>7. /\ asked' \in [Users -> SUBSET Catalogs] /\ offered' \in [Users -> SUBSET Catalogs]
      /\ asked'[u] = matches /\ offered'[u] = {item'[u]} \ {Empty}
      /\ \A v \in Users \ {u} : asked'[v] = asked[v] /\ offered'[v] = offered[v]
  BY <1>1, <1>4, <1>6 DEF UiIInv, UiTypeOK
<1>8. ASSUME NEW v \in Users
      PROVE  /\ item'[v] = Empty => offered'[v] = asked'[v]
             /\ item'[v] # Empty =>
                  /\ IsFiniteSet(work_file'[v]) /\ Cardinality(work_file'[v]) <= matching'[v]
                  /\ item'[v] \in offered'[v] /\ work_file'[v] \cap offered'[v] = {}
                  /\ offered'[v] \cup work_file'[v] = asked'[v]
  <2>1. CASE v = u /\ item'[u] = Empty
    BY <1>5, <1>7, <2>1
  <2>2. CASE v = u /\ item'[u] # Empty
    <3>1. offered'[u] = {item'[u]} /\ item'[u] \in matches /\ work_file'[u] = matches \ {item'[u]}
      BY <1>5, <1>7, <2>2
    <3> QED BY <1>5, <1>7, <2>2, <3>1
  <2>3. CASE v # u
    BY <1>5, <1>7, <2>3 DEF UiIInv, UiSearches
  <2> QED BY <2>1, <2>2, <2>3
<1>9. UiSearches'
  BY <1>8 DEF UiSearches
<1> QED BY <1>5, <1>7, <1>9 DEF matches

\* A further call.
LEMMA NextMatchReturned ==
  ASSUME UiIInv, NEW u \in Users, item[u] # Empty, NEW pc \in UPc, NEW done \in UPc,
         NextMatch(u, pc, done)
  PROVE  /\ work_file' \in [Users -> SUBSET Catalogs] /\ matching' \in [Users -> Nat]
         /\ item' \in [Users -> Catalogs \cup {Empty}] /\ upc' \in [Users -> UPc]
         /\ asked' = asked /\ offered' \in [Users -> SUBSET Catalogs]
         /\ UiSearches' /\ \A v \in Users \ {u} : item'[v] = item[v] /\ upc'[v] = upc[v]
         /\ \/ /\ offered'[u] = offered[u] /\ offered[u] = asked[u] /\ item'[u] = Empty
               /\ upc'[u] = done
            \/ /\ item'[u] # Empty /\ upc'[u] = pc /\ item'[u] \in asked[u] \ offered[u]
               /\ offered'[u] = offered[u] \cup {item'[u]}
<1> DEFINE matches  == work_file[u]
           count == matching[u]
<1>1. /\ matches \in SUBSET Catalogs /\ IsFiniteSet(matches) /\ count \in Nat
      /\ Cardinality(matches) <= count /\ matches \cap offered[u] = {}
      /\ offered[u] \cup matches = asked[u]
  BY DEF UiIInv, UiTypeOK, UiSearches
<1>2. /\ ReturnMatch(u, matches, count, pc, done) /\ asked' = asked
      /\ offered' = [offered EXCEPT ![u] = @ \cup ({item'[u]} \ {Empty})]
  BY DEF NextMatch
<1> HIDE DEF matches, count
<1>3. /\ work_file' \in [Users -> SUBSET Catalogs] /\ matching' \in [Users -> Nat]
      /\ item' \in [Users -> Catalogs \cup {Empty}] /\ upc' \in [Users -> UPc]
      /\ \A v \in Users \ {u} : /\ work_file'[v] = work_file[v] /\ matching'[v] = matching[v]
                                /\ item'[v] = item[v] /\ upc'[v] = upc[v]
      /\ \/ matches = {} /\ item'[u] = Empty /\ upc'[u] = done
         \/ /\ item'[u] \in matches /\ item'[u] # Empty /\ upc'[u] = pc
            /\ work_file'[u] = matches \ {item'[u]} /\ IsFiniteSet(work_file'[u])
            /\ Cardinality(work_file'[u]) <= matching'[u]
  BY <1>1, <1>2, MatchReturned DEF UiIInv
<1>4. {item'[u]} \ {Empty} \in SUBSET Catalogs
  BY <1>3
<1>5. /\ offered' \in [Users -> SUBSET Catalogs]
      /\ offered'[u] = offered[u] \cup ({item'[u]} \ {Empty})
      /\ \A v \in Users \ {u} : offered'[v] = offered[v]
  BY <1>2, <1>4 DEF UiIInv, UiTypeOK
<1>6. ASSUME NEW v \in Users
      PROVE  /\ item'[v] = Empty => offered'[v] = asked'[v]
             /\ item'[v] # Empty =>
                  /\ IsFiniteSet(work_file'[v]) /\ Cardinality(work_file'[v]) <= matching'[v]
                  /\ item'[v] \in offered'[v] /\ work_file'[v] \cap offered'[v] = {}
                  /\ offered'[v] \cup work_file'[v] = asked'[v]
  <2>1. CASE v = u
    BY <1>1, <1>2, <1>3, <1>5, <2>1
  <2>2. CASE v # u
    BY <1>2, <1>3, <1>5, <2>2 DEF UiIInv, UiSearches
  <2> QED BY <2>1, <2>2
<1>7. UiSearches'
  BY <1>6 DEF UiSearches
<1>8. \/ /\ offered'[u] = offered[u] /\ offered[u] = asked[u] /\ item'[u] = Empty
         /\ upc'[u] = done
      \/ /\ item'[u] # Empty /\ upc'[u] = pc /\ item'[u] \in asked[u] \ offered[u]
         /\ offered'[u] = offered[u] \cup {item'[u]}
  <2>1. CASE matches = {} /\ item'[u] = Empty /\ upc'[u] = done
    BY <1>1, <1>5, <2>1
  <2>2. CASE item'[u] \in matches /\ item'[u] # Empty /\ upc'[u] = pc
    BY <1>1, <1>5, <2>2
  <2> QED BY <1>3, <2>1, <2>2
<1> QED BY <1>2, <1>3, <1>5, <1>7, <1>8

\* What was found is kept by a step that does not search.
LEMMA SearchesKept ==
  ASSUME UiSearches, UNCHANGED searchVars
  PROVE  UiSearches'
BY DEF UiSearches, searchVars

\* The files are kept by a step that does not change them.
LEMMA FilesKept ==
  ASSUME UiFiles, db' = db
  PROVE  UiFiles'
<1>1. Present' = Present /\ \A c, n : HasTrack(c, n)' <=> HasTrack(c, n)
  BY DEF Present, HasTrack
<1> QED BY <1>1 DEF UiFiles, HasTrack

\* A step of u that searches and counts nothing keeps what is said of searches
\* and counts.
LEMMA QuietStep ==
  ASSUME UiIInv, NEW u \in team, team' = team, db' \in Databases, UiFiles', UiTracks',
         UNCHANGED <<searchVars, countVars>>,
         upc' \in [Users -> UPc], cur' \in [Users -> Catalogs \cup {Empty}],
         track_no' \in [Users -> 1 .. MaxTrack + 1], there' \in [Users -> BOOLEAN],
         torn' \subseteq Catalogs, torn' = torn \/ upc'[u] = "gone" \/ team # {u},
         \A v \in Users \ {u} : /\ upc'[v] = upc[v] /\ cur'[v] = cur[v]
                                /\ track_no'[v] = track_no[v],
         upc[u] # "gone", upc[u] \in {"count", "counted"} => upc'[u] = "gone",
         upc'[u] \notin {"offer", "count", "counted"},
         upc'[u] \in ChangePlaces => cur'[u] # Empty, upc'[u] = "menu" => track_no'[u] = 1
  PROVE  UiIInv'
<1>1. u \in Users
  BY DEF UiIInv, UiTypeOK
<1>2. /\ work_file' = work_file /\ matching' = matching /\ item' = item /\ asked' = asked
      /\ offered' = offered /\ cds' = cds /\ tracks' = tracks
  BY DEF searchVars, countVars
<1>3. UiTypeOK'
  BY <1>2 DEF UiIInv, UiTypeOK
<1>4. UiSearches'
  BY SearchesKept DEF UiIInv
<1>5. UiCount'
  BY NotCounting
<1>6. ASSUME NEW v \in Users
      PROVE  /\ upc'[v] \in ChangePlaces => cur'[v] # Empty
             /\ upc'[v] \in {"offer", "count"} => item'[v] # Empty
             /\ upc'[v] \in {"menu", "offer", "counted"} => track_no'[v] = 1
             /\ upc'[v] \notin {"count", "counted", "gone"} => cds'[v] = 0 /\ tracks'[v] = 0
             /\ v \notin team' => upc'[v] = "menu"
  <2>1. CASE v # u
    BY <1>2, <2>1 DEF UiIInv, UiPlaces
  <2>2. CASE v = u
    BY <1>1, <1>2, <2>2 DEF UiIInv, UiPlaces
  <2> QED BY <2>1, <2>2
<1>7. UiPlaces'
  BY <1>6 DEF UiPlaces
<1> QED BY <1>3, <1>4, <1>5, <1>7 DEF UiIInv

\* The files after one track is stored or deleted.
LEMMA FilesWithTrack ==
  ASSUME UiTypeOK, UiFiles, NEW c \in Catalogs, NEW n \in TrackNos, NEW x \in Texts \cup {Absent},
         x = Absent \/ (n # MaxTrack + 1 /\ c \notin TooLong),
         db' = [db EXCEPT !.cdt[<<c, n>>] = x]
  PROVE  UiFiles' /\ db' \in Databases
         /\ \A k \in Catalogs, m \in TrackNos :
              db'.cdt[<<k, m>>] = IF k = c /\ m = n THEN x ELSE db.cdt[<<k, m>>]
<1>1. /\ db' \in Databases /\ db'.cdc = db.cdc
      /\ \A k \in Catalogs, m \in TrackNos :
           db'.cdt[<<k, m>>] = IF k = c /\ m = n THEN x ELSE db.cdt[<<k, m>>]
  <2>1. db \in Databases
    BY DEF UiTypeOK
  <2> QED BY <2>1 DEF Databases
<1>2. Present' = Present
  BY <1>1 DEF Present
<1>3. MaxTrack + 1 \in TrackNos
  OBVIOUS
<1>4. UiFiles'
  BY <1>1, <1>2, <1>3 DEF UiFiles, HasTrack
<1> QED BY <1>1, <1>4

\* What a deletion of a track does.
LEMMA DeletedTrack ==
  ASSUME UiTypeOK, UiFiles, NEW c \in Catalogs, NEW n \in TrackNos,
         NEW o \in del_cdt_entry(db, c, n), db' = o.db
  PROVE  /\ db' \in Databases /\ UiFiles'
         /\ o.result.response = "r_success" =>
              /\ HasTrack(c, n)
              /\ \A k \in Catalogs, m \in TrackNos :
                   db'.cdt[<<k, m>>] = IF k = c /\ m = n THEN Absent ELSE db.cdt[<<k, m>>]
         /\ o.result.response # "r_success" => ~HasTrack(c, n) /\ db' = db
<1>1. CASE c \in TooLong \/ db.cdt[<<c, n>>] = Absent
  <2>1. o = Failed(db)
    BY <1>1 DEF del_cdt_entry
  <2>2. o.db = db /\ o.result.response = "r_failure"
    BY <2>1 DEF Failed, Outcome
  <2>3. ~HasTrack(c, n)
    BY <1>1 DEF UiFiles, HasTrack
  <2> QED BY <2>2, <2>3, FilesKept DEF UiTypeOK
<1>2. CASE ~(c \in TooLong \/ db.cdt[<<c, n>>] = Absent)
  <2>1. o = Done([db EXCEPT !.cdt[<<c, n>>] = Absent])
    BY <1>2 DEF del_cdt_entry
  <2>2. o.db = [db EXCEPT !.cdt[<<c, n>>] = Absent] /\ o.result.response = "r_success"
    BY <2>1 DEF Done, Outcome
  <2>3. HasTrack(c, n)
    BY <1>2 DEF HasTrack
  <2> QED BY <2>2, <2>3, FilesWithTrack
<1> QED BY <1>1, <1>2

\* A track that is not there ends a deletion, and the numbers after it are none.
LEMMA TracksWithout ==
  ASSUME NEW c \in Catalogs, NEW n \in TrackNos,
         \A m \in TrackNos :
           db'.cdt[<<c, m>>] = IF m = n THEN Absent ELSE db.cdt[<<c, m>>]
  PROVE  TracksOf(c)' = TracksOf(c) \ {n}
BY DEF TracksOf, HasTrack

\* enter_new_cat_entry.
LEMMA AddCatStep ==
  ASSUME UiIInv, NEW u \in team, team' = team, AddCat(u)
  PROVE  UiIInv'
<1>1. u \in Users /\ upc[u] = "menu" /\ track_no[u] = 1 /\ UiTypeOK /\ UiFiles /\ UiTracks
  BY DEF UiIInv, UiTypeOK, UiPlaces, AddCat
<1>2. /\ upc' = upc /\ track_no' = track_no /\ there' = there /\ torn' = torn
      /\ UNCHANGED <<searchVars, countVars>>
  BY DEF AddCat, entryVars
<1>3. PICK c \in Catalogs, t \in Titles :
        /\ db' = db \/ db' = [db EXCEPT !.cdc[c] = t]
        /\ cur' = [cur EXCEPT ![u] = c] \/ cur' = [cur EXCEPT ![u] = Empty]
  <2>1. PICK c \in Catalogs \ TooLong, t \in Titles :
          \E o \in add_cdc_entry(db, c, t) :
            /\ db' = o.db
            /\ cur' = [cur EXCEPT ![u] = IF o.result.response = "r_success" THEN c ELSE Empty]
    BY DEF AddCat
  <2>2. PICK o \in {Done([db EXCEPT !.cdc[c] = t]), Failed(db)} :
          /\ db' = o.db
          /\ cur' = [cur EXCEPT ![u] = IF o.result.response = "r_success" THEN c ELSE Empty]
    BY <2>1 DEF add_cdc_entry
  <2>3. db' = db \/ db' = [db EXCEPT !.cdc[c] = t]
    BY <2>2 DEF Done, Failed, Outcome
  <2>4. cur' = [cur EXCEPT ![u] = c] \/ cur' = [cur EXCEPT ![u] = Empty]
    <3>1. CASE o.result.response = "r_success"
      BY <2>2, <3>1
    <3>2. CASE o.result.response # "r_success"
      BY <2>2, <3>2
    <3> QED BY <3>1, <3>2
  <2> QED BY <2>3, <2>4
<1>4. /\ db' \in Databases /\ db'.cdt = db.cdt
      /\ \A k \in Catalogs \ {c} : db'.cdc[k] = db.cdc[k]
  <2>1. CASE db' = db
    BY <1>1, <2>1 DEF UiTypeOK
  <2>2. CASE db' = [db EXCEPT !.cdc[c] = t]
    BY <1>1, <2>2 DEF UiTypeOK, Databases
  <2> QED BY <1>3, <2>1, <2>2
<1>5. Present' \subseteq Present \cup {c}
  BY <1>4 DEF Present
<1>6. UiFiles'
  <2>1. IsFiniteSet(Present')
    BY <1>1, <1>5, FS_AddElement, FS_Subset DEF UiFiles
  <2> QED BY <1>1, <1>4, <2>1 DEF UiFiles, HasTrack
<1>7. /\ cur' \in [Users -> Catalogs \cup {Empty}]
      /\ \A v \in Users \ {u} : cur'[v] = cur[v]
  <2>1. cur \in [Users -> Catalogs \cup {Empty}]
    BY <1>1 DEF UiTypeOK
  <2> QED BY <1>1, <1>3, <2>1
<1>8. UiTracks'
  BY <1>1, <1>2, <1>4, <1>7, OutsideChanges DEF ChangePlaces
<1> QED BY <1>1, <1>2, <1>4, <1>6, <1>7, <1>8, QuietStep DEF ChangePlaces, UiTypeOK

\* A loop over the tracks starts at the first; when another user changes them,
\* they are torn.
LEMMA OverTracksStep ==
  ASSUME UiIInv, NEW u \in team, team' = team, NEW pc \in {"get", "delcat"}, OverTracks(u, pc)
  PROVE  UiIInv'
<1>1. /\ u \in Users /\ upc[u] = "menu" /\ cur[u] \in Catalogs /\ cur[u] # Empty
      /\ UiTypeOK /\ UiFiles /\ UiTracks
  BY DEF UiIInv, UiTypeOK, OverTracks
<1>2. /\ upc' = [upc EXCEPT ![u] = pc] /\ track_no' = [track_no EXCEPT ![u] = 1]
      /\ torn' = IF Changing(cur[u]) # {} THEN torn \cup {cur[u]} ELSE torn
      /\ db' = db /\ cur' = cur /\ there' = there /\ UNCHANGED <<searchVars, countVars>>
  BY DEF OverTracks, Goto
<1>3. /\ upc' \in [Users -> UPc] /\ track_no' \in [Users -> 1 .. MaxTrack + 1]
      /\ upc'[u] = pc /\ track_no'[u] = 1 /\ torn' \subseteq Catalogs
      /\ \A v \in Users \ {u} : upc'[v] = upc[v] /\ track_no'[v] = track_no[v]
  BY <1>1, <1>2 DEF UiTypeOK, UPc
<1>4. team = {u} => Changing(cur[u]) = {}
  BY <1>1 DEF UiIInv, UiPlaces, Changing
<1>5. UiFiles'
  BY <1>1, <1>2, FilesKept
<1>6. UiTracks'
  <2>1. \A c, n : HasTrack(c, n)' <=> HasTrack(c, n)
    BY <1>2 DEF HasTrack
  <2>2. \A c : TracksOf(c)' = TracksOf(c)
    BY <2>1 DEF TracksOf, HasTrack
  <2>3. ASSUME NEW c \in Catalogs, NEW v \in Changing(c), ChangedBy(v, c) PROVE ChangedBy(v, c)'
    <3>1. v # u /\ v \in Users
      BY <1>1 DEF Changing
    <3>2. /\ upc'[v] = upc[v] /\ track_no'[v] = track_no[v] /\ there'[v] = there[v]
          /\ TracksOf(c)' = TracksOf(c) /\ \A n : HasTrack(c, n)' <=> HasTrack(c, n)
      BY <1>2, <1>3, <2>1, <2>2, <3>1
    <3> QED BY <2>3, <3>2 DEF ChangedBy, HasTrack
  <2>4. ASSUME NEW c \in Catalogs, c # cur[u] PROVE Changing(c)' = Changing(c)
    BY <1>1, <1>2, <1>3, <2>4 DEF Changing
  <2>5. Changing(cur[u])' = Changing(cur[u]) \cup {u}
    BY <1>1, <1>2, <1>3 DEF Changing
  <2>6. ASSUME Changing(cur[u]) = {}, cur[u] \notin torn PROVE ChangedBy(u, cur[u])'
    <3>1. PICK n \in Nat : TracksOf(cur[u]) = 1 .. n
      BY <1>1, <2>6 DEF UiTracks
    <3>2. TracksOf(cur[u])' = 1 .. n
      BY <1>2, <2>2, <3>1
    <3>3. 1 .. n = 1 .. 0 \cup 1 .. n /\ 1 <= n + 1 /\ 1 \in 1 .. 1
      OBVIOUS
    <3>4. CASE pc = "get"
      <4>1. upc'[u] = "get" /\ track_no'[u] <= n + 1
        BY <1>3, <3>3, <3>4
      <4> QED BY <1>2, <3>2, <4>1 DEF ChangedBy
    <3>5. CASE pc = "delcat"
      <4>1. /\ upc'[u] = "delcat" /\ 1 \in 1 .. track_no'[u] /\ track_no'[u] <= n + 1
            /\ TracksOf(cur[u])' = 1 .. 1 - 1 \cup track_no'[u] .. n
        BY <1>3, <3>2, <3>3, <3>5
      <4> QED BY <1>2, <4>1 DEF ChangedBy
    <3> QED BY <3>4, <3>5
  <2>7. ASSUME NEW c \in Catalogs, c \notin torn'
        PROVE  /\ Changing(c)' = {} => \E n \in Nat : TracksOf(c)' = 1 .. n
               /\ \A v \in Changing(c)' : Changing(c)' = {v} /\ ChangedBy(v, c)'
    <3>1. c \notin torn
      BY <1>2, <2>7
    <3>2. CASE c # cur[u]
      BY <1>1, <2>2, <2>3, <2>4, <3>1, <3>2 DEF UiTracks
    <3>3. CASE c = cur[u]
      <4>1. Changing(cur[u]) = {} /\ Changing(c)' = {u}
        BY <1>2, <2>5, <2>7, <3>3
      <4>2. ChangedBy(u, cur[u])'
        BY <2>6, <3>1, <3>3, <4>1
      <4>3. ChangedBy(u, c)'
        BY <1>2, <3>3, <4>2
      <4> QED BY <4>1, <4>3
    <3> QED BY <3>2, <3>3
  <2> QED BY <2>7 DEF UiTracks
<1>7. cur'[u] # Empty /\ \A v \in Users : cur'[v] = cur[v]
  BY <1>1, <1>2
<1>8. torn' = torn \/ team # {u}
  BY <1>2, <1>4
<1>9. upc'[u] \notin {"offer", "count", "counted", "menu", "gone"}
  BY <1>3
<1> QED BY <1>1, <1>2, <1>3, <1>5, <1>6, <1>7, <1>8, <1>9, QuietStep DEF UiTypeOK

\* A user who changes tracks: where, and of which entry.
LEMMA AtChange ==
  ASSUME UiIInv, NEW u \in team, upc[u] \in ChangePlaces
  PROVE  /\ u \in Users /\ cur[u] \in Catalogs /\ cur[u] # Empty /\ track_no[u] \in TrackNos
         /\ track_no[u] \in Nat /\ UiTypeOK /\ UiFiles /\ UiTracks
         /\ upc[u] \notin {"gone", "count", "counted"}
BY DEF UiIInv, UiTypeOK, UiPlaces, ChangePlaces

\* A step of a user in a loop over tracks that searches and counts nothing.
LEMMA LoopStep ==
  ASSUME UiIInv, NEW u \in team, upc[u] \in ChangePlaces, team' = team,
         db' \in Databases, UiFiles', cur' = cur, torn' = torn,
         UNCHANGED <<searchVars, countVars>>,
         NEW pc \in ChangePlaces \cup {"menu"}, upc' = [upc EXCEPT ![u] = pc],
         track_no' \in [Users -> 1 .. MaxTrack + 1], there' \in [Users -> BOOLEAN],
         \A v \in Users \ {u} : track_no'[v] = track_no[v] /\ there'[v] = there[v],
         pc = "menu" => track_no'[u] = 1,
         \A c \in Catalogs, n \in TrackNos :
           c # cur[u] => db'.cdt[<<c, n>>] = db.cdt[<<c, n>>],
         cur[u] \notin torn /\ ChangedBy(u, cur[u]) =>
           IF pc = "menu" THEN \E n \in Nat : TracksOf(cur[u])' = 1 .. n
                          ELSE ChangedBy(u, cur[u])'
  PROVE  UiIInv'
<1>1. /\ u \in Users /\ cur[u] \in Catalogs /\ cur[u] # Empty /\ UiTypeOK /\ UiTracks
      /\ upc[u] \notin {"gone", "count", "counted"}
  BY AtChange
<1>2. /\ upc' \in [Users -> UPc] /\ upc'[u] = pc /\ \A v \in Users \ {u} : upc'[v] = upc[v]
      /\ pc \notin {"offer", "count", "counted"} /\ (pc # "menu" => pc \in ChangePlaces)
      /\ "menu" \notin ChangePlaces
  BY <1>1 DEF UiTypeOK, UPc, ChangePlaces
<1>3. UiTracks'
  BY <1>1, <1>2, ChangerStep
<1> QED BY <1>1, <1>2, <1>3, QuietStep DEF UiTypeOK

\* The end of such a loop: the variables of its function are gone.
LEMMA LoopEnds ==
  ASSUME UiIInv, NEW u \in team, upc[u] \in ChangePlaces, team' = team,
         db' \in Databases, UiFiles', cur' = cur, torn' = torn,
         UNCHANGED <<searchVars, countVars>>, ToMenu(u),
         \A c \in Catalogs, n \in TrackNos :
           c # cur[u] => db'.cdt[<<c, n>>] = db.cdt[<<c, n>>],
         cur[u] \notin torn /\ ChangedBy(u, cur[u]) =>
           \E n \in Nat : TracksOf(cur[u])' = 1 .. n
  PROVE  UiIInv'
<1>1. u \in Users /\ UiTypeOK
  BY AtChange
<1>2. /\ upc' = [upc EXCEPT ![u] = "menu"]
      /\ track_no' \in [Users -> 1 .. MaxTrack + 1] /\ there' \in [Users -> BOOLEAN]
      /\ track_no'[u] = 1
      /\ \A v \in Users \ {u} : track_no'[v] = track_no[v] /\ there'[v] = there[v]
  BY <1>1 DEF ToMenu, Goto, UiTypeOK
<1>3. "menu" \in ChangePlaces \cup {"menu"}
  OBVIOUS
<1> QED BY <1>2, <1>3, LoopStep

\* A step that does not change the files keeps every track where it is.
LEMMA SameTracks ==
  ASSUME db' = db
  PROVE  /\ \A c, n : HasTrack(c, n)' <=> HasTrack(c, n)
         /\ \A c : TracksOf(c)' = TracksOf(c)
<1>1. \A c, n : HasTrack(c, n)' <=> HasTrack(c, n)
  BY DEF HasTrack
<1> QED BY <1>1 DEF TracksOf, HasTrack

\* enter_new_track_entries: an existing track is fetched.
LEMMA GetTrackStep ==
  ASSUME UiIInv, NEW u \in team, team' = team, GetTrack(u)
  PROVE  UiIInv'
<1>1. upc[u] = "get" /\ upc[u] \in ChangePlaces /\ "ask" \in ChangePlaces \cup {"menu"}
  BY DEF GetTrack, ChangePlaces
<1>2. /\ u \in Users /\ cur[u] \in Catalogs /\ UiTypeOK /\ UiFiles
  BY <1>1, AtChange
<1>3. /\ upc' = [upc EXCEPT ![u] = "ask"] /\ track_no' = track_no /\ cur' = cur /\ torn' = torn
      /\ there' = [there EXCEPT ![u] = HasTrack(cur[u], track_no[u])]
      /\ db' = db /\ UNCHANGED <<searchVars, countVars>>
  BY DEF GetTrack, Goto
<1>4. HasTrack(cur[u], track_no[u]) \in BOOLEAN
  BY DEF HasTrack
<1>5. /\ there' \in [Users -> BOOLEAN] /\ (there'[u] <=> HasTrack(cur[u], track_no[u]))
      /\ \A v \in Users \ {u} : there'[v] = there[v]
  BY <1>2, <1>3, <1>4, Zenon DEF UiTypeOK
<1>6. UiFiles'
  BY <1>2, <1>3, FilesKept
<1>7. ASSUME ChangedBy(u, cur[u]) PROVE ChangedBy(u, cur[u])'
  <2>1. PICK n \in Nat : TracksOf(cur[u]) = 1 .. n /\ track_no[u] <= n + 1
    BY <1>1, <1>7 DEF ChangedBy
  <2>2. TracksOf(cur[u])' = 1 .. n /\ track_no'[u] <= n + 1 /\ upc'[u] = "ask"
    BY <1>2, <1>3, <2>1, SameTracks DEF UiTypeOK
  <2>3. there'[u] <=> HasTrack(cur[u], track_no[u])'
    BY <1>3, <1>5 DEF HasTrack
  <2> QED BY <1>3, <2>2, <2>3 DEF ChangedBy
<1>8. /\ db' \in Databases /\ track_no' \in [Users -> 1 .. MaxTrack + 1]
      /\ \A v \in Users \ {u} : track_no'[v] = track_no[v]
      /\ \A c \in Catalogs, n \in TrackNos : db'.cdt[<<c, n>>] = db.cdt[<<c, n>>]
  BY <1>2, <1>3 DEF UiTypeOK
<1> QED BY <1>1, <1>3, <1>5, <1>6, <1>7, <1>8, LoopStep

\* An existing track that stays, or the end of the loop.
LEMMA KeepTrackStep ==
  ASSUME UiIInv, NEW u \in team, team' = team, KeepTrack(u)
  PROVE  UiIInv'
<1>1. upc[u] = "ask" /\ upc[u] \in ChangePlaces
  BY DEF KeepTrack, ChangePlaces
<1>2. /\ u \in Users /\ cur[u] \in Catalogs /\ UiTypeOK /\ UiFiles /\ track_no[u] \in TrackNos
  BY <1>1, AtChange
<1>3. cur' = cur /\ torn' = torn /\ db' = db /\ UNCHANGED <<searchVars, countVars>>
  BY DEF KeepTrack
<1>4. UiFiles'
  BY <1>2, <1>3, FilesKept
<1>5. /\ db' \in Databases
      /\ \A c \in Catalogs, n \in TrackNos : db'.cdt[<<c, n>>] = db.cdt[<<c, n>>]
  BY <1>2, <1>3 DEF UiTypeOK
<1>6. CASE there[u]
  <2>1. /\ track_no[u] <= MaxTrack /\ track_no' = [track_no EXCEPT ![u] = @ + 1]
        /\ upc' = [upc EXCEPT ![u] = "get"] /\ there' = there
    BY <1>6 DEF KeepTrack, NextTrack, Goto
  <2>2. /\ track_no' \in [Users -> 1 .. MaxTrack + 1] /\ track_no'[u] = track_no[u] + 1
        /\ \A v \in Users \ {u} : track_no'[v] = track_no[v]
        /\ there' \in [Users -> BOOLEAN] /\ upc'[u] = "get"
        /\ "get" \in ChangePlaces \cup {"menu"}
    BY <1>2, <2>1 DEF UiTypeOK, ChangePlaces
  <2>3. ASSUME ChangedBy(u, cur[u]) PROVE ChangedBy(u, cur[u])'
    <3>1. PICK n \in Nat : TracksOf(cur[u]) = 1 .. n /\ track_no[u] <= n + 1
      BY <1>1, <2>3 DEF ChangedBy
    <3>2. track_no[u] \in TracksOf(cur[u])
      BY <1>1, <1>2, <1>6, <2>3 DEF ChangedBy, TracksOf
    <3>3. track_no[u] + 1 <= n + 1
      BY <3>1, <3>2
    <3>4. TracksOf(cur[u])' = 1 .. n /\ track_no'[u] <= n + 1
      BY <1>3, <2>2, <3>1, <3>3, SameTracks
    <3> QED BY <1>3, <2>2, <3>4 DEF ChangedBy
  <2> QED BY <1>1, <1>3, <1>4, <1>5, <2>1, <2>2, <2>3, LoopStep
<1>7. CASE ~there[u]
  <2>1. ToMenu(u)
    BY <1>7 DEF KeepTrack
  <2>2. ASSUME ChangedBy(u, cur[u]) PROVE \E n \in Nat : TracksOf(cur[u])' = 1 .. n
    BY <1>1, <1>3, <2>2, SameTracks DEF ChangedBy
  <2> QED BY <1>1, <1>3, <1>4, <1>5, <2>1, <2>2, LoopEnds
<1> QED BY <1>6, <1>7

\* A text for a track: the track is stored after the others, or in place of the
\* one that was there; when it is not stored, the loop ends.
LEMMA TypeTrackStep ==
  ASSUME UiIInv, NEW u \in team, team' = team, TypeTrack(u)
  PROVE  UiIInv'
<1>1. upc[u] = "ask" /\ upc[u] \in ChangePlaces
  BY DEF TypeTrack, ChangePlaces
<1>2. /\ u \in Users /\ cur[u] \in Catalogs /\ UiTypeOK /\ UiFiles /\ track_no[u] \in TrackNos
      /\ track_no[u] <= MaxTrack
  BY <1>1, AtChange DEF TypeTrack
<1>3. cur' = cur /\ torn' = torn /\ UNCHANGED <<searchVars, countVars>>
  BY DEF TypeTrack
<1>4. PICK x \in Texts : \E o \in add_cdt_entry(db, cur[u], track_no[u], x) :
        /\ db' = o.db
        /\ IF o.result.response = "r_success"
           THEN NextTrack(u) /\ Goto(u, "get") /\ UNCHANGED there
           ELSE ToMenu(u)
  BY DEF TypeTrack
<1>5. PICK o \in add_cdt_entry(db, cur[u], track_no[u], x) :
        /\ db' = o.db
        /\ IF o.result.response = "r_success"
           THEN NextTrack(u) /\ Goto(u, "get") /\ UNCHANGED there
           ELSE ToMenu(u)
  BY <1>4
<1>6. \/ o = Failed(db)
      \/ o = Done([db EXCEPT !.cdt[<<cur[u], track_no[u]>>] = x]) /\ cur[u] \notin TooLong
  BY <1>5 DEF add_cdt_entry
<1>7. CASE o = Failed(db)
  <2>1. db' = db /\ o.result.response = "r_failure"
    BY <1>5, <1>7 DEF Failed, Outcome
  <2>2. ToMenu(u)
    BY <1>5, <2>1
  <2>3. UiFiles'
    BY <1>2, <2>1, FilesKept
  <2>4. ASSUME ChangedBy(u, cur[u]) PROVE \E n \in Nat : TracksOf(cur[u])' = 1 .. n
    BY <1>1, <1>3, <2>1, <2>4, SameTracks DEF ChangedBy
  <2>5. /\ db' \in Databases
        /\ \A c \in Catalogs, n \in TrackNos : db'.cdt[<<c, n>>] = db.cdt[<<c, n>>]
    BY <1>2, <2>1 DEF UiTypeOK
  <2> QED BY <1>1, <1>3, <2>2, <2>3, <2>4, <2>5, LoopEnds
<1>8. CASE o = Done([db EXCEPT !.cdt[<<cur[u], track_no[u]>>] = x]) /\ cur[u] \notin TooLong
  <2>1. /\ db' = [db EXCEPT !.cdt[<<cur[u], track_no[u]>>] = x]
        /\ o.result.response = "r_success"
    BY <1>5, <1>8 DEF Done, Outcome
  <2>2. /\ track_no' = [track_no EXCEPT ![u] = @ + 1] /\ upc' = [upc EXCEPT ![u] = "get"]
        /\ there' = there
    BY <1>5, <2>1 DEF NextTrack, Goto
  <2>3. /\ track_no' \in [Users -> 1 .. MaxTrack + 1] /\ track_no'[u] = track_no[u] + 1
        /\ \A v \in Users \ {u} : track_no'[v] = track_no[v]
        /\ there' \in [Users -> BOOLEAN] /\ upc'[u] = "get"
        /\ "get" \in ChangePlaces \cup {"menu"}
    BY <1>2, <2>2 DEF UiTypeOK, ChangePlaces
  <2>4. track_no[u] # MaxTrack + 1
    BY <1>2
  <2>5. /\ UiFiles' /\ db' \in Databases
        /\ \A k \in Catalogs, m \in TrackNos :
             db'.cdt[<<k, m>>] =
               IF k = cur[u] /\ m = track_no[u] THEN x ELSE db.cdt[<<k, m>>]
    BY <1>2, <1>8, <2>1, <2>4, FilesWithTrack
  <2>6. x # Absent
    BY CdDbmAssumption
  <2>7. ASSUME ChangedBy(u, cur[u]) PROVE ChangedBy(u, cur[u])'
    <3>1. PICK n \in Nat : TracksOf(cur[u]) = 1 .. n /\ track_no[u] <= n + 1
      BY <1>1, <2>7 DEF ChangedBy
    <3>2. TracksOf(cur[u])' = TracksOf(cur[u]) \cup {track_no[u]}
      BY <1>2, <1>3, <2>5, <2>6 DEF TracksOf, HasTrack
    <3>3. \E m \in Nat : TracksOf(cur[u])' = 1 .. m /\ track_no[u] + 1 <= m + 1
      <4>1. CASE track_no[u] = n + 1
        <5>1. 1 .. n \cup {n + 1} = 1 .. n + 1
          OBVIOUS
        <5> QED BY <3>1, <3>2, <4>1, <5>1
      <4>2. CASE track_no[u] # n + 1
        <5>1. track_no[u] \in 1 .. n
          BY <1>2, <3>1, <4>2
        <5> QED BY <3>1, <3>2, <5>1
      <4> QED BY <4>1, <4>2
    <3> QED BY <1>3, <2>3, <3>3 DEF ChangedBy
  <2>8. \A k \in Catalogs, m \in TrackNos :
          k # cur[u] => db'.cdt[<<k, m>>] = db.cdt[<<k, m>>]
    BY <2>5
  <2> QED BY <1>1, <1>3, <2>2, <2>3, <2>5, <2>7, <2>8, LoopStep
<1> QED BY <1>6, <1>7, <1>8

\* A d for a track: the tracks from this one on are to be deleted.
LEMMA TypeDStep ==
  ASSUME UiIInv, NEW u \in team, team' = team, TypeD(u)
  PROVE  UiIInv'
<1>1. /\ upc[u] = "ask" /\ upc[u] \in ChangePlaces
      /\ "deltracks" \in ChangePlaces \cup {"menu"}
  BY DEF TypeD, ChangePlaces
<1>2. /\ u \in Users /\ cur[u] \in Catalogs /\ UiTypeOK /\ UiFiles /\ track_no[u] \in TrackNos
      /\ track_no[u] \in Nat
  BY <1>1, AtChange
<1>3. /\ upc' = [upc EXCEPT ![u] = "deltracks"] /\ track_no' = track_no /\ there' = there
      /\ cur' = cur /\ torn' = torn /\ db' = db /\ UNCHANGED <<searchVars, countVars>>
  BY DEF TypeD, Goto, entryVars
<1>4. UiFiles'
  BY <1>2, <1>3, FilesKept
<1>5. ASSUME ChangedBy(u, cur[u]) PROVE ChangedBy(u, cur[u])'
  <2>1. PICK n \in Nat : TracksOf(cur[u]) = 1 .. n /\ track_no[u] <= n + 1
    BY <1>1, <1>5 DEF ChangedBy
  <2>2. track_no[u] \in 1 .. track_no[u]
        /\ 1 .. n = 1 .. track_no[u] - 1 \cup track_no[u] .. n
    BY <1>2, <2>1
  <2>3. /\ upc'[u] = "deltracks" /\ track_no'[u] = track_no[u] /\ cur'[u] = cur[u]
        /\ TracksOf(cur[u])' = 1 .. track_no'[u] - 1 \cup track_no'[u] .. n
        /\ track_no'[u] <= n + 1 /\ track_no'[u] \in 1 .. track_no'[u]
    BY <1>2, <1>3, <2>1, <2>2, SameTracks DEF UiTypeOK
  <2> QED BY <2>3 DEF ChangedBy
<1>6. /\ db' \in Databases /\ track_no' \in [Users -> 1 .. MaxTrack + 1]
      /\ there' \in [Users -> BOOLEAN]
      /\ \A v \in Users \ {u} : track_no'[v] = track_no[v] /\ there'[v] = there[v]
      /\ \A c \in Catalogs, n \in TrackNos : db'.cdt[<<c, n>>] = db.cdt[<<c, n>>]
  BY <1>2, <1>3 DEF UiTypeOK
<1> QED BY <1>1, <1>3, <1>4, <1>5, <1>6, LoopStep

\* A loop that deletes takes the next track from the front of what is left.
LEMMA DeleteOneMore ==
  ASSUME UiIInv, NEW u \in team, team' = team, upc[u] \in {"deltracks", "delcat"},
         NEW o \in del_cdt_entry(db, cur[u], track_no[u]), db' = o.db,
         o.result.response = "r_success", NextTrack(u),
         UNCHANGED <<upc, there, cur, searchVars, countVars, torn>>
  PROVE  UiIInv'
<1>1. upc[u] \in ChangePlaces /\ upc[u] \in ChangePlaces \cup {"menu"} /\ upc[u] # "menu"
  BY DEF ChangePlaces
<1>2. /\ u \in Users /\ cur[u] \in Catalogs /\ UiTypeOK /\ UiFiles /\ track_no[u] \in TrackNos
      /\ track_no[u] \in Nat
  BY <1>1, AtChange
<1>3. /\ db' \in Databases /\ UiFiles' /\ HasTrack(cur[u], track_no[u])
      /\ \A k \in Catalogs, m \in TrackNos :
           db'.cdt[<<k, m>>] =
             IF k = cur[u] /\ m = track_no[u] THEN Absent ELSE db.cdt[<<k, m>>]
  BY <1>2, DeletedTrack
<1>4. track_no[u] + 1 \in 1 .. MaxTrack + 1
  <2>1. track_no[u] # MaxTrack + 1
    BY <1>2, <1>3 DEF UiFiles
  <2> QED BY <1>2, <2>1
<1>5. /\ track_no' \in [Users -> 1 .. MaxTrack + 1] /\ track_no'[u] = track_no[u] + 1
      /\ \A v \in Users \ {u} : track_no'[v] = track_no[v]
      /\ upc' = [upc EXCEPT ![u] = upc[u]] /\ there' \in [Users -> BOOLEAN]
  BY <1>2, <1>4 DEF NextTrack, UiTypeOK
<1>6. ASSUME ChangedBy(u, cur[u]) PROVE ChangedBy(u, cur[u])'
  <2>1. PICK n \in Nat, first \in 1 .. track_no[u] :
          /\ TracksOf(cur[u]) = 1 .. first - 1 \cup track_no[u] .. n
          /\ upc[u] = "delcat" => first = 1
    BY <1>6 DEF ChangedBy
  <2>2. track_no[u] \in TracksOf(cur[u])
    BY <1>2, <1>3 DEF TracksOf
  <2>3. track_no[u] <= n
    BY <1>2, <2>1, <2>2
  <2>4. TracksOf(cur[u])' = TracksOf(cur[u]) \ {track_no[u]}
    BY <1>2, <1>3 DEF TracksOf, HasTrack
  <2>5. TracksOf(cur[u])' = 1 .. first - 1 \cup track_no[u] + 1 .. n
    BY <1>2, <2>1, <2>4
  <2>6. first \in 1 .. track_no[u] + 1 /\ track_no[u] + 1 <= n + 1
    BY <1>2, <2>3
  <2>7. upc'[u] = upc[u] /\ upc'[u] \notin {"get", "ask", "delcdc"} /\ cur'[u] = cur[u]
    OBVIOUS
  <2> QED BY <1>5, <2>1, <2>5, <2>6, <2>7 DEF ChangedBy
<1>7. \A k \in Catalogs, m \in TrackNos :
        k # cur[u] => db'.cdt[<<k, m>>] = db.cdt[<<k, m>>]
  BY <1>3
<1>8. /\ cur' = cur /\ torn' = torn /\ UNCHANGED <<searchVars, countVars>>
      /\ \A v \in Users \ {u} : there'[v] = there[v]
  OBVIOUS
<1>9. /\ track_no' \in [Users -> 1 .. MaxTrack + 1] /\ there' \in [Users -> BOOLEAN]
      /\ \A v \in Users \ {u} : track_no'[v] = track_no[v] /\ there'[v] = there[v]
      /\ db' \in Databases /\ UiFiles' /\ upc[u] \in ChangePlaces
  BY <1>1, <1>3, <1>5, <1>8
<1>10. /\ upc' \in [Users -> UPc] /\ upc'[u] = upc[u] /\ upc'[u] \in ChangePlaces
       /\ \A v \in Users \ {u} : upc'[v] = upc[v] /\ cur'[v] = cur[v]
       /\ upc[u] \notin {"gone", "count", "counted", "offer", "menu"}
  BY <1>1, <1>2 DEF UiTypeOK
<1>11. UiTracks'
  BY <1>2, <1>6, <1>7, <1>8, <1>9, <1>10, ChangerStep DEF UiIInv
<1>12. /\ cur' \in [Users -> Catalogs \cup {Empty}] /\ cur'[u] # Empty
       /\ torn' \subseteq Catalogs
  BY <1>2, <1>8 DEF UiIInv, UiTypeOK, UiPlaces
<1> QED BY <1>8, <1>9, <1>10, <1>11, <1>12, QuietStep

\* It fails when no track is left that it has to delete.
LEMMA NothingLeft ==
  ASSUME NEW u \in Users, NEW c \in Catalogs, upc[u] \in {"deltracks", "delcat"},
         track_no[u] \in TrackNos, ChangedBy(u, c), ~HasTrack(c, track_no[u])
  PROVE  /\ \E n \in Nat : TracksOf(c) = 1 .. n
         /\ upc[u] = "delcat" => TracksOf(c) = {}
<1>1. PICK n \in Nat, first \in 1 .. track_no[u] :
        /\ TracksOf(c) = 1 .. first - 1 \cup track_no[u] .. n
        /\ upc[u] = "delcat" => first = 1
  BY DEF ChangedBy
<1>2. track_no[u] \notin TracksOf(c)
  BY DEF TracksOf
<1>3. TracksOf(c) = 1 .. first - 1 /\ first - 1 \in Nat
  BY <1>1, <1>2
<1> QED BY <1>1, <1>3

\* The loop that a d starts.
LEMMA DeleteRestStep ==
  ASSUME UiIInv, NEW u \in team, team' = team, DeleteRest(u)
  PROVE  UiIInv'
<1>1. /\ upc[u] = "deltracks" /\ upc[u] \in ChangePlaces /\ cur' = cur /\ torn' = torn
      /\ UNCHANGED <<searchVars, countVars>>
  BY DEF DeleteRest, DeleteTrack, ChangePlaces
<1>2. PICK o \in del_cdt_entry(db, cur[u], track_no[u]) :
        /\ db' = o.db
        /\ IF o.result.response = "r_success"
           THEN NextTrack(u) /\ UNCHANGED <<upc, there>>
           ELSE ToMenu(u)
  BY DEF DeleteRest, DeleteTrack
<1>3. CASE o.result.response = "r_success"
  BY <1>1, <1>2, <1>3, DeleteOneMore
<1>4. CASE o.result.response # "r_success"
  <2>1. /\ u \in Users /\ cur[u] \in Catalogs /\ UiTypeOK /\ UiFiles
        /\ track_no[u] \in TrackNos
    BY <1>1, AtChange
  <2>2. db' = db /\ db' \in Databases /\ ~HasTrack(cur[u], track_no[u]) /\ UiFiles'
    BY <1>2, <1>4, <2>1, DeletedTrack
  <2>3. ASSUME ChangedBy(u, cur[u]) PROVE \E n \in Nat : TracksOf(cur[u])' = 1 .. n
    <3>1. \E n \in Nat : TracksOf(cur[u]) = 1 .. n
      BY <1>1, <2>1, <2>2, <2>3, NothingLeft
    <3>2. TracksOf(cur[u])' = TracksOf(cur[u])
      BY <1>1, <2>2 DEF TracksOf, HasTrack
    <3> QED BY <3>1, <3>2
  <2>4. ToMenu(u)
    BY <1>2, <1>4
  <2>5. \A c \in Catalogs, n \in TrackNos : db'.cdt[<<c, n>>] = db.cdt[<<c, n>>]
    BY <2>2
  <2> QED BY <1>1, <2>2, <2>3, <2>4, <2>5, LoopEnds
<1> QED BY <1>3, <1>4

\* The loop of del_cat_entry: at its end the entry has no track left.
LEMMA DelCatTracksStep ==
  ASSUME UiIInv, NEW u \in team, team' = team, DelCatTracks(u)
  PROVE  UiIInv'
<1>1. /\ upc[u] = "delcat" /\ upc[u] \in ChangePlaces /\ cur' = cur /\ torn' = torn
      /\ UNCHANGED <<searchVars, countVars>>
  BY DEF DelCatTracks, DeleteTrack, ChangePlaces
<1>2. PICK o \in del_cdt_entry(db, cur[u], track_no[u]) :
        /\ db' = o.db
        /\ IF o.result.response = "r_success"
           THEN NextTrack(u) /\ UNCHANGED <<upc, there>>
           ELSE ToDelCdc(u)
  BY DEF DelCatTracks, DeleteTrack
<1>3. CASE o.result.response = "r_success"
  BY <1>1, <1>2, <1>3, DeleteOneMore
<1>4. CASE o.result.response # "r_success"
  <2>1. /\ u \in Users /\ cur[u] \in Catalogs /\ UiTypeOK /\ UiFiles
        /\ track_no[u] \in TrackNos
    BY <1>1, AtChange
  <2>2. db' = db /\ db' \in Databases /\ ~HasTrack(cur[u], track_no[u]) /\ UiFiles'
    BY <1>2, <1>4, <2>1, DeletedTrack
  <2>3. /\ upc' = [upc EXCEPT ![u] = "delcdc"] /\ track_no' = track_no /\ there' = there
        /\ "delcdc" \in ChangePlaces \cup {"menu"}
    BY <1>2, <1>4 DEF ToDelCdc, Goto, ChangePlaces
  <2>4. ASSUME ChangedBy(u, cur[u]) PROVE ChangedBy(u, cur[u])'
    <3>1. TracksOf(cur[u]) = {}
      BY <1>1, <2>1, <2>2, <2>4, NothingLeft
    <3>2. TracksOf(cur[u])' = {}
      BY <1>1, <2>2, <3>1 DEF TracksOf, HasTrack
    <3>3. upc'[u] = "delcdc" /\ cur'[u] = cur[u]
      BY <1>1, <2>1, <2>3 DEF UiTypeOK
    <3> QED BY <3>2, <3>3 DEF ChangedBy
  <2>5. /\ track_no' \in [Users -> 1 .. MaxTrack + 1] /\ there' \in [Users -> BOOLEAN]
        /\ \A v \in Users \ {u} : track_no'[v] = track_no[v] /\ there'[v] = there[v]
        /\ \A c \in Catalogs, n \in TrackNos : db'.cdt[<<c, n>>] = db.cdt[<<c, n>>]
    BY <2>1, <2>2, <2>3 DEF UiTypeOK
  <2> QED BY <1>1, <2>2, <2>3, <2>4, <2>5, LoopStep
<1> QED BY <1>3, <1>4

\* The del_cdc_entry of del_cat_entry changes no track.
LEMMA DelCatEntryStep ==
  ASSUME UiIInv, NEW u \in team, team' = team, DelCatEntry(u)
  PROVE  /\ UiIInv'
         /\ cur[u] \notin torn => TracksOf(cur[u])' = {}
<1>1. /\ upc[u] = "delcdc" /\ upc[u] \in ChangePlaces /\ cur' = cur /\ torn' = torn
      /\ ToMenu(u) /\ UNCHANGED <<searchVars, countVars>>
  BY DEF DelCatEntry, ChangePlaces
<1>2. /\ u \in Users /\ cur[u] \in Catalogs /\ UiTypeOK /\ UiFiles /\ UiTracks
  BY <1>1, AtChange
<1>3. db' = db \/ db' = [db EXCEPT !.cdc[cur[u]] = Absent]
  <2>1. PICK o \in del_cdc_entry(db, cur[u]) : db' = o.db
    BY DEF DelCatEntry
  <2>2. o = Failed(db) \/ o = Done([db EXCEPT !.cdc[cur[u]] = Absent])
    BY <2>1 DEF del_cdc_entry
  <2> QED BY <2>1, <2>2 DEF Done, Failed, Outcome
<1>4. /\ db' \in Databases /\ db'.cdt = db.cdt
      /\ \A k \in Catalogs : db'.cdc[k] \in {db.cdc[k], Absent}
  <2>1. CASE db' = db
    BY <1>2, <2>1 DEF UiTypeOK
  <2>2. CASE db' = [db EXCEPT !.cdc[cur[u]] = Absent]
    BY <1>2, <2>2 DEF UiTypeOK, Databases
  <2> QED BY <1>3, <2>1, <2>2
<1>5. UiFiles'
  <2>1. Present' \subseteq Present
    BY <1>4 DEF Present
  <2>2. IsFiniteSet(Present')
    BY <1>2, <2>1, FS_Subset DEF UiFiles
  <2> QED BY <1>2, <1>4, <2>2 DEF UiFiles, HasTrack
<1>6. TracksOf(cur[u])' = TracksOf(cur[u])
  BY <1>1, <1>4 DEF TracksOf, HasTrack
<1>7. ChangedBy(u, cur[u]) => TracksOf(cur[u])' = {}
  BY <1>1, <1>6 DEF ChangedBy
<1>8. cur[u] \notin torn => ChangedBy(u, cur[u])
  <2>1. u \in Changing(cur[u])
    BY <1>1, <1>2 DEF Changing
  <2> QED BY <1>2, <2>1 DEF UiTracks
<1>9. {} = 1 .. 0 /\ 0 \in Nat
  OBVIOUS
<1>10. UiIInv'
  <2>1. ChangedBy(u, cur[u]) => \E n \in Nat : TracksOf(cur[u])' = 1 .. n
    BY <1>7, <1>9
  <2>2. \A c \in Catalogs, n \in TrackNos : db'.cdt[<<c, n>>] = db.cdt[<<c, n>>]
    BY <1>4
  <2> QED BY <1>1, <1>4, <1>5, <2>1, <2>2, LoopEnds
<1> QED BY <1>7, <1>8, <1>10

\* A step of u that searches or counts, outside the places where tracks are
\* changed.
LEMMA SearchStep ==
  ASSUME UiIInv, NEW u \in team, team' = team, db' = db, torn' = torn, there' = there,
         upc[u] \notin ChangePlaces \cup {"gone"}, upc'[u] \notin ChangePlaces \cup {"gone"},
         upc' \in [Users -> UPc], cur' \in [Users -> Catalogs \cup {Empty}],
         track_no' \in [Users -> 1 .. MaxTrack + 1],
         work_file' \in [Users -> SUBSET Catalogs], matching' \in [Users -> Nat],
         item' \in [Users -> Catalogs \cup {Empty}],
         cds' \in [Users -> Nat], tracks' \in [Users -> Nat],
         asked' \in [Users -> SUBSET Catalogs], offered' \in [Users -> SUBSET Catalogs],
         \A v \in Users \ {u} : /\ upc'[v] = upc[v] /\ cur'[v] = cur[v]
                                /\ track_no'[v] = track_no[v] /\ item'[v] = item[v]
                                /\ cds'[v] = cds[v] /\ tracks'[v] = tracks[v],
         upc'[u] \in {"offer", "count"} => item'[u] # Empty,
         upc'[u] \in {"menu", "offer", "counted"} => track_no'[u] = 1,
         upc'[u] \notin {"count", "counted"} => cds'[u] = 0 /\ tracks'[u] = 0,
         UiSearches', UiCount'
  PROVE  UiIInv'
<1>1. u \in Users /\ UiTypeOK /\ UiTracks /\ UiFiles
  BY DEF UiIInv, UiTypeOK
<1>2. UiTypeOK'
  BY <1>1 DEF UiTypeOK
<1>3. UiFiles'
  BY <1>1, FilesKept
<1>4. UiTracks'
  <2>1. db'.cdt = db.cdt
    OBVIOUS
  <2> QED BY <1>1, <2>1, OutsideChanges
<1>5. ASSUME NEW v \in Users
      PROVE  /\ upc'[v] \in ChangePlaces => cur'[v] # Empty
             /\ upc'[v] \in {"offer", "count"} => item'[v] # Empty
             /\ upc'[v] \in {"menu", "offer", "counted"} => track_no'[v] = 1
             /\ upc'[v] \notin {"count", "counted", "gone"} => cds'[v] = 0 /\ tracks'[v] = 0
             /\ v \notin team' => upc'[v] = "menu"
  <2>1. CASE v # u
    BY <2>1 DEF UiIInv, UiPlaces
  <2>2. CASE v = u
    BY <2>2
  <2> QED BY <2>1, <2>2
<1>6. UiPlaces'
  BY <1>5 DEF UiPlaces
<1> QED BY <1>2, <1>3, <1>4, <1>6 DEF UiIInv

\* What is selected after a search.
LEMMA Deselected ==
  ASSUME UiTypeOK, NEW u \in Users, Deselect(u)
  PROVE  /\ cur' \in [Users -> Catalogs \cup {Empty}]
         /\ \A v \in Users \ {u} : cur'[v] = cur[v]
BY DEF UiTypeOK, Deselect

\* find_cat: the first match.
LEMMA FindCatStep ==
  ASSUME UiIInv, NEW u \in team, team' = team, FindCat(u)
  PROVE  UiIInv'
<1>1. /\ u \in Users /\ UiTypeOK /\ upc[u] = "menu" /\ track_no[u] = 1
      /\ cds[u] = 0 /\ tracks[u] = 0
  BY DEF UiIInv, UiTypeOK, UiPlaces, FindCat
<1>2. /\ db' = db /\ track_no' = track_no /\ there' = there /\ cds' = cds /\ tracks' = tracks
      /\ torn' = torn /\ Deselect(u)
  BY DEF FindCat, entryVars, countVars
<1>3. PICK s \in Patterns : FirstMatch(u, s, "offer", "menu")
  BY DEF FindCat
<1>4. "offer" \in UPc /\ "menu" \in UPc
      /\ {"offer", "menu"} \cap (ChangePlaces \cup {"gone", "count", "counted"}) = {}
  BY DEF UPc, ChangePlaces
<1>5. /\ work_file' \in [Users -> SUBSET Catalogs] /\ matching' \in [Users -> Nat]
      /\ item' \in [Users -> Catalogs \cup {Empty}] /\ upc' \in [Users -> UPc]
      /\ asked' \in [Users -> SUBSET Catalogs] /\ offered' \in [Users -> SUBSET Catalogs]
      /\ UiSearches' /\ \A v \in Users \ {u} : item'[v] = item[v] /\ upc'[v] = upc[v]
      /\ upc'[u] \in {"offer", "menu"} /\ (upc'[u] = "offer" => item'[u] # Empty)
  BY <1>1, <1>3, <1>4, FirstMatchStep
<1>6. /\ cur' \in [Users -> Catalogs \cup {Empty}]
      /\ \A v \in Users \ {u} : cur'[v] = cur[v]
  BY <1>1, <1>2, Deselected
<1>7. UiCount'
  BY <1>1, <1>2, <1>4, <1>5, NotCounting
<1>8. upc[u] \notin ChangePlaces \cup {"gone"} /\ upc'[u] \notin ChangePlaces \cup {"gone"}
      /\ upc'[u] \notin {"count", "counted"}
  BY <1>1, <1>5 DEF ChangePlaces
<1>9. /\ track_no' \in [Users -> 1 .. MaxTrack + 1] /\ track_no'[u] = 1
      /\ cds' \in [Users -> Nat] /\ tracks' \in [Users -> Nat] /\ cds'[u] = 0 /\ tracks'[u] = 0
      /\ asked' \in [Users -> SUBSET Catalogs]
      /\ \A v \in Users \ {u} : /\ upc'[v] = upc[v] /\ cur'[v] = cur[v]
                                /\ track_no'[v] = track_no[v] /\ item'[v] = item[v]
                                /\ cds'[v] = cds[v] /\ tracks'[v] = tracks[v]
  BY <1>1, <1>2, <1>5, <1>6 DEF UiTypeOK
<1> QED BY <1>2, <1>5, <1>6, <1>7, <1>8, <1>9, SearchStep

\* A match that is refused: the next one.
LEMMA RefuseMatchStep ==
  ASSUME UiIInv, NEW u \in team, team' = team, RefuseMatch(u)
  PROVE  UiIInv'
<1>1. /\ u \in Users /\ UiTypeOK /\ upc[u] = "offer" /\ track_no[u] = 1
      /\ cds[u] = 0 /\ tracks[u] = 0 /\ item[u] # Empty
  BY DEF UiIInv, UiTypeOK, UiPlaces, RefuseMatch
<1>2. /\ db' = db /\ track_no' = track_no /\ there' = there /\ cds' = cds /\ tracks' = tracks
      /\ torn' = torn /\ Deselect(u) /\ NextMatch(u, "offer", "menu")
  BY DEF RefuseMatch, entryVars, countVars
<1>4. "offer" \in UPc /\ "menu" \in UPc
      /\ {"offer", "menu"} \cap (ChangePlaces \cup {"gone", "count", "counted"}) = {}
  BY DEF UPc, ChangePlaces
<1>5. /\ work_file' \in [Users -> SUBSET Catalogs] /\ matching' \in [Users -> Nat]
      /\ item' \in [Users -> Catalogs \cup {Empty}] /\ upc' \in [Users -> UPc]
      /\ asked' = asked /\ offered' \in [Users -> SUBSET Catalogs]
      /\ UiSearches' /\ \A v \in Users \ {u} : item'[v] = item[v] /\ upc'[v] = upc[v]
      /\ upc'[u] \in {"offer", "menu"} /\ (upc'[u] = "offer" => item'[u] # Empty)
  BY <1>1, <1>2, <1>4, NextMatchReturned
<1>6. /\ cur' \in [Users -> Catalogs \cup {Empty}]
      /\ \A v \in Users \ {u} : cur'[v] = cur[v]
  BY <1>1, <1>2, Deselected
<1>7. UiCount'
  BY <1>1, <1>2, <1>4, <1>5, NotCounting
<1>8. upc[u] \notin ChangePlaces \cup {"gone"} /\ upc'[u] \notin ChangePlaces \cup {"gone"}
      /\ upc'[u] \notin {"count", "counted"}
  BY <1>1, <1>5 DEF ChangePlaces
<1>9. /\ track_no' \in [Users -> 1 .. MaxTrack + 1] /\ track_no'[u] = 1
      /\ cds' \in [Users -> Nat] /\ tracks' \in [Users -> Nat] /\ cds'[u] = 0 /\ tracks'[u] = 0
      /\ asked' \in [Users -> SUBSET Catalogs]
      /\ \A v \in Users \ {u} : /\ upc'[v] = upc[v] /\ cur'[v] = cur[v]
                                /\ track_no'[v] = track_no[v] /\ item'[v] = item[v]
                                /\ cds'[v] = cds[v] /\ tracks'[v] = tracks[v]
  BY <1>1, <1>2, <1>5, <1>6 DEF UiTypeOK
<1> QED BY <1>2, <1>5, <1>6, <1>7, <1>8, <1>9, SearchStep

\* A match that is accepted: the search is over.
LEMMA AcceptMatchStep ==
  ASSUME UiIInv, NEW u \in team, team' = team, AcceptMatch(u)
  PROVE  UiIInv'
<1>1. /\ u \in Users /\ UiTypeOK /\ upc[u] = "offer" /\ track_no[u] = 1
      /\ cds[u] = 0 /\ tracks[u] = 0 /\ UiSearches
  BY DEF UiIInv, UiTypeOK, UiPlaces, AcceptMatch
<1>2. /\ db' = db /\ track_no' = track_no /\ there' = there /\ cds' = cds /\ tracks' = tracks
      /\ torn' = torn /\ work_file' = work_file /\ matching' = matching
      /\ cur' = [cur EXCEPT ![u] = item[u]] /\ item' = [item EXCEPT ![u] = Empty]
      /\ asked' = [asked EXCEPT ![u] = {}] /\ offered' = [offered EXCEPT ![u] = {}]
      /\ upc' = [upc EXCEPT ![u] = "menu"]
  BY DEF AcceptMatch, entryVars, countVars, Goto
<1>3. /\ upc' \in [Users -> UPc] /\ cur' \in [Users -> Catalogs \cup {Empty}]
      /\ item' \in [Users -> Catalogs \cup {Empty}]
      /\ asked' \in [Users -> SUBSET Catalogs] /\ offered' \in [Users -> SUBSET Catalogs]
      /\ upc'[u] = "menu" /\ item'[u] = Empty /\ asked'[u] = {} /\ offered'[u] = {}
      /\ \A v \in Users \ {u} : /\ upc'[v] = upc[v] /\ cur'[v] = cur[v] /\ item'[v] = item[v]
                                /\ asked'[v] = asked[v] /\ offered'[v] = offered[v]
  BY <1>1, <1>2 DEF UiTypeOK, UPc
<1>4. UiSearches'
  <2> SUFFICES ASSUME NEW v \in Users
               PROVE  /\ item'[v] = Empty => offered'[v] = asked'[v]
                      /\ item'[v] # Empty =>
                           /\ IsFiniteSet(work_file'[v])
                           /\ Cardinality(work_file'[v]) <= matching'[v]
                           /\ item'[v] \in offered'[v] /\ work_file'[v] \cap offered'[v] = {}
                           /\ offered'[v] \cup work_file'[v] = asked'[v]
    BY DEF UiSearches
  <2>1. CASE v = u
    BY <1>3, <2>1
  <2>2. CASE v # u
    BY <1>1, <1>2, <1>3, <2>2 DEF UiSearches
  <2> QED BY <2>1, <2>2
<1>5. upc[u] \notin ChangePlaces \cup {"gone"} /\ upc'[u] \notin ChangePlaces \cup {"gone"}
  BY <1>1, <1>3 DEF ChangePlaces
<1>6. UiCount'
  BY <1>1, <1>2, <1>3, NotCounting
<1> QED BY <1>1, <1>2, <1>3, <1>4, <1>5, <1>6, SearchStep DEF UiTypeOK

\* An entry with n tracks adds n to the tracks of the others.
LEMMA TracksWithAdd ==
  ASSUME NEW names \in SUBSET Catalogs, IsFiniteSet(names), NEW c \in Catalogs, c \notin names,
         NEW n \in Nat, TracksOf(c) = 1 .. n
  PROVE  Cardinality(TracksWith(names \cup {c})) = Cardinality(TracksWith(names)) + n
<1> DEFINE Mine == {k \in {c} \X TrackNos : db.cdt[k] # Absent}
           f    == [i \in 1 .. n |-> <<c, i>>]
<1>1. IsFiniteSet(TrackNos) /\ IsFiniteSet({c})
  <2>0. 1 \in Int /\ MaxTrack + 1 \in Int
    OBVIOUS
  <2>1. IsFiniteSet(1 .. MaxTrack + 1)
    BY <2>0, FS_Interval, Zenon
  <2>2. IsFiniteSet({c})
    BY FS_Singleton, Zenon
  <2> QED BY <2>1, <2>2
<1>2. IsFiniteSet(names \X TrackNos) /\ IsFiniteSet({c} \X TrackNos)
  BY <1>1, FS_Product, Zenon
<1>3. IsFiniteSet(TracksWith(names)) /\ IsFiniteSet(Mine)
  BY <1>2, FS_Subset DEF TracksWith
<1>4. /\ TracksWith(names \cup {c}) = TracksWith(names) \cup Mine
      /\ TracksWith(names) \cap Mine = {}
  BY DEF TracksWith
<1>5. f \in Bijection(1 .. n, Mine)
  <2>1. \A i \in 1 .. n : f[i] = <<c, i>> /\ <<c, i>> \in Mine
    BY DEF TracksOf, HasTrack
  <2>2. f \in [1 .. n -> Mine]
    BY <2>1
  <2>3. ASSUME NEW i \in 1 .. n, NEW j \in 1 .. n, f[i] = f[j] PROVE i = j
    BY <2>1, <2>3
  <2>4. ASSUME NEW k \in Mine PROVE \E i \in 1 .. n : f[i] = k
    <3>1. k = <<c, k[2]>> /\ k[2] \in TrackNos /\ db.cdt[k] # Absent
      OBVIOUS
    <3>2. k[2] \in 1 .. n
      BY <3>1 DEF TracksOf, HasTrack
    <3> QED BY <2>1, <3>1, <3>2
  <2> QED BY <2>2, <2>3, <2>4 DEF Bijection, Injection, Surjection, IsInjective
<1>6. Cardinality(Mine) = n
  BY <1>5, FS_CountingElements DEF ExistsBijection
<1>7. Cardinality(TracksWith(names) \cup Mine)
        = Cardinality(TracksWith(names)) + Cardinality(Mine)
          - Cardinality(TracksWith(names) \cap Mine)
  BY <1>3, FS_Union, Zenon
<1>8. Cardinality(TracksWith(names)) \in Nat /\ Cardinality(TracksWith(names) \cap Mine) = 0
  BY <1>3, <1>4, FS_EmptySet, FS_CardinalityType, Zenon
<1> HIDE DEF Mine
<1>9. Cardinality(TracksWith(names \cup {c})) = Cardinality(TracksWith(names) \cup Mine)
  BY <1>4
<1> QED BY <1>6, <1>7, <1>8, <1>9

\* A user who is alone and changes nothing finds tracks without a gap.
LEMMA AloneTracks ==
  ASSUME UiIInv, NEW u \in Users, team = {u}, upc[u] \notin ChangePlaces \cup {"gone"},
         NEW c \in Catalogs
  PROVE  torn = {} /\ \E n \in Nat : TracksOf(c) = 1 .. n
<1>1. torn = {}
  BY DEF UiIInv, UiCount
<1>2. Changing(c) = {}
  BY DEF UiIInv, UiPlaces, Changing, ChangePlaces
<1> QED BY <1>1, <1>2 DEF UiIInv, UiTracks

\* count_all_entries: the first entry.
LEMMA CountAllStep ==
  ASSUME UiIInv, NEW u \in team, team' = team, CountAll(u)
  PROVE  UiIInv'
<1>1. /\ u \in Users /\ UiTypeOK /\ UiFiles /\ upc[u] = "menu" /\ track_no[u] = 1
      /\ cds[u] = 0 /\ tracks[u] = 0
  BY DEF UiIInv, UiTypeOK, UiPlaces, CountAll
<1>2. /\ db' = db /\ cur' = cur /\ track_no' = track_no /\ there' = there /\ tracks' = tracks
      /\ torn' = torn /\ FirstMatch(u, AnyText, "count", "counted") /\ CountCd(u, 0)
  BY DEF CountAll, entryVars
<1>3. "count" \in UPc /\ "counted" \in UPc /\ AnyText \in Patterns
      /\ Matching(db, AnyText) = Present
  BY <1>1, MatchesPresent DEF UPc
<1>4. /\ work_file' \in [Users -> SUBSET Catalogs] /\ matching' \in [Users -> Nat]
      /\ item' \in [Users -> Catalogs \cup {Empty}] /\ upc' \in [Users -> UPc]
      /\ asked' \in [Users -> SUBSET Catalogs] /\ offered' \in [Users -> SUBSET Catalogs]
      /\ UiSearches' /\ \A v \in Users \ {u} : item'[v] = item[v] /\ upc'[v] = upc[v]
      /\ asked'[u] = Present
      /\ \/ asked'[u] = {} /\ offered'[u] = {} /\ item'[u] = Empty /\ upc'[u] = "counted"
         \/ /\ item'[u] # Empty /\ upc'[u] = "count" /\ offered'[u] = {item'[u]}
            /\ item'[u] \in asked'[u]
  BY <1>1, <1>2, <1>3, FirstMatchStep
<1>5. /\ cds' \in [Users -> Nat] /\ \A v \in Users \ {u} : cds'[v] = cds[v]
      /\ cds'[u] = IF item'[u] = Empty THEN 0 ELSE 1
  BY <1>1, <1>2 DEF CountCd, UiTypeOK
<1>6. Present' = Present /\ Present \subseteq Catalogs
  BY <1>2 DEF Present
<1>7. ASSUME team = {u}
      PROVE  /\ torn' = {} /\ asked'[u] = Present' /\ cds'[u] = Cardinality(offered'[u])
             /\ upc'[u] = "count" =>
                  /\ tracks'[u] = Cardinality(TracksWith(offered[u] \ {item[u]})')
                                    + (track_no'[u] - 1)
                  /\ \E n \in Nat : TracksOf(item[u])' = 1 .. n /\ track_no'[u] <= n + 1
             /\ upc'[u] = "counted" =>
                  tracks'[u] = Cardinality(TracksWith(Present)') /\ item'[u] = Empty
  <2>1. upc[u] \notin ChangePlaces \cup {"gone"}
    BY <1>1 DEF ChangePlaces
  <2>2. torn = {}
    BY <1>1, <1>7 DEF UiIInv, UiCount
  <2>3. CASE upc'[u] = "counted"
    <3>1. TracksWith(Present)' = {}
      BY <1>4, <1>6, <2>3 DEF TracksWith
    <3> QED BY <1>1, <1>2, <1>4, <1>5, <1>6, <2>2, <2>3, <3>1, FS_EmptySet
  <2>4. CASE upc'[u] = "count"
    <3>1. TracksWith(offered[u] \ {item[u]})' = {}
      BY <1>4, <2>4 DEF TracksWith
    <3>2. item'[u] \in Catalogs
      BY <1>4, <1>6, <2>4
    <3>3. PICK n \in Nat : TracksOf(item'[u]) = 1 .. n
      BY <1>1, <1>7, <2>1, <3>2, AloneTracks
    <3>4. TracksOf(item[u])' = 1 .. n
      BY <1>2, <3>3 DEF TracksOf, HasTrack
    <3>5. Cardinality({item'[u]}) = 1 /\ Cardinality({}) = 0
      BY FS_Singleton, FS_EmptySet
    <3>6. cds'[u] = Cardinality(offered'[u])
      BY <1>4, <1>5, <2>4, <3>5
    <3>7. tracks'[u] = 0 /\ track_no'[u] = 1 /\ 0 = 0 + (1 - 1) /\ 1 <= n + 1
      BY <1>1, <1>2
    <3> QED BY <1>2, <1>4, <1>6, <2>2, <2>4, <3>1, <3>4, <3>5, <3>6, <3>7
  <2> QED BY <1>4, <2>3, <2>4
<1>8. UiCount'
  <2> SUFFICES ASSUME NEW v \in Users, team' = {v}
               PROVE  /\ upc'[v] # "gone" => torn' = {}
                      /\ upc'[v] \in {"count", "counted"} =>
                           asked'[v] = Present' /\ cds'[v] = Cardinality(offered'[v])
                      /\ upc'[v] = "count" =>
                           /\ tracks'[v] = Cardinality(TracksWith(offered[v] \ {item[v]})')
                                             + (track_no'[v] - 1)
                           /\ \E n \in Nat : TracksOf(item[v])' = 1 .. n /\ track_no'[v] <= n + 1
                      /\ upc'[v] = "counted" =>
                           tracks'[v] = Cardinality(TracksWith(Present)') /\ item'[v] = Empty
    BY DEF UiCount
  <2> QED BY <1>7
<1>9. upc[u] \notin ChangePlaces \cup {"gone"} /\ upc'[u] \notin ChangePlaces \cup {"gone"}
      /\ upc'[u] \in {"count", "counted"} /\ upc'[u] \notin {"menu", "offer"}
  BY <1>1, <1>4 DEF ChangePlaces
<1>10. /\ cur' \in [Users -> Catalogs \cup {Empty}] /\ tracks' \in [Users -> Nat]
       /\ track_no' \in [Users -> 1 .. MaxTrack + 1] /\ track_no'[u] = 1
       /\ (upc'[u] \in {"offer", "count"} => item'[u] # Empty)
       /\ \A v \in Users \ {u} : /\ upc'[v] = upc[v] /\ cur'[v] = cur[v]
                                 /\ track_no'[v] = track_no[v] /\ item'[v] = item[v]
                                 /\ cds'[v] = cds[v] /\ tracks'[v] = tracks[v]
  BY <1>1, <1>2, <1>4, <1>5, <1>9 DEF UiTypeOK
<1> QED BY <1>2, <1>4, <1>5, <1>8, <1>9, <1>10, SearchStep

\* Its loop over the tracks of an entry: one more.
LEMMA CountTrackStep ==
  ASSUME UiIInv, NEW u \in team, team' = team, CountTrack(u)
  PROVE  UiIInv'
<1>1. /\ u \in Users /\ UiTypeOK /\ UiFiles /\ UiSearches /\ upc[u] = "count" /\ item[u] # Empty
      /\ item[u] \in Catalogs /\ HasTrack(item[u], track_no[u]) /\ track_no[u] \in TrackNos
  BY DEF UiIInv, UiTypeOK, UiPlaces, CountTrack
<1>2. /\ db' = db /\ cur' = cur /\ there' = there /\ upc' = upc /\ cds' = cds
      /\ torn' = torn /\ UNCHANGED searchVars
      /\ work_file' = work_file /\ matching' = matching /\ item' = item /\ asked' = asked
      /\ offered' = offered
      /\ tracks' = [tracks EXCEPT ![u] = @ + 1] /\ track_no' = [track_no EXCEPT ![u] = @ + 1]
  BY DEF CountTrack, NextTrack, searchVars
<1>3. track_no[u] + 1 \in 1 .. MaxTrack + 1
  <2>1. track_no[u] # MaxTrack + 1
    BY <1>1 DEF UiFiles
  <2> QED BY <1>1, <2>1
<1>4. /\ tracks' \in [Users -> Nat] /\ tracks'[u] = tracks[u] + 1
      /\ track_no' \in [Users -> 1 .. MaxTrack + 1] /\ track_no'[u] = track_no[u] + 1
      /\ tracks[u] \in Nat /\ track_no[u] \in Nat
      /\ \A v \in Users \ {u} : tracks'[v] = tracks[v] /\ track_no'[v] = track_no[v]
  BY <1>1, <1>2, <1>3 DEF UiTypeOK
<1>5. UiSearches'
  BY <1>1, <1>2, SearchesKept
<1>6. UiCount'
  <2> SUFFICES ASSUME team = {u}
               PROVE  /\ torn' = {} /\ asked'[u] = Present' /\ cds'[u] = Cardinality(offered'[u])
                      /\ tracks'[u] = Cardinality(TracksWith(offered[u] \ {item[u]})')
                                        + (track_no'[u] - 1)
                      /\ \E n \in Nat : TracksOf(item[u])' = 1 .. n /\ track_no'[u] <= n + 1
    BY <1>1, <1>2 DEF UiCount
  <2>1. /\ torn = {} /\ asked[u] = Present /\ cds[u] = Cardinality(offered[u])
        /\ tracks[u] = Cardinality(TracksWith(offered[u] \ {item[u]})) + (track_no[u] - 1)
    BY <1>1 DEF UiIInv, UiCount
  <2>2. PICK n \in Nat : TracksOf(item[u]) = 1 .. n
    BY <1>1 DEF UiIInv, UiCount
  <2>3. track_no[u] \in 1 .. n
    BY <1>1, <2>2 DEF TracksOf
  <2>4. /\ Present' = Present /\ TracksOf(item[u])' = 1 .. n
        /\ TracksWith(offered[u] \ {item[u]})' = TracksWith(offered[u] \ {item[u]})
    BY <1>2, <2>2 DEF Present, TracksOf, HasTrack, TracksWith
  <2>5. TracksWith(offered[u] \ {item[u]}) \subseteq Present \X TrackNos
        /\ IsFiniteSet(Present) /\ IsFiniteSet(TrackNos)
    <3>1. offered[u] \subseteq Present
      BY <1>1, <2>1 DEF UiSearches
    <3>2. IsFiniteSet(1 .. MaxTrack + 1)
      BY FS_Interval
    <3> QED BY <1>1, <3>1, <3>2 DEF TracksWith, UiFiles
  <2>6. IsFiniteSet(Present \X TrackNos)
    BY <2>5, FS_Product, Zenon
  <2>7. Cardinality(TracksWith(offered[u] \ {item[u]})) \in Nat
    BY <2>5, <2>6, FS_Subset, FS_CardinalityType
  <2>8. track_no'[u] <= n + 1
    BY <1>4, <2>3
  <2>9. tracks'[u] = Cardinality(TracksWith(offered[u] \ {item[u]})') + (track_no'[u] - 1)
    BY <1>4, <2>1, <2>4, <2>7
  <2> QED BY <1>2, <2>1, <2>4, <2>8, <2>9
<1>7. upc[u] \notin ChangePlaces \cup {"gone"}
  BY <1>1 DEF ChangePlaces
<1> QED BY <1>1, <1>2, <1>4, <1>5, <1>6, <1>7, SearchStep DEF UiTypeOK

\* Its next entry, when a track is missing: all tracks of this one are counted.
LEMMA CountNextStep ==
  ASSUME UiIInv, NEW u \in team, team' = team, CountNext(u)
  PROVE  UiIInv'
<1>1. /\ u \in Users /\ UiTypeOK /\ UiFiles /\ UiSearches /\ upc[u] = "count" /\ item[u] # Empty
      /\ item[u] \in Catalogs /\ ~HasTrack(item[u], track_no[u]) /\ track_no[u] \in TrackNos
      /\ item[u] \in offered[u] /\ offered[u] \subseteq asked[u] /\ asked[u] \subseteq Catalogs
  BY DEF UiIInv, UiTypeOK, UiPlaces, UiSearches, CountNext
<1>2. /\ db' = db /\ cur' = cur /\ there' = there /\ tracks' = tracks /\ torn' = torn
      /\ track_no' = [track_no EXCEPT ![u] = 1] /\ NextMatch(u, "count", "counted")
      /\ CountCd(u, cds[u])
  BY DEF CountNext
<1>3. "count" \in UPc /\ "counted" \in UPc
  BY DEF UPc
<1>4. /\ work_file' \in [Users -> SUBSET Catalogs] /\ matching' \in [Users -> Nat]
      /\ item' \in [Users -> Catalogs \cup {Empty}] /\ upc' \in [Users -> UPc]
      /\ asked' = asked /\ offered' \in [Users -> SUBSET Catalogs]
      /\ UiSearches' /\ \A v \in Users \ {u} : item'[v] = item[v] /\ upc'[v] = upc[v]
      /\ \/ /\ offered'[u] = offered[u] /\ offered[u] = asked[u] /\ item'[u] = Empty
            /\ upc'[u] = "counted"
         \/ /\ item'[u] # Empty /\ upc'[u] = "count" /\ item'[u] \in asked[u] \ offered[u]
            /\ offered'[u] = offered[u] \cup {item'[u]}
  BY <1>1, <1>2, <1>3, NextMatchReturned
<1>5. /\ cds' \in [Users -> Nat] /\ \A v \in Users \ {u} : cds'[v] = cds[v]
      /\ cds'[u] = IF item'[u] = Empty THEN cds[u] ELSE cds[u] + 1
      /\ track_no' \in [Users -> 1 .. MaxTrack + 1] /\ track_no'[u] = 1
      /\ \A v \in Users \ {u} : track_no'[v] = track_no[v]
  BY <1>1, <1>2 DEF CountCd, UiTypeOK
<1>6. Present' = Present
  BY <1>2 DEF Present
<1>7. ASSUME team = {u}
      PROVE  /\ torn' = {} /\ asked'[u] = Present' /\ cds'[u] = Cardinality(offered'[u])
             /\ upc'[u] = "count" =>
                  /\ tracks'[u] = Cardinality(TracksWith(offered[u] \ {item[u]})')
                                    + (track_no'[u] - 1)
                  /\ \E n \in Nat : TracksOf(item[u])' = 1 .. n /\ track_no'[u] <= n + 1
             /\ upc'[u] = "counted" =>
                  tracks'[u] = Cardinality(TracksWith(Present)') /\ item'[u] = Empty
  <2>1. upc[u] \notin ChangePlaces \cup {"gone"}
    BY <1>1 DEF ChangePlaces
  <2>2. /\ torn = {} /\ asked[u] = Present /\ cds[u] = Cardinality(offered[u])
        /\ tracks[u] = Cardinality(TracksWith(offered[u] \ {item[u]})) + (track_no[u] - 1)
    BY <1>1, <1>7 DEF UiIInv, UiCount
  <2>3. PICK n \in Nat : TracksOf(item[u]) = 1 .. n /\ track_no[u] <= n + 1
    BY <1>1, <1>7 DEF UiIInv, UiCount
  <2>4. track_no[u] \notin 1 .. n
    BY <1>1, <2>3 DEF TracksOf
  <2>5. n = track_no[u] - 1
    BY <1>1, <2>3, <2>4
  <2>6. IsFiniteSet(offered[u]) /\ offered[u] \in SUBSET Catalogs
    BY <1>1, <2>2, FS_Subset DEF UiFiles
  <2>7. Cardinality(TracksWith(offered[u])) = tracks[u]
    <3>1. IsFiniteSet(offered[u] \ {item[u]}) /\ offered[u] \ {item[u]} \in SUBSET Catalogs
          /\ item[u] \notin offered[u] \ {item[u]}
      BY <2>6, FS_Subset
    <3>2. Cardinality(TracksWith((offered[u] \ {item[u]}) \cup {item[u]}))
            = Cardinality(TracksWith(offered[u] \ {item[u]})) + n
      BY <1>1, <2>3, <3>1, TracksWithAdd
    <3>3. (offered[u] \ {item[u]}) \cup {item[u]} = offered[u]
      BY <1>1
    <3> QED BY <2>2, <2>5, <3>2, <3>3
  <2>8. CASE upc'[u] = "counted"
    <3>1. offered[u] = Present /\ item'[u] = Empty /\ offered'[u] = offered[u]
      BY <1>4, <2>2, <2>8
    <3>2. TracksWith(Present)' = TracksWith(offered[u])
      BY <1>2, <1>6, <3>1 DEF TracksWith
    <3> QED BY <1>2, <1>4, <1>5, <1>6, <2>2, <2>7, <2>8, <3>1, <3>2
  <2>9. CASE upc'[u] = "count"
    <3>1. /\ item'[u] # Empty /\ item'[u] \in asked[u] /\ item'[u] \notin offered[u]
          /\ offered'[u] = offered[u] \cup {item'[u]} /\ item'[u] \in Catalogs
      BY <1>1, <1>4, <2>9
    <3>2. offered'[u] \ {item'[u]} = offered[u]
      BY <3>1
    <3>3. TracksWith(offered[u] \ {item[u]})' = TracksWith(offered[u])
      BY <1>2, <3>2 DEF TracksWith
    <3>4. Cardinality(offered'[u]) = Cardinality(offered[u]) + 1
      BY <2>6, <3>1, FS_AddElement
    <3>5. PICK m \in Nat : TracksOf(item'[u]) = 1 .. m
      BY <1>1, <1>7, <2>1, <3>1, AloneTracks
    <3>6. TracksOf(item[u])' = 1 .. m /\ 1 <= m + 1
      BY <1>2, <3>5 DEF TracksOf, HasTrack
    <3>7. tracks[u] \in Nat
      BY <1>1 DEF UiTypeOK
    <3>8. tracks'[u] = Cardinality(TracksWith(offered[u] \ {item[u]})') + (track_no'[u] - 1)
      BY <1>2, <1>5, <2>7, <3>3, <3>7
    <3>9. cds'[u] = Cardinality(offered'[u])
      BY <1>5, <2>2, <3>1, <3>4
    <3> QED BY <1>2, <1>4, <1>5, <1>6, <2>2, <2>9, <3>6, <3>8, <3>9
  <2> QED BY <1>4, <2>8, <2>9
<1>8. UiCount'
  <2> SUFFICES ASSUME NEW v \in Users, team' = {v}
               PROVE  /\ upc'[v] # "gone" => torn' = {}
                      /\ upc'[v] \in {"count", "counted"} =>
                           asked'[v] = Present' /\ cds'[v] = Cardinality(offered'[v])
                      /\ upc'[v] = "count" =>
                           /\ tracks'[v] = Cardinality(TracksWith(offered[v] \ {item[v]})')
                                             + (track_no'[v] - 1)
                           /\ \E n \in Nat : TracksOf(item[v])' = 1 .. n /\ track_no'[v] <= n + 1
                      /\ upc'[v] = "counted" =>
                           tracks'[v] = Cardinality(TracksWith(Present)') /\ item'[v] = Empty
    BY DEF UiCount
  <2> QED BY <1>7
<1>9. upc[u] \notin ChangePlaces \cup {"gone"} /\ upc'[u] \notin ChangePlaces \cup {"gone"}
      /\ upc'[u] \in {"count", "counted"} /\ upc'[u] \notin {"menu", "offer"}
  BY <1>1, <1>4 DEF ChangePlaces
<1>10. /\ cur' \in [Users -> Catalogs \cup {Empty}] /\ tracks' \in [Users -> Nat]
       /\ asked' \in [Users -> SUBSET Catalogs]
       /\ (upc'[u] \in {"offer", "count"} => item'[u] # Empty)
       /\ \A v \in Users \ {u} : /\ upc'[v] = upc[v] /\ cur'[v] = cur[v]
                                 /\ track_no'[v] = track_no[v] /\ item'[v] = item[v]
                                 /\ cds'[v] = cds[v] /\ tracks'[v] = tracks[v]
  BY <1>1, <1>2, <1>4, <1>5, <1>9 DEF UiTypeOK
<1> QED BY <1>2, <1>4, <1>5, <1>8, <1>9, <1>10, SearchStep

\* The counts have been printed.
LEMMA CountedStep ==
  ASSUME UiIInv, NEW u \in team, team' = team, Counted(u)
  PROVE  UiIInv'
<1>1. /\ u \in Users /\ UiTypeOK /\ UiSearches /\ upc[u] = "counted" /\ track_no[u] = 1
  BY DEF UiIInv, UiTypeOK, UiPlaces, Counted
<1>2. /\ db' = db /\ cur' = cur /\ there' = there /\ track_no' = track_no
      /\ torn' = torn /\ UNCHANGED searchVars
      /\ work_file' = work_file /\ matching' = matching /\ item' = item /\ asked' = asked
      /\ offered' = offered /\ upc' = [upc EXCEPT ![u] = "menu"]
      /\ tracks' = [tracks EXCEPT ![u] = 0] /\ cds' = [cds EXCEPT ![u] = 0]
  BY DEF Counted, Goto, searchVars, entryVars
<1>3. /\ tracks' \in [Users -> Nat] /\ tracks'[u] = 0 /\ cds' \in [Users -> Nat] /\ cds'[u] = 0
      /\ upc' \in [Users -> UPc] /\ upc'[u] = "menu"
      /\ \A v \in Users \ {u} : /\ tracks'[v] = tracks[v] /\ cds'[v] = cds[v]
                                /\ upc'[v] = upc[v]
  BY <1>1, <1>2 DEF UiTypeOK, UPc
<1>4. UiSearches'
  BY <1>1, <1>2, SearchesKept
<1>5. UiCount'
  BY <1>1, <1>2, <1>3, NotCounting
<1>6. upc[u] \notin ChangePlaces \cup {"gone"} /\ upc'[u] \notin ChangePlaces \cup {"gone"}
  BY <1>1, <1>3 DEF ChangePlaces
<1> QED BY <1>1, <1>2, <1>3, <1>4, <1>5, <1>6, SearchStep DEF UiTypeOK

\* A user leaves: the tracks of the entry that was being deleted are torn.
LEMMA LeaveStep ==
  ASSUME UiIInv, NEW u \in team, team' = team, Quit(u) \/ Die(u)
  PROVE  UiIInv'
<1>1. /\ u \in Users /\ UiTypeOK /\ UiFiles /\ UiTracks /\ upc[u] # "gone"
  BY DEF UiIInv, UiTypeOK, Quit, Die
<1>2. /\ upc' = [upc EXCEPT ![u] = "gone"] /\ db' = db /\ cur' = cur /\ track_no' = track_no
      /\ there' = there /\ UNCHANGED <<searchVars, countVars>>
  BY DEF Quit, Die, Leave, entryVars
<1>3. torn' = IF upc[u] \in {"deltracks", "delcat"} THEN torn \cup {cur[u]} ELSE torn
  BY DEF Quit, Die
<1>4. /\ upc' \in [Users -> UPc] /\ upc'[u] = "gone" /\ upc'[u] \notin ChangePlaces
      /\ \A v \in Users \ {u} : upc'[v] = upc[v]
  BY <1>1, <1>2 DEF UiTypeOK, UPc, ChangePlaces
<1>5. UiFiles'
  BY <1>1, <1>2, FilesKept
<1>6. CASE upc[u] \in ChangePlaces
  <2>1. cur[u] \in Catalogs
    BY <1>6, AtChange
  <2>2. ASSUME cur[u] \notin torn', ChangedBy(u, cur[u])
        PROVE  \E n \in Nat : TracksOf(cur[u])' = 1 .. n
    <3>1. upc[u] \in {"get", "ask", "delcdc"}
      BY <1>3, <1>6, <2>2 DEF ChangePlaces
    <3>2. {} = 1 .. 0 /\ 0 \in Nat
      OBVIOUS
    <3>3. \E n \in Nat : TracksOf(cur[u]) = 1 .. n
      BY <2>2, <3>1, <3>2 DEF ChangedBy
    <3>4. TracksOf(cur[u])' = TracksOf(cur[u])
      BY <1>2 DEF TracksOf, HasTrack
    <3> QED BY <3>3, <3>4
  <2>3. UiTracks'
    BY <1>1, <1>2, <1>3, <1>4, <1>6, <2>1, <2>2, ChangerStep
  <2>4. torn \subseteq torn' /\ torn' \subseteq Catalogs
    BY <1>1, <1>3, <2>1 DEF UiTypeOK
  <2> QED BY <1>1, <1>2, <1>4, <1>5, <2>3, <2>4, QuietStep DEF UiTypeOK
<1>7. CASE upc[u] \notin ChangePlaces
  <2>1. torn' = torn
    BY <1>3, <1>7 DEF ChangePlaces
  <2>2. UiTracks'
    BY <1>1, <1>2, <1>4, <1>7, <2>1, OutsideChanges
  <2> QED BY <1>1, <1>2, <1>4, <1>5, <2>1, <2>2, QuietStep DEF UiTypeOK
<1> QED BY <1>6, <1>7

\* Every step of a user.
LEMMA UserStepKeeps ==
  ASSUME UiIInv, NEW u \in team, team' = team, UserStep(u) \/ Die(u)
  PROVE  UiIInv'
<1>1. CASE EnterTracks(u) \/ DelCat(u)
  BY <1>1, OverTracksStep DEF EnterTracks, DelCat
<1>2. CASE Quit(u) \/ Die(u)
  BY <1>2, LeaveStep
<1>3. CASE AddCat(u) \/ GetTrack(u) \/ KeepTrack(u) \/ TypeTrack(u) \/ TypeD(u)
  BY <1>3, AddCatStep, GetTrackStep, KeepTrackStep, TypeTrackStep, TypeDStep
<1>4. CASE DeleteRest(u) \/ DelCatTracks(u) \/ DelCatEntry(u)
  BY <1>4, DeleteRestStep, DelCatTracksStep, DelCatEntryStep
<1>5. CASE FindCat(u) \/ RefuseMatch(u) \/ AcceptMatch(u)
  BY <1>5, FindCatStep, RefuseMatchStep, AcceptMatchStep
<1>6. CASE CountAll(u) \/ CountTrack(u) \/ CountNext(u) \/ Counted(u)
  BY <1>6, CountAllStep, CountTrackStep, CountNextStep, CountedStep
<1> QED BY <1>1, <1>2, <1>3, <1>4, <1>5, <1>6 DEF UserStep

\* What nobody does keeps everything.
LEMMA UiStutter ==
  ASSUME UiIInv, UNCHANGED uiVars
  PROVE  UiIInv'
<1>1. /\ team' = team /\ db' = db /\ upc' = upc /\ cur' = cur /\ track_no' = track_no
      /\ there' = there /\ work_file' = work_file /\ matching' = matching /\ item' = item
      /\ asked' = asked /\ offered' = offered /\ cds' = cds /\ tracks' = tracks
      /\ torn' = torn /\ UNCHANGED searchVars
  BY DEF uiVars, entryVars, searchVars, countVars
<1>2. UiTypeOK'
  BY <1>1 DEF UiIInv, UiTypeOK
<1>3. UiPlaces'
  BY <1>1 DEF UiIInv, UiPlaces
<1>4. UiFiles' /\ UiSearches'
  BY <1>1, FilesKept, SearchesKept DEF UiIInv
<1>5. UiTracks'
  <2>1. /\ \A c : TracksOf(c)' = TracksOf(c) /\ Changing(c)' = Changing(c)
        /\ \A c, n : HasTrack(c, n)' <=> HasTrack(c, n)
    BY <1>1 DEF TracksOf, Changing, HasTrack
  <2>2. ASSUME NEW u, NEW c, ChangedBy(u, c) PROVE ChangedBy(u, c)'
    BY <1>1, <2>1, <2>2 DEF ChangedBy, HasTrack
  <2> QED BY <1>1, <2>1, <2>2 DEF UiIInv, UiTracks
<1>6. UiCount'
  <2>1. /\ Present' = Present /\ \A c : TracksOf(c)' = TracksOf(c)
        /\ \A u : TracksWith(offered[u] \ {item[u]})' = TracksWith(offered[u] \ {item[u]})
        /\ TracksWith(Present)' = TracksWith(Present)
    BY <1>1 DEF Present, TracksOf, HasTrack, TracksWith
  <2>2. \A u : TracksOf(item[u])' = TracksOf(item[u])
    BY <1>1 DEF TracksOf, HasTrack
  <2> QED BY <1>1, <2>1, <2>2 DEF UiIInv, UiCount
<1> QED BY <1>2, <1>3, <1>4, <1>5, <1>6 DEF UiIInv

\* The promises of the user interface follow from where its users are.
LEMMA UiPromises == UiIInv => UiInv
<1> SUFFICES ASSUME UiIInv PROVE UiInv
  OBVIOUS
<1>1. UiTypeOK /\ EveryMatchIsOffered
  BY DEF UiIInv, EveryMatchIsOffered, UiSearches
<1>2. TracksHaveNoGap
  <2> SUFFICES ASSUME NEW c \in Catalogs \ torn, Changing(c) = {}
               PROVE  TracksOf(c) = 1 .. Cardinality(TracksOf(c))
    BY DEF TracksHaveNoGap
  <2>1. PICK n \in Nat : TracksOf(c) = 1 .. n
    BY DEF UiIInv, UiTracks
  <2>2. Cardinality(1 .. n) = n
    BY FS_Interval
  <2> QED BY <2>1, <2>2
<1>3. CountAloneIsExact
  <2> SUFFICES ASSUME Cardinality(team) = 1, NEW u \in Users, upc[u] = "counted"
               PROVE  /\ cds[u] = Cardinality(Present)
                      /\ tracks[u] = Cardinality(TracksWith(Present))
    BY DEF CountAloneIsExact, CountIsExact, Present, TracksWith
  <2>1. u \in team
    BY DEF UiIInv, UiPlaces
  <2>2. IsFiniteSet(team)
    BY <1>1, FS_Subset DEF UiTypeOK
  <2>3. team = {u}
    BY <2>1, <2>2, FS_Singleton
  <2>4. /\ asked[u] = Present /\ cds[u] = Cardinality(offered[u]) /\ item[u] = Empty
        /\ tracks[u] = Cardinality(TracksWith(Present))
    BY <2>3 DEF UiIInv, UiCount
  <2>5. offered[u] = asked[u]
    BY <2>4 DEF UiIInv, UiSearches
  <2> QED BY <2>4, <2>5
<1> QED BY <1>1, <1>2, <1>3 DEF UiInv

\* A step of a user leaves the programs of the others where they are.
LEMMA OthersStay ==
  ASSUME UiTypeOK, NEW u \in team, UserStep(u) \/ Die(u), NEW v \in Users \ {u}
  PROVE  upc'[v] = upc[v]
<1>1. CASE \E pc : Goto(u, pc)
  BY <1>1 DEF UiTypeOK, Goto
<1>2. CASE upc' = upc
  BY <1>2
<1>3. CASE AddCat(u) \/ CountTrack(u) \/ GetTrack(u) \/ TypeD(u) \/ AcceptMatch(u) \/ Counted(u)
           \/ EnterTracks(u) \/ DelCat(u)
  BY <1>1, <1>2, <1>3 DEF AddCat, CountTrack, GetTrack, TypeD, AcceptMatch, Counted,
                          EnterTracks, DelCat, OverTracks
<1>4. CASE KeepTrack(u) \/ TypeTrack(u) \/ DelCatEntry(u)
  BY <1>1, <1>4 DEF KeepTrack, TypeTrack, DelCatEntry, ToMenu
<1>5. CASE DeleteRest(u) \/ DelCatTracks(u)
  BY <1>1, <1>2, <1>5 DEF DeleteRest, DelCatTracks, DeleteTrack, ToMenu, ToDelCdc
<1>6. CASE FindCat(u) \/ CountAll(u)
  BY <1>1, <1>6 DEF FindCat, CountAll, FirstMatch, ReturnMatch
<1>7. CASE RefuseMatch(u) \/ CountNext(u)
  BY <1>1, <1>7 DEF RefuseMatch, CountNext, NextMatch, ReturnMatch
<1>8. CASE Quit(u) \/ Die(u)
  BY <1>8 DEF Quit, Die, Leave, UiTypeOK
<1> QED BY <1>3, <1>4, <1>5, <1>6, <1>7, <1>8 DEF UserStep

\* UiIInv holds in every state.
LEMMA UiIInvHolds == UiSpec => []UiIInv
<1>1. UiIInv /\ [UiNext]_uiVars => UiIInv'
  BY UserStepKeeps, UiStutter DEF UiNext
<1> QED BY <1>1, UiStart, PTL DEF UiSpec

\* What the users of the CD application see agrees with the files, for any
\* users, names and numbers of tracks: every match of a search is offered, the
\* count of a user who is alone is exact, and the tracks of an entry that nobody
\* changes have no gap, unless two users changed them at a time or a program was
\* killed while it deleted them (app_ui.c, search_cdc_entry of clientif.c).
THEOREM UsersSeeWhatIsStored == UiSpec => []UiInv
BY UiIInvHolds, UiPromises, PTL

\* del_cat_entry leaves no track of its entry, with the same exceptions, whatever
\* the other users do (app_ui.c).
THEOREM DeletionLeavesNoTrack == UiSpec => DeleteIsComplete
<1>1. ASSUME UiIInv, [UiNext]_uiVars, NEW u \in Users, upc[u] = "delcdc", upc'[u] = "menu",
             cur[u] \notin torn
      PROVE  TracksOf(cur[u])' = {}
  <2>1. UiNext
    BY <1>1 DEF uiVars
  <2>2. PICK w \in team : UserStep(w) \/ Die(w)
    BY <2>1 DEF UiNext
  <2>3. w = u /\ team' = team
    BY <1>1, <2>1, <2>2, OthersStay DEF UiIInv, UiNext
  <2>4. ~Die(u)
    BY <1>1 DEF Die, Leave, UiIInv, UiTypeOK
  <2>5. DelCatEntry(u)
    BY <1>1, <2>2, <2>3, <2>4
       DEF UserStep, AddCat, EnterTracks, GetTrack, KeepTrack, TypeTrack, TypeD, DeleteRest, DelCat,
           DelCatTracks, OverTracks, DeleteTrack, FindCat, RefuseMatch, AcceptMatch, CountAll,
           CountTrack, CountNext, Counted, Quit
  <2> QED BY <1>1, <2>2, <2>3, <2>5, DelCatEntryStep
<1>2. UiIInv /\ [UiNext]_uiVars =>
        [\A u \in Users : upc[u] = "delcdc" /\ upc'[u] = "menu" /\ cur[u] \notin torn =>
           TracksOf(cur[u])' = {}]_uiVars
  BY <1>1
<1> QED BY <1>2, UiIInvHolds, PTL DEF UiSpec, DeleteIsComplete

-----------------------------------------------------------------------------
(* The tables of the MySQL application (app_mysql.c).                      *)

\* The variables of a program that hold a cd_id and a search result.
LocalWith(id, result) ==
  [main : {"none", "app_test", "gui"}, name : Artists, symphony : BOOLEAN, artist_id : Int,
   cd_id : {id}, lastId : Nat, found : {result}, rows : Nat, i : Nat, dialog : BOOLEAN]

IsLocal(l) == \E id, result : l \in LocalWith(id, result)

GetPlaces == {"get cd", "get tracks"}

\* The statements that a program sends.
Statements ==
  {"none", "gtk_main", "select artist", "insert artist", "select artist_id", "insert cd",
   "select cd_id", "insert track", "find", "count users", "delete tracks", "delete cd",
   "delete artist"} \cup GetPlaces

SqlTypeOK ==
  /\ sqlPc \in [SqlUsers -> Statements] /\ autoId \in [{"artist", "cd"} -> Nat]
  /\ local = [v \in SqlUsers |-> local[v]] /\ \A v \in SqlUsers : IsLocal(local[v])
  /\ tree = [v \in SqlUsers |-> tree[v]]
  /\ IsFiniteSet(cd) /\ \A c \in cd : c.artist_id \in Int
  /\ \A a \in artist : a.id \in Int

\* The tree of a user, while a search is shown: a row for each one of the result
\* that was fetched.
RowsOf(l) == [cd : {ResultOf(l, k) : k \in Nat} \cup {NoCd},
              tracksOf : {ResultOf(l, k) : k \in Nat} \cup {NoCd}]

TreeAt(statement, l, rows) ==
  /\ statement \notin GetPlaces => rows = <<>>
  /\ statement \in GetPlaces =>
       /\ rows \in Seq(RowsOf(l))
       /\ Len(rows) = IF statement = "get tracks" THEN l.i + 1 ELSE l.i
       /\ l.i <= l.rows /\ l.i <= MAX_CD_RESULT /\ (statement = "get tracks" => More(l))
       /\ \A k \in 1 .. Len(rows) : /\ rows[k].cd \in {ResultOf(l, k - 1), NoCd}
                                    /\ rows[k].tracksOf \in {ResultOf(l, k - 1), NoCd}

TreeInPlace == \A v \in SqlUsers : TreeAt(sqlPc[v], local[v], tree[v])

\* A program that goes on changes its own place and variables.
LEMMA Going ==
  ASSUME SqlTypeOK, NEW u \in SqlUsers, NEW s \in Statements, NEW l, IsLocal(l),
         Goes(u, s, l)
  PROVE  /\ sqlPc' \in [SqlUsers -> Statements] /\ local' = [v \in SqlUsers |-> local'[v]]
         /\ sqlPc'[u] = s /\ local'[u] = l
         /\ \A v \in SqlUsers : IsLocal(local'[v])
         /\ \A v \in SqlUsers \ {u} : sqlPc'[v] = sqlPc[v] /\ local'[v] = local[v]
<1>1. /\ sqlPc \in [SqlUsers -> Statements] /\ local = [v \in SqlUsers |-> local[v]]
      /\ \A v \in SqlUsers : IsLocal(local[v])
  BY DEF SqlTypeOK
<1>2. sqlPc' = [sqlPc EXCEPT ![u] = s] /\ local' = [local EXCEPT ![u] = l]
  BY DEF Goes
<1>3. /\ sqlPc' \in [SqlUsers -> Statements] /\ sqlPc'[u] = s
      /\ \A v \in SqlUsers \ {u} : sqlPc'[v] = sqlPc[v]
  BY <1>1, <1>2
<1>4. /\ local' = [v \in SqlUsers |-> local'[v]] /\ local'[u] = l
      /\ \A v \in SqlUsers \ {u} : local'[v] = local[v]
  BY <1>1, <1>2
<1>5. \A v \in SqlUsers : IsLocal(local'[v])
  BY <1>1, <1>4
<1> QED BY <1>3, <1>4, <1>5

\* The constants of the application.
LEMMA SqlConstants ==
  /\ AppTestArtist \in Artists /\ NumTracks \in Nat /\ MAX_CD_RESULT \in Nat /\ MaxIds \in Nat
BY SqlAssumption

\* The variables of a program that starts.
LEMMA NewLocals ==
  ASSUME NEW main \in {"none", "app_test", "gui"}
  PROVE  /\ IsLocal(NewLocal(main)) /\ NewLocal(main).main = main /\ NewLocal(main).i = 0
         /\ \A id : LET m == [NewLocal(main) EXCEPT !.cd_id = id] IN
              IsLocal(m) /\ m.cd_id = id /\ m.i = 0
<1>1. (main = "app_test") \in BOOLEAN /\ AppTestArtist \in Artists /\ NoCd \in Int
  BY SqlConstants DEF NoCd
<1>2. NewLocal(main) \in LocalWith(NoCd, <<>>)
  BY <1>1, Zenon DEF NewLocal, LocalWith
<1>3. NewLocal(main).main = main /\ NewLocal(main).i = 0
  BY DEF NewLocal
<1>4. ASSUME NEW id
      PROVE  LET m == [NewLocal(main) EXCEPT !.cd_id = id] IN
             IsLocal(m) /\ m.cd_id = id /\ m.i = 0
  <2>1. [NewLocal(main) EXCEPT !.cd_id = id] \in LocalWith(id, <<>>)
    BY <1>2 DEF LocalWith
  <2>2. [NewLocal(main) EXCEPT !.cd_id = id].cd_id = id
        /\ [NewLocal(main) EXCEPT !.cd_id = id].i = 0
    BY <1>2, <1>3 DEF LocalWith
  <2> QED BY <2>1, <2>2 DEF IsLocal
<1> QED BY <1>2, <1>3, <1>4 DEF IsLocal

\* The variables of a program have their types.
LEMMA LocalTypes ==
  ASSUME NEW l, IsLocal(l)
  PROVE  /\ l.name \in Artists /\ l.symphony \in BOOLEAN /\ l.artist_id \in Int
         /\ l.lastId \in Nat /\ l.rows \in Nat /\ l.i \in Nat
<1>1. PICK id0, result0 : l \in LocalWith(id0, result0)
  BY DEF IsLocal
<1> QED BY <1>1 DEF LocalWith

\* The dialog is opened or closed.
LEMMA DialogSet ==
  ASSUME NEW l, IsLocal(l), NEW open \in BOOLEAN
  PROVE  IsLocal([l EXCEPT !.dialog = open])
<1>0. PICK id0, result0 : l \in LocalWith(id0, result0)
  BY DEF IsLocal
<1>1. [l EXCEPT !.dialog = open] \in LocalWith(id0, result0)
  BY <1>0 DEF LocalWith
<1> QED BY <1>1 DEF IsLocal

\* An entry is made in it.
LEMMA NameSet ==
  ASSUME NEW l, IsLocal(l), NEW name \in Artists, NEW symphony \in BOOLEAN
  PROVE  IsLocal([l EXCEPT !.name = name, !.symphony = symphony])
<1>0. PICK id0, result0 : l \in LocalWith(id0, result0)
  BY DEF IsLocal
<1>1. [l EXCEPT !.name = name, !.symphony = symphony] \in LocalWith(id0, result0)
  BY <1>0 DEF LocalWith
<1> QED BY <1>1 DEF IsLocal

\* Get_artist_id gives its id.
LEMMA ArtistIdSet ==
  ASSUME NEW l, IsLocal(l), NEW id \in Int
  PROVE  LET m == [l EXCEPT !.artist_id = id] IN
         IsLocal(m) /\ m.artist_id = id /\ m.cd_id = l.cd_id
<1>0. PICK id0, result0 : l \in LocalWith(id0, result0)
  BY DEF IsLocal
<1>1. [l EXCEPT !.artist_id = id] \in LocalWith(id0, result0)
  BY <1>0 DEF LocalWith
<1>2. /\ [l EXCEPT !.artist_id = id].artist_id = id
      /\ [l EXCEPT !.artist_id = id].cd_id = l.cd_id
  BY <1>0 DEF LocalWith
<1> QED BY <1>1, <1>2 DEF IsLocal

\* An artist was inserted.
LEMMA LastIdSet ==
  ASSUME NEW l, IsLocal(l), NEW id \in Nat
  PROVE  LET m == [l EXCEPT !.lastId = id] IN IsLocal(m) /\ m.lastId = id
<1>0. PICK id0, result0 : l \in LocalWith(id0, result0)
  BY DEF IsLocal
<1>1. [l EXCEPT !.lastId = id] \in LocalWith(id0, result0)
  BY <1>0 DEF LocalWith
<1>2. [l EXCEPT !.lastId = id].lastId = id
  BY <1>0 DEF LocalWith
<1> QED BY <1>1, <1>2 DEF IsLocal

\* A CD was inserted.
LEMMA LastIdTaken ==
  ASSUME NEW l, IsLocal(l), NEW id \in Nat
  PROVE  LET m == [l EXCEPT !.lastId = id, !.artist_id = NoCd] IN IsLocal(m) /\ m.lastId = id
<1>0. PICK id0, result0 : l \in LocalWith(id0, result0)
  BY DEF IsLocal
<1> DEFINE m == [l EXCEPT !.lastId = id, !.artist_id = NoCd]
<1>1. NoCd \in Int
  BY DEF NoCd
<1>2. m \in LocalWith(id0, result0)
  BY <1>0, <1>1 DEF LocalWith
<1>3. m.lastId = id
  BY <1>0 DEF LocalWith
<1> QED BY <1>2, <1>3 DEF IsLocal

\* Find_cds gives a cd_id.
LEMMA CdIdSet ==
  ASSUME NEW l, IsLocal(l), NEW id
  PROVE  LET m == [l EXCEPT !.cd_id = id] IN IsLocal(m) /\ m.cd_id = id
<1>0. PICK id0, result0 : l \in LocalWith(id0, result0)
  BY DEF IsLocal
<1>1. [l EXCEPT !.cd_id = id] \in LocalWith(id, result0)
  BY <1>0 DEF LocalWith
<1>2. [l EXCEPT !.cd_id = id].cd_id = id
  BY <1>0 DEF LocalWith
<1> QED BY <1>1, <1>2 DEF IsLocal

\* The index of a loop goes on.
LEMMA IndexSet ==
  ASSUME NEW l, IsLocal(l), NEW i \in Nat
  PROVE  LET m == [l EXCEPT !.i = i] IN
         IsLocal(m) /\ m.i = i /\ m.cd_id = l.cd_id /\ m.rows = l.rows /\ m.found = l.found
<1>0. PICK id0, result0 : l \in LocalWith(id0, result0)
  BY DEF IsLocal
<1> DEFINE m == [l EXCEPT !.i = i]
<1>1. m \in LocalWith(id0, result0)
  BY <1>0 DEF LocalWith
<1>2. m.i = i /\ m.cd_id = l.cd_id /\ m.rows = l.rows /\ m.found = l.found
  BY <1>0 DEF LocalWith
<1> QED BY <1>1, <1>2 DEF IsLocal

\* A search has its result.
Found(l, result, count) == [l EXCEPT !.found = result, !.i = 0, !.rows = count]

\* It begins with its first row.
LEMMA ResultSet ==
  ASSUME NEW l, IsLocal(l), NEW result, NEW count \in Nat
  PROVE  IsLocal(Found(l, result, count)) /\ Found(l, result, count).i = 0
<1>1. PICK id0, result0 : l \in LocalWith(id0, result0)
  BY DEF IsLocal
<1>2. Found(l, result, count) \in LocalWith(id0, result)
  BY <1>1 DEF LocalWith, Found
<1>3. Found(l, result, count).i = 0
  BY <1>1 DEF LocalWith, Found
<1> QED BY <1>2, <1>3 DEF IsLocal


\* A search is over.
LEMMA ResultCleared ==
  ASSUME NEW l, IsLocal(l)
  PROVE  IsLocal([l EXCEPT !.found = <<>>, !.rows = 0, !.i = 0])
<1>1. PICK id0, result0 : l \in LocalWith(id0, result0)
  BY DEF IsLocal
<1>2. [l EXCEPT !.found = <<>>, !.rows = 0, !.i = 0] \in LocalWith(id0, <<>>)
  BY <1>1 DEF LocalWith
<1> QED BY <1>2 DEF IsLocal

\* A step that leads to statement s, outside the search, and leaves the tree alone.
GoesOutside(u) ==
  /\ sqlPc[u] \notin GetPlaces /\ tree' = tree
  /\ \E s \in Statements \ GetPlaces : \E l : IsLocal(l) /\ Goes(u, s, l)

\* The steps of a program that do not work on the tree.
LEMMA ProgramSteps ==
  ASSUME SqlTypeOK, NEW u \in SqlUsers,
         StartAppTest(u) \/ LogOn(u) \/ on_addcd_activate(u) \/ addcd_dialog_button_clicked(u)
           \/ quit_app(u)
  PROVE  GoesOutside(u) /\ UNCHANGED tables
<1> DEFINE l == local[u]
<1>1. IsLocal(l)
  BY DEF SqlTypeOK
<1>2. sqlPc[u] \notin GetPlaces /\ tree' = tree /\ UNCHANGED tables
  BY DEF StartAppTest, LogOn, quit_app, on_addcd_activate, addcd_dialog_button_clicked,
         Sends, GetPlaces, NoTree, NoTable
<1>3. CASE StartAppTest(u) \/ LogOn(u) \/ quit_app(u)
  <2>1. PICK s \in {"select artist", "gtk_main", "none"}, main \in {"none", "app_test", "gui"} :
          Goes(u, s, NewLocal(main))
    BY <1>3 DEF StartAppTest, LogOn, quit_app
  <2>2. IsLocal(NewLocal(main)) /\ s \in Statements \ GetPlaces
    BY NewLocals DEF Statements, GetPlaces
  <2> QED BY <1>2, <2>1, <2>2 DEF GoesOutside
<1>4. CASE on_addcd_activate(u) \/ addcd_dialog_button_clicked(u)
  <2> HIDE DEF l
  <2>1. PICK s \in {"select artist", "gtk_main"} :
          \/ \E open \in BOOLEAN : Goes(u, s, [l EXCEPT !.dialog = open])
          \/ \E name \in Artists, symphony \in BOOLEAN :
               Goes(u, s, [l EXCEPT !.name = name, !.symphony = symphony])
    BY <1>4 DEF on_addcd_activate, addcd_dialog_button_clicked, l
  <2>2. s \in Statements \ GetPlaces
    BY DEF Statements, GetPlaces
  <2>3. \E m : IsLocal(m) /\ Goes(u, s, m)
    BY <1>1, <2>1, DialogSet, NameSet
  <2> QED BY <1>2, <2>2, <2>3 DEF GoesOutside
<1> QED BY <1>3, <1>4

\* The steps of add_cd.
LEMMA AddSteps ==
  ASSUME SqlTypeOK, NEW u \in SqlUsers, add_cd(u)
  PROVE  GoesOutside(u)
<1> DEFINE l == local[u]
<1>1. /\ IsLocal(l) /\ autoId["artist"] \in Nat /\ autoId["cd"] \in Nat
      /\ \A a \in artist : a.id \in Int
  BY DEF SqlTypeOK
<1>2. sqlPc[u] \notin GetPlaces /\ tree' = tree
  BY DEF add_cd, SelectArtist, InsertArtist, SelectArtistId, InsertCd, SelectCdId, AddReturns,
         Sends, GetPlaces, NoTree
<1>3. {"insert artist", "insert cd", "select artist_id", "select cd_id", "insert track",
       "gtk_main", "none"} \subseteq Statements \ GetPlaces
  BY DEF Statements, GetPlaces
<1>4. l.lastId \in Int /\ NoCd \in Int /\ 0 \in Int
  BY <1>1, LocalTypes DEF NoCd
<1> HIDE DEF l
<1>5. ASSUME NEW succeeded, NEW id, NEW written, AddReturns(u, succeeded, id, written)
      PROVE  \E s \in Statements \ GetPlaces : \E m : IsLocal(m) /\ Goes(u, s, m)
  <2>1. CASE Goes(u, "gtk_main", NewLocal("gui")) \/ Goes(u, "none", NewLocal("none"))
    BY <1>3, <2>1, NewLocals
  <2>2. CASE \E other : Goes(u, "insert track", [NewLocal("app_test") EXCEPT !.cd_id = other])
    BY <1>3, <2>2, NewLocals
  <2> QED BY <1>5, <2>1, <2>2 DEF AddReturns
<1>6. CASE SelectArtist(u) \/ InsertArtist(u) \/ SelectArtistId(u)
  <2>1. \/ \E id \in Int : Goes(u, "insert cd", [l EXCEPT !.artist_id = id])
        \/ Goes(u, "insert artist", l)
        \/ \E id \in Nat : Goes(u, "select artist_id", [l EXCEPT !.lastId = id])
    <3>1. CASE SelectArtist(u)
      BY <1>1, <3>1 DEF SelectArtist, l
    <3>2. CASE InsertArtist(u)
      BY <1>1, <1>4, <3>2 DEF InsertArtist, l
    <3>3. CASE SelectArtistId(u)
      <4>1. PICK id \in {l.lastId} \cup {0, NoCd} :
              Goes(u, "insert cd", [l EXCEPT !.artist_id = id])
        BY <3>3 DEF SelectArtistId, l
      <4> QED BY <1>4, <4>1
    <3> QED BY <1>6, <3>1, <3>2, <3>3
  <2> QED BY <1>1, <1>2, <1>3, <2>1, ArtistIdSet, LastIdSet DEF GoesOutside
<1>7. CASE InsertCd(u)
  <2>1. CASE Goes(u, "select cd_id", [l EXCEPT !.lastId = autoId["cd"], !.artist_id = NoCd])
    BY <1>1, <1>2, <1>3, <2>1, LastIdTaken DEF GoesOutside
  <2>2. CASE AddReturns(u, FALSE, NoCd, FALSE)
    BY <1>2, <1>5, <2>2 DEF GoesOutside
  <2> QED BY <1>7, <2>1, <2>2 DEF InsertCd, l
<1>8. CASE SelectCdId(u)
  BY <1>2, <1>5, <1>8 DEF SelectCdId, GoesOutside
<1> QED BY <1>6, <1>7, <1>8 DEF add_cd

\* The artist of a CD, the CDs that have it, and the artist that delete_cd deletes.
ArtistIds(disc) == {c.artist_id : c \in {c \in cd : c.id = disc}}

Sharing(disc) == {c \in cd : c.artist_id \in ArtistIds(disc)}

ArtistToGo(disc) == IF Cardinality(Sharing(disc)) = 1 THEN Max(ArtistIds(disc)) ELSE NoCd

\* The artist that delete_cd deletes is that of no other CD.
LEMMA ArtistOfOneCd ==
  ASSUME IsFiniteSet(cd), \A c \in cd : c.artist_id \in Int, NEW disc
  PROVE  /\ ArtistToGo(disc) \in Int
         /\ \/ ArtistToGo(disc) = NoCd
            \/ \A c \in cd : c.artist_id = ArtistToGo(disc) => c.id = disc
<1>1. CASE Cardinality(Sharing(disc)) # 1
  <2>1. ArtistToGo(disc) = NoCd /\ NoCd \in Int
    BY <1>1 DEF ArtistToGo, NoCd
  <2> QED BY <2>1
<1>2. CASE Cardinality(Sharing(disc)) = 1
  <2>1. IsFiniteSet(Sharing(disc))
    <3>1. Sharing(disc) \in SUBSET cd
      BY DEF Sharing
    <3> QED BY <3>1, FS_Subset, Zenon
  <2>2. PICK r : Sharing(disc) = {r}
    BY <1>2, <2>1, FS_Singleton, Zenon
  <2>3. r \in cd /\ r.artist_id \in ArtistIds(disc)
    BY <2>2 DEF Sharing
  <2>4. PICK c0 \in cd : c0.id = disc /\ c0.artist_id = r.artist_id
    BY <2>3 DEF ArtistIds
  <2>5. c0 \in Sharing(disc) /\ c0 = r
    BY <2>2, <2>3, <2>4 DEF Sharing
  <2>6. ArtistIds(disc) = {r.artist_id}
    <3>1. ASSUME NEW a \in ArtistIds(disc) PROVE a = r.artist_id
      <4>1. PICK c \in cd : c.id = disc /\ c.artist_id = a
        BY DEF ArtistIds
      <4>2. c \in Sharing(disc)
        BY <3>1, <4>1 DEF Sharing
      <4> QED BY <2>2, <4>1, <4>2
    <3> QED BY <2>3, <3>1
  <2>7. Max(ArtistIds(disc)) = r.artist_id
    <3>1. r.artist_id \in Int
      BY <2>3
    <3>2. Max({r.artist_id}) = r.artist_id
      BY <3>1 DEF Max
    <3> QED BY <2>6, <3>2
  <2>8. ArtistToGo(disc) = r.artist_id /\ r.artist_id \in Int
    BY <1>2, <2>3, <2>7 DEF ArtistToGo
  <2>9. ASSUME NEW c \in cd, c.artist_id = r.artist_id PROVE c.id = disc
    <3>1. c \in Sharing(disc)
      BY <2>3, <2>9 DEF Sharing
    <3> QED BY <2>2, <2>4, <2>5, <3>1
  <2> QED BY <2>8, <2>9
<1> QED BY <1>1, <1>2

\* It goes on with that artist, or with none.
LEMMA ArtistCounted ==
  ASSUME SqlTypeOK, NEW u, CountUsersOfArtist(u)
  PROVE  \E id \in Int :
           /\ Goes(u, "delete tracks", [local[u] EXCEPT !.artist_id = id])
           /\ id = NoCd \/ \A c \in cd : c.artist_id = id => c.id = local[u].cd_id
<1> DEFINE Next(id) == Goes(u, "delete tracks", [local[u] EXCEPT !.artist_id = id])
           Own(id)  == id = NoCd \/ \A c \in cd : c.artist_id = id => c.id = local[u].cd_id
           one      == ArtistToGo(local[u].cd_id)
<1>1. \E id \in {one, NoCd} : Next(id)
  BY Zenon DEF CountUsersOfArtist, ArtistToGo, Sharing, ArtistIds
<1>2. IsFiniteSet(cd) /\ \A c \in cd : c.artist_id \in Int
  BY DEF SqlTypeOK
<1>3. NoCd \in Int /\ Own(NoCd)
  BY DEF NoCd
<1>4. one \in Int /\ Own(one)
  BY <1>2, ArtistOfOneCd, Zenon
<1> HIDE DEF one, Own, Next
<1>5. \E id \in Int : Next(id) /\ Own(id)
  BY <1>1, <1>3, <1>4, Zenon
<1> QED BY <1>5 DEF Next, Own

\* The tracks of app_test, its search, and the steps of delete_cd.
LEMMA TestSteps ==
  ASSUME SqlTypeOK, NEW u \in SqlUsers,
         InsertTrack(u) \/ delete_cd(u) \/ (find_cds(u) /\ Sends(u, "find"))
  PROVE  GoesOutside(u)
<1> DEFINE l == local[u]
<1>1. /\ IsLocal(l) /\ IsFiniteSet(cd) /\ \A c \in cd : c.artist_id \in Int
  BY DEF SqlTypeOK
<1>2. sqlPc[u] \notin GetPlaces /\ tree' = tree
  BY DEF InsertTrack, delete_cd, CountUsersOfArtist, DeleteTracks, DeleteCd, DeleteArtist,
         find_cds, Sends, GetPlaces, NoTree
<1>3. {"insert track", "find", "count users", "delete tracks", "delete cd", "delete artist",
       "none"} \subseteq Statements \ GetPlaces
  BY DEF Statements, GetPlaces
<1>4. l.i + 1 \in Nat /\ 0 \in Nat /\ NoCd \in Int /\ IsLocal(NewLocal("none"))
  BY <1>1, LocalTypes, NewLocals DEF NoCd
<1>5. CASE InsertTrack(u)
  <2>1. PICK i \in Nat, s \in {"insert track", "find"} : Goes(u, s, [l EXCEPT !.i = i])
    BY <1>4, <1>5 DEF InsertTrack
  <2> HIDE DEF l
  <2> QED BY <1>1, <1>2, <1>3, <2>1, IndexSet DEF GoesOutside
<1>6. CASE find_cds(u) /\ Sends(u, "find")
  <2>1. PICK id : Goes(u, "count users", [l EXCEPT !.cd_id = id])
    BY <1>6 DEF find_cds, Sends
  <2> HIDE DEF l
  <2> QED BY <1>1, <1>2, <1>3, <2>1, CdIdSet DEF GoesOutside
<1>7. CASE CountUsersOfArtist(u)
  <2>1. PICK id \in Int : Goes(u, "delete tracks", [l EXCEPT !.artist_id = id])
    BY <1>7, ArtistCounted, Zenon
  <2> HIDE DEF l
  <2> QED BY <1>1, <1>2, <1>3, <2>1, ArtistIdSet DEF GoesOutside
<1>8. CASE DeleteTracks(u) \/ DeleteCd(u) \/ DeleteArtist(u)
  <2>1. Goes(u, "none", NewLocal("none")) \/ Goes(u, "delete cd", l)
        \/ Goes(u, "delete artist", l)
    BY <1>8 DEF DeleteTracks, DeleteCd, DeleteArtist, TestEnds
  <2> HIDE DEF l
  <2> QED BY <1>1, <1>2, <1>3, <1>4, <2>1 DEF GoesOutside
<1> QED BY <1>5, <1>6, <1>7, <1>8 DEF delete_cd

\* The steps of a search.
SearchSteps(u) ==
  (find_cds(u) /\ Sends(u, "gtk_main")) \/ get_cd(u) \/ get_cd_tracks(u) \/ SearchEnds(u)

\* A program takes one of these steps.
LEMMA SqlCases ==
  ASSUME SqlNext, SqlTypeOK
  PROVE  \E u \in SqlUsers : GoesOutside(u) \/ SearchSteps(u)
<1>1. PICK u \in SqlUsers :
        \/ StartAppTest(u) \/ LogOn(u) \/ on_addcd_activate(u) \/ addcd_dialog_button_clicked(u)
        \/ quit_app(u) \/ add_cd(u) \/ InsertTrack(u) \/ find_cds(u) \/ get_cd(u)
        \/ get_cd_tracks(u) \/ SearchEnds(u) \/ delete_cd(u)
  BY DEF SqlNext
<1>2. find_cds(u) => Sends(u, "find") \/ Sends(u, "gtk_main")
  BY DEF find_cds
<1> QED BY <1>1, <1>2, ProgramSteps, AddSteps, TestSteps DEF SearchSteps

\* Statement s follows with some result of a search in the variables.
FoundThen(u, s) ==
  \E result : \E rows \in Nat : Goes(u, s, Found(local[u], result, rows))

\* The number of rows of a result is a number, also when the query failed.
LEMMA ResultCounted ==
  ASSUME SqlTypeOK, NEW u, NEW s,
         \/ \E rows \in SUBSET Joined :
              Goes(u, s, Found(local[u], Listed(rows), Cardinality(rows)))
         \/ \E garbage \in 0 .. MAX_CD_RESULT + 1 : Goes(u, s, Found(local[u], <<>>, garbage))
  PROVE  FoundThen(u, s)
<1>1. IsFiniteSet(cd) /\ MAX_CD_RESULT \in Nat
  BY SqlConstants DEF SqlTypeOK
<1>2. ASSUME NEW rows \in SUBSET Joined PROVE Cardinality(rows) \in Nat
  <2>1. rows \in SUBSET cd
    BY DEF Joined
  <2> QED BY <1>1, <2>1, FS_Subset, FS_CardinalityType, Zenon
<1>3. 0 .. MAX_CD_RESULT + 1 \subseteq Nat
  BY <1>1
<1> QED BY <1>2, <1>3, Zenon DEF FoundThen

\* A search that on_search_button_clicked starts has a result, and a number of rows.
LEMMA SearchFound ==
  ASSUME SqlTypeOK, NEW u \in SqlUsers, find_cds(u), Sends(u, "gtk_main")
  PROVE  \E l : IsLocal(l) /\ l.i = 0 /\ Goes(u, "get cd", l)
<1>1. IsLocal(local[u])
  BY DEF SqlTypeOK
<1>2. \/ \E rows \in SUBSET Joined :
           Goes(u, "get cd", Found(local[u], Listed(rows), Cardinality(rows)))
      \/ \E garbage \in 0 .. MAX_CD_RESULT + 1 :
           Goes(u, "get cd", Found(local[u], <<>>, garbage))
  BY Zenon DEF find_cds, Sends, Found
<1>3. FoundThen(u, "get cd")
  BY <1>2, ResultCounted, Zenon
<1> QED BY <1>1, <1>3, ResultSet, Zenon DEF FoundThen

\* The steps of a search keep the types, and lead to a statement of the search.
LEMMA SearchGoes ==
  ASSUME SqlTypeOK, NEW u \in SqlUsers, SearchSteps(u)
  PROVE  /\ \E s \in Statements : \E l : IsLocal(l) /\ Goes(u, s, l)
         /\ UNCHANGED tables /\ UNCHANGED addFailed
         /\ tree' = [v \in SqlUsers |-> tree'[v]]
         /\ \A v \in SqlUsers \ {u} : tree'[v] = tree[v]
<1> DEFINE l == local[u]
<1>1. IsLocal(l) /\ IsFiniteSet(cd) /\ MAX_CD_RESULT \in Nat
  BY SqlConstants DEF SqlTypeOK
<1>2. UNCHANGED tables /\ UNCHANGED addFailed
  BY DEF SearchSteps, find_cds, get_cd, get_cd_tracks, SearchEnds, NoTable
<1>3. tree' = tree \/ \E rows : tree' = [tree EXCEPT ![u] = rows]
  BY DEF SearchSteps, find_cds, get_cd, get_cd_tracks, SearchEnds
<1>4. tree = [v \in SqlUsers |-> tree[v]]
  BY DEF SqlTypeOK
<1>5. /\ tree' = [v \in SqlUsers |-> tree'[v]]
      /\ \A v \in SqlUsers \ {u} : tree'[v] = tree[v]
  BY <1>3, <1>4
<1>6. {"gtk_main", "get cd", "get tracks"} \subseteq Statements
  BY DEF Statements, GetPlaces
<1>7. CASE find_cds(u) /\ Sends(u, "gtk_main")
  <2>1. \E m : IsLocal(m) /\ Goes(u, "get cd", m)
    BY <1>7, SearchFound
  <2> QED BY <1>2, <1>5, <1>6, <2>1
<1>8. CASE get_cd(u)
  BY <1>1, <1>2, <1>5, <1>6, <1>8 DEF get_cd
<1>9. CASE get_cd_tracks(u)
  <2>1. Goes(u, "get cd", [l EXCEPT !.i = l.i + 1])
    BY <1>9, Zenon DEF get_cd_tracks
  <2> HIDE DEF l
  <2>2. l.i + 1 \in Nat
    BY <1>1, LocalTypes
  <2> QED BY <1>1, <1>2, <1>5, <1>6, <2>1, <2>2, IndexSet
<1>10. CASE SearchEnds(u)
  <2>1. Goes(u, "gtk_main", [l EXCEPT !.found = <<>>, !.rows = 0, !.i = 0])
    BY <1>10 DEF SearchEnds
  <2> HIDE DEF l
  <2> QED BY <1>1, <1>2, <1>5, <1>6, <2>1, ResultCleared
<1> QED BY <1>7, <1>8, <1>9, <1>10 DEF SearchSteps

\* Where the tree of a user changes, the search is that of the user.
LEMMA OthersTrees ==
  ASSUME SqlTypeOK, TreeInPlace, NEW u \in SqlUsers, NEW s \in Statements, NEW l, IsLocal(l),
         Goes(u, s, l), \A v \in SqlUsers \ {u} : tree'[v] = tree[v],
         TreeAt(s, l, tree'[u])
  PROVE  TreeInPlace'
<1>1. /\ sqlPc'[u] = s /\ local'[u] = l
      /\ \A v \in SqlUsers \ {u} : sqlPc'[v] = sqlPc[v] /\ local'[v] = local[v]
  BY Going
<1>2. ASSUME NEW v \in SqlUsers PROVE TreeAt(sqlPc'[v], local'[v], tree'[v])
  BY <1>1 DEF TreeInPlace
<1> QED BY <1>2 DEF TreeInPlace

\* A search that has fetched no row has an empty tree.
LEMMA NoRowYet ==
  ASSUME NEW l, l.i = 0, l.rows \in Nat, MAX_CD_RESULT \in Nat
  PROVE  TreeAt("get cd", l, <<>>)
<1>1. "get cd" \in GetPlaces /\ "get cd" # "get tracks"
  BY DEF GetPlaces
<1>2. <<>> \in Seq(RowsOf(l)) /\ Len(<<>>) = l.i /\ 1 .. Len(<<>>) = {}
      /\ l.i <= l.rows /\ l.i <= MAX_CD_RESULT
  OBVIOUS
<1> QED BY <1>1, <1>2, Zenon DEF TreeAt

\* A search begins with an empty tree.
LEMMA FindKeepsTree ==
  ASSUME SqlTypeOK, TreeInPlace, NEW u \in SqlUsers, find_cds(u), Sends(u, "gtk_main")
  PROVE  TreeInPlace'
<1>1. PICK m : IsLocal(m) /\ m.i = 0 /\ Goes(u, "get cd", m)
  BY SearchFound
<1>2. m.rows \in Nat /\ MAX_CD_RESULT \in Nat
  BY <1>1, LocalTypes, SqlConstants
<1>3. sqlPc[u] = "gtk_main" /\ tree' = tree
  BY Zenon DEF find_cds, Sends
<1>4. tree'[u] = <<>>
  BY <1>3 DEF TreeInPlace, TreeAt, GetPlaces
<1>5. TreeAt("get cd", m, tree'[u])
  <2>1. TreeAt("get cd", m, <<>>)
    BY <1>1, <1>2, NoRowYet
  <2> QED BY <1>4, <2>1
<1>6. "get cd" \in Statements
  BY DEF Statements, GetPlaces
<1> QED BY <1>1, <1>3, <1>5, <1>6, OthersTrees

\* get_cd adds a row to the tree.
LEMMA RowKeepsTree ==
  ASSUME SqlTypeOK, TreeInPlace, NEW u \in SqlUsers, get_cd(u)
  PROVE  TreeInPlace'
<1> DEFINE l == local[u]
           t == tree[u]
<1>1. IsLocal(l) /\ tree = [v \in SqlUsers |-> tree[v]] /\ l.i \in Nat
  BY LocalTypes DEF SqlTypeOK
<1>2. PICK drawn \in {ResultOf(l, l.i), NoCd} :
        tree' = [tree EXCEPT ![u] = Append(t, [cd |-> drawn, tracksOf |-> NoCd])]
  BY DEF get_cd
<1>3. sqlPc[u] = "get cd" /\ More(l) /\ Goes(u, "get tracks", l)
  BY DEF get_cd, Sends
<1>4. TreeAt("get cd", l, t)
  BY <1>3 DEF TreeInPlace
<1> DEFINE row == [cd |-> drawn, tracksOf |-> NoCd]
<1>5. /\ tree'[u] = Append(t, row)
      /\ \A v \in SqlUsers \ {u} : tree'[v] = tree[v]
  BY <1>1, <1>2
<1>6. row \in RowsOf(l) /\ row.cd \in {ResultOf(l, l.i), NoCd} /\ row.tracksOf = NoCd
  BY <1>1 DEF RowsOf
<1> HIDE DEF l, t, row
<1>7. t \in Seq(RowsOf(l)) /\ Len(t) = l.i /\ l.i <= l.rows /\ l.i <= MAX_CD_RESULT
  BY <1>4 DEF TreeAt, GetPlaces
<1>8. /\ tree'[u] \in Seq(RowsOf(l)) /\ Len(tree'[u]) = l.i + 1
      /\ \A k \in 1 .. l.i : tree'[u][k] = t[k]
      /\ tree'[u][l.i + 1] = row
  BY <1>5, <1>6, <1>7, AppendProperties
<1>9. ASSUME NEW k \in 1 .. Len(tree'[u])
      PROVE  /\ tree'[u][k].cd \in {ResultOf(l, k - 1), NoCd}
             /\ tree'[u][k].tracksOf \in {ResultOf(l, k - 1), NoCd}
  <2>1. CASE k <= l.i
    BY <1>1, <1>4, <1>7, <1>8, <2>1 DEF TreeAt, GetPlaces
  <2>2. CASE k = l.i + 1
    <3>1. k - 1 = l.i
      BY <1>1, <2>2
    <3> QED BY <1>6, <1>8, <2>2, <3>1
  <2> QED BY <1>1, <1>8, <2>1, <2>2
<1>10. TreeAt("get tracks", l, tree'[u])
  BY <1>3, <1>7, <1>8, <1>9 DEF TreeAt, GetPlaces
<1>11. "get tracks" \in Statements
  BY DEF Statements, GetPlaces
<1> QED BY <1>1, <1>3, <1>5, <1>10, <1>11, OthersTrees

\* get_cd_tracks puts the tracks below the last row.
LEMMA TracksKeepTree ==
  ASSUME SqlTypeOK, TreeInPlace, NEW u \in SqlUsers, get_cd_tracks(u)
  PROVE  TreeInPlace'
<1> DEFINE l == local[u]
           t == tree[u]
           m == [l EXCEPT !.i = l.i + 1]
<1>1. IsLocal(l) /\ tree = [v \in SqlUsers |-> tree[v]] /\ l.i \in Nat /\ MAX_CD_RESULT \in Nat
      /\ l.rows \in Nat
  BY LocalTypes, SqlConstants DEF SqlTypeOK
<1>2. PICK drawn \in {ResultOf(l, l.i), NoCd} :
        tree' = [tree EXCEPT ![u] = [t EXCEPT ![Len(t)].tracksOf = drawn]]
  BY DEF get_cd_tracks
<1>3. sqlPc[u] = "get tracks" /\ Goes(u, "get cd", m)
  BY DEF get_cd_tracks, Sends
<1>4. TreeAt("get tracks", l, t)
  BY <1>3 DEF TreeInPlace
<1>5. /\ tree'[u] = [t EXCEPT ![Len(t)].tracksOf = drawn]
      /\ \A v \in SqlUsers \ {u} : tree'[v] = tree[v]
  BY <1>1, <1>2
<1> HIDE DEF l, t
<1>6. IsLocal(m) /\ m.i = l.i + 1 /\ m.rows = l.rows /\ m.found = l.found
  BY <1>1, IndexSet
<1> HIDE DEF m
<1>7. /\ t \in Seq(RowsOf(l)) /\ Len(t) = l.i + 1 /\ l.i < l.rows /\ l.i < MAX_CD_RESULT
      /\ \A k \in 1 .. Len(t) : /\ t[k].cd \in {ResultOf(l, k - 1), NoCd}
                                /\ t[k].tracksOf \in {ResultOf(l, k - 1), NoCd}
  BY <1>4 DEF TreeAt, GetPlaces, More
<1>8. /\ \A k : ResultOf(m, k) = ResultOf(l, k)
      /\ RowsOf(m) = RowsOf(l)
  BY <1>6 DEF ResultOf, RowsOf
<1>9. t[Len(t)] \in RowsOf(l) /\ drawn \in {ResultOf(l, k) : k \in Nat} \cup {NoCd}
  BY <1>1, <1>7
<1> DEFINE row == [t[Len(t)] EXCEPT !.tracksOf = drawn]
<1>10. row \in RowsOf(l) /\ row.cd = t[Len(t)].cd /\ row.tracksOf = drawn
  BY <1>9 DEF RowsOf
<1>11. tree'[u] = [t EXCEPT ![Len(t)] = row]
  BY <1>5
<1> HIDE DEF row
<1>12. /\ tree'[u] \in Seq(RowsOf(l)) /\ Len(tree'[u]) = l.i + 1 /\ tree'[u][l.i + 1] = row
       /\ \A k \in 1 .. l.i : tree'[u][k] = t[k]
  BY <1>1, <1>7, <1>10, <1>11
<1>13. ASSUME NEW k \in 1 .. Len(tree'[u])
       PROVE  /\ tree'[u][k].cd \in {ResultOf(m, k - 1), NoCd}
              /\ tree'[u][k].tracksOf \in {ResultOf(m, k - 1), NoCd}
  <2>1. CASE k <= l.i
    BY <1>1, <1>7, <1>8, <1>12, <2>1
  <2>2. CASE k = l.i + 1
    <3>1. k - 1 = l.i
      BY <1>1, <2>2
    <3> QED BY <1>7, <1>8, <1>10, <1>12, <2>2, <3>1
  <2> QED BY <1>1, <1>12, <2>1, <2>2
<1>14. TreeAt("get cd", m, tree'[u])
  BY <1>1, <1>6, <1>7, <1>8, <1>12, <1>13 DEF TreeAt, GetPlaces
<1>15. "get cd" \in Statements
  BY DEF Statements, GetPlaces
<1> QED BY <1>3, <1>5, <1>6, <1>14, <1>15, OthersTrees

\* The tree is emptied when a search is over.
LEMMA EndKeepsTree ==
  ASSUME SqlTypeOK, TreeInPlace, NEW u \in SqlUsers, SearchEnds(u)
  PROVE  TreeInPlace'
<1> DEFINE l == local[u]
<1>1. IsLocal(l) /\ tree = [v \in SqlUsers |-> tree[v]]
  BY DEF SqlTypeOK
<1>2. /\ Goes(u, "gtk_main", [l EXCEPT !.found = <<>>, !.rows = 0, !.i = 0])
      /\ tree' = [tree EXCEPT ![u] = <<>>]
  BY DEF SearchEnds
<1>3. tree'[u] = <<>> /\ \A v \in SqlUsers \ {u} : tree'[v] = tree[v]
  BY <1>1, <1>2
<1> HIDE DEF l
<1> DEFINE m == [l EXCEPT !.found = <<>>, !.rows = 0, !.i = 0]
<1>4. IsLocal(m) /\ Goes(u, "gtk_main", m)
  BY <1>1, <1>2, ResultCleared
<1> HIDE DEF m
<1>5. TreeAt("gtk_main", m, tree'[u]) /\ "gtk_main" \in Statements
  BY <1>3 DEF TreeAt, GetPlaces, Statements
<1> QED BY <1>3, <1>4, <1>5, OthersTrees

\* The tables keep their types.
LEMMA TablesTyped ==
  ASSUME SqlTypeOK, SqlNext
  PROVE  /\ autoId' \in [{"artist", "cd"} -> Nat] /\ IsFiniteSet(cd')
         /\ \A c \in cd' : c.artist_id \in Int
         /\ \A a \in artist' : a.id \in Int
<1>1. /\ autoId \in [{"artist", "cd"} -> Nat] /\ IsFiniteSet(cd)
      /\ \A c \in cd : c.artist_id \in Int
      /\ \A a \in artist : a.id \in Int
  BY DEF SqlTypeOK
<1>2. PICK u \in SqlUsers :
        \/ InsertArtist(u) \/ InsertCd(u) \/ DeleteCd(u) \/ DeleteArtist(u)
        \/ UNCHANGED <<artist, cd, autoId>>
  BY DEF SqlNext, StartAppTest, LogOn, on_addcd_activate, addcd_dialog_button_clicked, quit_app,
         add_cd, SelectArtist, SelectArtistId, SelectCdId, InsertTrack, find_cds, get_cd,
         get_cd_tracks, SearchEnds, delete_cd, CountUsersOfArtist, DeleteTracks, NoTable, tables
<1>3. CASE UNCHANGED <<artist, cd, autoId>>
  BY <1>1, <1>3
<1>4. CASE InsertArtist(u)
  <2>1. cd' = cd
    BY <1>4 DEF InsertArtist, NoTable, tables
  <2>2. \/ /\ artist' = artist \cup {[id |-> autoId["artist"], name |-> local[u].name]}
           /\ autoId' = [autoId EXCEPT !["artist"] = @ + 1]
        \/ artist' = artist /\ autoId' = autoId
    BY <1>4 DEF InsertArtist, NoTable, tables
  <2>3. autoId' \in [{"artist", "cd"} -> Nat]
    BY <1>1, <2>2
  <2>4. \A a \in artist' : a.id \in Int
    BY <1>1, <2>2
  <2> QED BY <1>1, <2>1, <2>3, <2>4
<1>5. CASE InsertCd(u)
  <2> DEFINE new == [id |-> autoId["cd"], artist_id |-> local[u].artist_id,
                     symphony |-> local[u].symphony]
  <2>1. local[u].artist_id \in Int /\ new.artist_id = local[u].artist_id
    BY LocalTypes DEF SqlTypeOK
  <2>2. /\ artist' = artist
        /\ \/ cd' = cd \cup {new} /\ autoId' = [autoId EXCEPT !["cd"] = @ + 1]
           \/ cd' = cd /\ autoId' = autoId
    BY <1>5 DEF InsertCd, NoTable, tables
  <2>3. autoId' \in [{"artist", "cd"} -> Nat]
    BY <1>1, <2>2
  <2> HIDE DEF new
  <2>4. IsFiniteSet(cd \cup {new})
    BY <1>1, FS_AddElement, Zenon
  <2>5. IsFiniteSet(cd') /\ \A c \in cd' : c.artist_id \in Int
    BY <1>1, <2>1, <2>2, <2>4
  <2> QED BY <1>1, <2>2, <2>3, <2>5
<1>6. CASE DeleteCd(u)
  <2>1. cd' \in SUBSET cd /\ UNCHANGED <<artist, autoId>>
    BY <1>6 DEF DeleteCd
  <2>2. IsFiniteSet(cd')
    BY <1>1, <2>1, FS_Subset, Zenon
  <2> QED BY <1>1, <2>1, <2>2
<1>7. CASE DeleteArtist(u)
  <2>1. artist' \in SUBSET artist /\ UNCHANGED <<cd, autoId>>
    BY <1>7 DEF DeleteArtist
  <2> QED BY <1>1, <2>1
<1> QED BY <1>2, <1>3, <1>4, <1>5, <1>6, <1>7

\* Every step keeps the types, and the trees in place.
LEMMA TreeStep == SqlTypeOK /\ TreeInPlace /\ [SqlNext]_sqlVars => SqlTypeOK' /\ TreeInPlace'
<1> SUFFICES ASSUME SqlTypeOK, TreeInPlace, [SqlNext]_sqlVars
             PROVE  SqlTypeOK' /\ TreeInPlace'
  OBVIOUS
<1>1. CASE UNCHANGED sqlVars
  BY <1>1 DEF sqlVars, tables, SqlTypeOK, TreeInPlace
<1>2. CASE SqlNext
  <2>1. PICK u \in SqlUsers : GoesOutside(u) \/ SearchSteps(u)
    BY <1>2, SqlCases
  <2>2. /\ autoId' \in [{"artist", "cd"} -> Nat] /\ IsFiniteSet(cd')
        /\ \A c \in cd' : c.artist_id \in Int
        /\ \A a \in artist' : a.id \in Int
    BY <1>2, TablesTyped
  <2>3. PICK s \in Statements : \E l : IsLocal(l) /\ Goes(u, s, l)
    BY <2>1, SearchGoes DEF GoesOutside
  <2>4. PICK l : IsLocal(l) /\ Goes(u, s, l)
    BY <2>3
  <2>5. tree' = [v \in SqlUsers |-> tree'[v]]
    BY <2>1, SearchGoes DEF GoesOutside, SqlTypeOK
  <2>6. /\ sqlPc' \in [SqlUsers -> Statements] /\ local' = [v \in SqlUsers |-> local'[v]]
        /\ \A v \in SqlUsers : IsLocal(local'[v])
    BY <2>4, Going
  <2>7. SqlTypeOK'
    BY <2>2, <2>5, <2>6 DEF SqlTypeOK
  <2>8. CASE GoesOutside(u)
    <3>1. PICK s1 \in Statements \ GetPlaces : \E l1 : IsLocal(l1) /\ Goes(u, s1, l1)
      BY <2>8 DEF GoesOutside
    <3>2. PICK l1 : IsLocal(l1) /\ Goes(u, s1, l1)
      BY <3>1
    <3>3. tree' = tree /\ tree[u] = <<>>
      BY <2>8 DEF GoesOutside, TreeInPlace, TreeAt
    <3>4. TreeAt(s1, l1, tree'[u])
      BY <3>1, <3>3 DEF TreeAt
    <3>5. TreeInPlace'
      BY <3>2, <3>3, <3>4, OthersTrees
    <3> QED BY <2>7, <3>5
  <2>9. CASE SearchSteps(u)
    BY <2>7, <2>9, FindKeepsTree, RowKeepsTree, TracksKeepTree, EndKeepsTree DEF SearchSteps
  <2> QED BY <2>1, <2>8, <2>9
<1> QED BY <1>1, <1>2

\* At the start there is no row and no program.
LEMMA SqlStart == SqlInit => SqlTypeOK /\ TreeInPlace
<1> SUFFICES ASSUME SqlInit PROVE SqlTypeOK /\ TreeInPlace
  OBVIOUS
<1>1. sqlPc \in [SqlUsers -> Statements] /\ \A v \in SqlUsers : sqlPc[v] = "none"
  BY DEF SqlInit, Statements
<1>2. /\ local = [v \in SqlUsers |-> local[v]] /\ tree = [v \in SqlUsers |-> tree[v]]
      /\ \A v \in SqlUsers : local[v] = NewLocal("none") /\ tree[v] = <<>>
  BY DEF SqlInit
<1>3. IsLocal(NewLocal("none"))
  BY NewLocals
<1>4. /\ autoId \in [{"artist", "cd"} -> Nat] /\ cd = {} /\ artist = {}
  BY DEF SqlInit
<1>5. IsFiniteSet(cd)
  BY <1>4, FS_EmptySet
<1>6. SqlTypeOK
  BY <1>1, <1>2, <1>3, <1>4, <1>5 DEF SqlTypeOK
<1>7. TreeInPlace
  BY <1>1, <1>2 DEF TreeInPlace, TreeAt, GetPlaces
<1> QED BY <1>6, <1>7

\* A loop that is over has done as many rounds as there are.
LEMMA AllShown ==
  ASSUME NEW i \in Nat, NEW rows \in Nat, NEW bound \in Nat, i <= rows, i <= bound,
         i < rows => ~(i < bound)
  PROVE  i = IF rows < bound THEN rows ELSE bound
OBVIOUS

\* The rows of a tree have the numbers from 1.
LEMMA RowNumbers ==
  ASSUME NEW S, NEW drawn \in Seq(S)
  PROVE  DOMAIN drawn = 1 .. Len(drawn)
OBVIOUS

\* The tree of a search that is over.
LEMMA TreeComplete ==
  ASSUME NEW l, IsLocal(l), NEW drawn, TreeAt("get cd", l, drawn), ~More(l)
  PROVE  /\ Len(drawn) = IF l.rows < MAX_CD_RESULT THEN l.rows ELSE MAX_CD_RESULT
         /\ \A i \in DOMAIN drawn : /\ drawn[i].cd \in {ResultOf(l, i - 1), NoCd}
                                    /\ drawn[i].tracksOf \in {ResultOf(l, i - 1), NoCd}
<1>1. l.i \in Nat /\ l.rows \in Nat /\ MAX_CD_RESULT \in Nat
  BY LocalTypes, SqlConstants
<1>2. drawn \in Seq(RowsOf(l)) /\ Len(drawn) = l.i /\ l.i <= l.rows /\ l.i <= MAX_CD_RESULT
      /\ \A k \in 1 .. Len(drawn) : /\ drawn[k].cd \in {ResultOf(l, k - 1), NoCd}
                                   /\ drawn[k].tracksOf \in {ResultOf(l, k - 1), NoCd}
  BY DEF TreeAt, GetPlaces
<1>3. l.i < l.rows => ~(l.i < MAX_CD_RESULT)
  BY DEF More
<1>4. DOMAIN drawn = 1 .. Len(drawn)
  BY <1>2, RowNumbers, Zenon
<1>5. l.i = IF l.rows < MAX_CD_RESULT THEN l.rows ELSE MAX_CD_RESULT
  BY <1>1, <1>2, <1>3, AllShown, Zenon
<1> QED BY <1>2, <1>4, <1>5, Zenon

\* The tree is that of the result when the rows are all there.
LEMMA TreePromises == SqlTypeOK /\ TreeInPlace => TreeIsOfResult
<1> SUFFICES ASSUME SqlTypeOK, TreeInPlace PROVE TreeIsOfResult
  OBVIOUS
<1>1. ASSUME NEW u \in SqlUsers, sqlPc[u] = "get cd", ~More(local[u])
      PROVE  TreeAt("get cd", local[u], tree[u]) /\ IsLocal(local[u])
  <2>1. TreeAt(sqlPc[u], local[u], tree[u]) /\ IsLocal(local[u])
    BY DEF TreeInPlace, SqlTypeOK
  <2> QED BY <1>1, <2>1, Zenon
<1> QED BY <1>1, TreeComplete, Zenon DEF TreeIsOfResult

\* What the search of chap16 shows is one result of the tables, row by row, for any
\* number of users who change the tables meanwhile (callbacks.c 95-131).
THEOREM TreesShowTheirResult == SqlSpec => []TreeIsOfResult
BY SqlStart, TreeStep, TreePromises, PTL DEF SqlSpec

-----------------------------------------------------------------------------
(* One user's statements, each of which may fail.                          *)

\* What the tables hold when the program is about to send a statement.
AtStatement(artists, discs, tunes, failed, s, l) ==
  /\ s = "select artist_id" => \E a \in artists : a.id = l.lastId
  /\ s = "insert cd" => (l.artist_id > 0 => \E a \in artists : a.id = l.artist_id)
  /\ s = "select cd_id" => \E c \in discs : c.id = l.lastId
  /\ s = "insert track" /\ ~failed =>
       /\ \E c \in discs : c.id = l.cd_id
       /\ \A n \in 1 .. l.i : [cd_id |-> l.cd_id, track_id |-> n] \in tunes
  /\ s \in {"delete tracks", "delete cd"} =>
       l.artist_id = NoCd \/ \A c \in discs : c.artist_id = l.artist_id => c.id = l.cd_id
  /\ s = "delete cd" => \A t \in tunes : t.cd_id # l.cd_id
  /\ s = "delete artist" => \A c \in discs : c.artist_id = l.artist_id => c.artist_id <= 0

TablesInPlace(u) ==
  /\ ArtistsAreKept /\ TracksHaveCd
  /\ AtStatement(artist, cd, track, addFailed, sqlPc[u], local[u])

\* The statements before which nothing is promised.
Plain ==
  {"none", "gtk_main", "select artist", "insert artist", "find", "count users"} \cup GetPlaces

\* A statement of which nothing is promised.
LEMMA PlainStatement ==
  ASSUME NEW s \in Plain, NEW artists, NEW discs, NEW tunes, NEW failed, NEW l
  PROVE  AtStatement(artists, discs, tunes, failed, s, l)
BY DEF Plain, GetPlaces, AtStatement

\* The program is where it goes to.
LEMMA Placed ==
  ASSUME SqlTypeOK, NEW u \in SqlUsers, NEW s, NEW l, Goes(u, s, l),
         ArtistsAreKept', TracksHaveCd', AtStatement(artist', cd', track', addFailed', s, l)
  PROVE  TablesInPlace(u)'
<1>1. sqlPc'[u] = s /\ local'[u] = l
  BY DEF SqlTypeOK, Goes
<1> QED BY <1>1 DEF TablesInPlace

\* A statement that changes no table and leads where nothing is promised.
QuietStatement(u) ==
  UNCHANGED <<artist, cd, track, addFailed>> /\ \E s \in Plain : \E l : Goes(u, s, l)

\* Such a step keeps the tables in place.
LEMMA QuietStatementKeeps ==
  ASSUME SqlTypeOK, NEW u \in SqlUsers, TablesInPlace(u), QuietStatement(u)
  PROVE  TablesInPlace(u)'
<1>1. PICK s \in Plain : \E l : Goes(u, s, l)
  BY DEF QuietStatement
<1>2. PICK l : Goes(u, s, l)
  BY <1>1
<1>3. ArtistsAreKept' /\ TracksHaveCd'
  BY DEF QuietStatement, TablesInPlace, ArtistsAreKept, TracksHaveCd
<1>4. AtStatement(artist', cd', track', addFailed', s, l)
  BY PlainStatement
<1> QED BY <1>2, <1>3, <1>4, Placed

\* The steps around the database functions, and those of a search, are such.
LEMMA QuietStatements ==
  ASSUME NEW u \in SqlUsers,
         \/ StartAppTest(u) \/ LogOn(u) \/ on_addcd_activate(u)
         \/ addcd_dialog_button_clicked(u) \/ quit_app(u)
         \/ find_cds(u) \/ get_cd(u) \/ get_cd_tracks(u) \/ SearchEnds(u)
  PROVE  QuietStatement(u)
<1>1. UNCHANGED <<artist, cd, track, addFailed>>
  BY DEF StartAppTest, LogOn, on_addcd_activate, addcd_dialog_button_clicked, quit_app,
         find_cds, get_cd, get_cd_tracks, SearchEnds, NoTable, tables, NoTree
<1>2. {"select artist", "gtk_main", "none", "count users", "get cd", "get tracks"} \subseteq Plain
  BY DEF Plain, GetPlaces
<1>3. \E s \in {"select artist", "gtk_main", "none", "count users", "get cd", "get tracks"} :
        \E l : Goes(u, s, l)
  <2>1. CASE StartAppTest(u) \/ LogOn(u) \/ quit_app(u)
    BY <2>1 DEF StartAppTest, LogOn, quit_app
  <2>2. CASE on_addcd_activate(u) \/ addcd_dialog_button_clicked(u)
    BY <2>2, Zenon DEF on_addcd_activate, addcd_dialog_button_clicked
  <2>3. CASE find_cds(u)
    BY <2>3, Zenon DEF find_cds
  <2>4. CASE get_cd(u)
    BY <2>4, Zenon DEF get_cd
  <2>5. CASE get_cd_tracks(u)
    BY <2>5, Zenon DEF get_cd_tracks
  <2>6. CASE SearchEnds(u)
    BY <2>6, Zenon DEF SearchEnds
  <2> QED BY <2>1, <2>2, <2>3, <2>4, <2>5, <2>6
<1> QED BY <1>1, <1>2, <1>3 DEF QuietStatement

\* get_artist_id: the artist is there when its id is used.
LEMMA ArtistSteps ==
  ASSUME SqlTypeOK, NEW u \in SqlUsers, TablesInPlace(u),
         SelectArtist(u) \/ InsertArtist(u) \/ SelectArtistId(u)
  PROVE  TablesInPlace(u)'
<1> DEFINE l == local[u]
<1>1. IsLocal(l) /\ autoId["artist"] \in Nat /\ \A a \in artist : a.id \in Int
  BY DEF SqlTypeOK
<1>2. ArtistsAreKept /\ TracksHaveCd
  BY DEF TablesInPlace
<1>3. ASSUME UNCHANGED <<artist, cd, track, addFailed>>
      PROVE  ArtistsAreKept' /\ TracksHaveCd'
  BY <1>2, <1>3 DEF ArtistsAreKept, TracksHaveCd
<1>4. ASSUME NEW id \in Int, Goes(u, "insert cd", [l EXCEPT !.artist_id = id]),
             UNCHANGED <<artist, cd, track, addFailed>>,
             id > 0 => \E a \in artist : a.id = id
      PROVE  TablesInPlace(u)'
  <2> DEFINE m == [l EXCEPT !.artist_id = id]
  <2>1. m.artist_id = id
    BY <1>1, ArtistIdSet
  <2> HIDE DEF m
  <2>2. AtStatement(artist', cd', track', addFailed', "insert cd", m)
    BY <1>4, <2>1 DEF AtStatement
  <2> QED BY <1>3, <1>4, <2>2, Placed DEF m
<1>5. CASE SelectArtist(u)
  <2>1. UNCHANGED <<artist, cd, track, addFailed>>
    BY <1>5 DEF SelectArtist, NoTable, tables, NoTree
  <2>2. CASE \E a \in artist : Goes(u, "insert cd", [l EXCEPT !.artist_id = a.id])
    BY <1>1, <1>4, <2>1, <2>2
  <2>3. CASE Goes(u, "insert artist", l)
    <3>1. QuietStatement(u)
      BY <2>1, <2>3 DEF QuietStatement, Plain
    <3> QED BY <3>1, QuietStatementKeeps
  <2> QED BY <1>5, <2>2, <2>3 DEF SelectArtist
<1>6. CASE InsertArtist(u)
  <2> DEFINE new == [id |-> autoId["artist"], name |-> l.name]
             m   == [l EXCEPT !.lastId = autoId["artist"]]
  <2>1. CASE artist' = artist \cup {new} /\ UNCHANGED <<cd, track, addFailed>>
             /\ Goes(u, "select artist_id", m)
    <3>1. new \in artist' /\ new.id = autoId["artist"]
      BY <2>1
    <3>2. m.lastId = autoId["artist"]
      BY <1>1, LastIdSet
    <3> HIDE DEF new, m
    <3>3. ArtistsAreKept' /\ TracksHaveCd'
      BY <1>2, <2>1 DEF ArtistsAreKept, TracksHaveCd
    <3>4. AtStatement(artist', cd', track', addFailed', "select artist_id", m)
      BY <3>1, <3>2 DEF AtStatement
    <3> QED BY <2>1, <3>3, <3>4, Placed
  <2>2. CASE UNCHANGED <<artist, cd, track, addFailed>>
             /\ Goes(u, "insert cd", [l EXCEPT !.artist_id = 0])
    <3>1. 0 \in Int /\ ~(0 > 0)
      OBVIOUS
    <3> QED BY <1>4, <2>2, <3>1, Zenon
  <2> QED BY <1>6, <2>1, <2>2 DEF InsertArtist, NoTable, tables, NoTree
<1>7. CASE SelectArtistId(u)
  <2>1. UNCHANGED <<artist, cd, track, addFailed>>
    BY <1>7 DEF SelectArtistId, NoTable, tables, NoTree
  <2>2. PICK id \in {l.lastId} \cup {0, NoCd} : Goes(u, "insert cd", [l EXCEPT !.artist_id = id])
    BY <1>7 DEF SelectArtistId
  <2>3. \E a \in artist : a.id = l.lastId
    <3>1. AtStatement(artist, cd, track, addFailed, "select artist_id", l)
      BY <1>7, Zenon DEF SelectArtistId, Sends, TablesInPlace
    <3> QED BY <3>1, Zenon DEF AtStatement
  <2>4. id \in Int /\ (id > 0 => \E a \in artist : a.id = id)
    <3>1. l.lastId \in Int
      BY <1>1, LocalTypes
    <3>2. 0 \in Int /\ NoCd \in Int /\ ~(0 > 0) /\ ~(NoCd > 0)
      BY DEF NoCd
    <3> QED BY <2>2, <2>3, <3>1, <3>2, Zenon
  <2> QED BY <1>4, <2>1, <2>2, <2>4
<1> QED BY <1>5, <1>6, <1>7

\* add_cd returns: app_test goes on to add tracks.
LEMMA AddReturnKeeps ==
  ASSUME SqlTypeOK, NEW u \in SqlUsers, TablesInPlace(u), UNCHANGED tables,
         NEW succeeded \in BOOLEAN, NEW id, NEW written, AddReturns(u, succeeded, id, written),
         succeeded => written /\ \E c \in cd : c.id = id
  PROVE  TablesInPlace(u)'
<1>1. UNCHANGED <<artist, cd, track>> /\ addFailed' = (addFailed \/ ~succeeded)
  BY DEF tables, AddReturns
<1>2. ArtistsAreKept' /\ TracksHaveCd'
  BY <1>1 DEF TablesInPlace, ArtistsAreKept, TracksHaveCd
<1>3. CASE Goes(u, "gtk_main", NewLocal("gui")) \/ Goes(u, "none", NewLocal("none"))
  <2>1. \E s \in Plain : \E l : Goes(u, s, l)
    BY <1>3 DEF Plain
  <2>2. PICK s \in Plain : \E l : Goes(u, s, l)
    BY <2>1
  <2>3. PICK l : Goes(u, s, l)
    BY <2>2
  <2>4. AtStatement(artist', cd', track', addFailed', s, l)
    BY PlainStatement
  <2> QED BY <1>2, <2>3, <2>4, Placed
<1>4. CASE \E other \in IF written THEN {id} ELSE Ids \cup {0} :
             Goes(u, "insert track", [NewLocal("app_test") EXCEPT !.cd_id = other])
  <2>1. PICK other : /\ written => other = id
                     /\ Goes(u, "insert track", [NewLocal("app_test") EXCEPT !.cd_id = other])
    BY <1>4
  <2> DEFINE m == [NewLocal("app_test") EXCEPT !.cd_id = other]
  <2>2. m.cd_id = other /\ m.i = 0
    BY NewLocals
  <2> HIDE DEF m
  <2>3. 1 .. m.i = {}
    BY <2>2
  <2>4. ~addFailed' => \E c \in cd' : c.id = m.cd_id
    BY <1>1, <2>1, <2>2
  <2>5. AtStatement(artist', cd', track', addFailed', "insert track", m)
    BY <2>3, <2>4, Zenon DEF AtStatement
  <2> QED BY <1>2, <2>1, <2>5, Placed DEF m
<1> QED BY <1>3, <1>4 DEF AddReturns


\* add_cd after its artist: the CD is there when its id is used.
LEMMA CdSteps ==
  ASSUME SqlTypeOK, NEW u \in SqlUsers, TablesInPlace(u), InsertCd(u) \/ SelectCdId(u)
  PROVE  TablesInPlace(u)'
<1> DEFINE l == local[u]
<1>1. IsLocal(l) /\ autoId["cd"] \in Nat
  BY DEF SqlTypeOK
<1>2. ArtistsAreKept /\ TracksHaveCd
  BY DEF TablesInPlace
<1>3. ASSUME UNCHANGED tables, AddReturns(u, FALSE, NoCd, FALSE) \/ AddReturns(u, FALSE, NoCd, TRUE)
      PROVE  TablesInPlace(u)'
  BY <1>3, AddReturnKeeps, Zenon
<1>4. CASE InsertCd(u)
  <2> DEFINE new == [id |-> autoId["cd"], artist_id |-> l.artist_id, symphony |-> l.symphony]
             m   == [l EXCEPT !.lastId = autoId["cd"], !.artist_id = NoCd]
  <2>1. CASE cd' = cd \cup {new} /\ UNCHANGED <<artist, track, addFailed>>
             /\ Goes(u, "select cd_id", m)
    <3>1. new \in cd' /\ new.id = autoId["cd"] /\ new.artist_id = l.artist_id
      BY <2>1
    <3>2. m.lastId = autoId["cd"]
      BY <1>1, LastIdTaken
    <3>3. l.artist_id > 0 => \E a \in artist : a.id = l.artist_id
      <4>1. AtStatement(artist, cd, track, addFailed, "insert cd", l)
        BY <1>4, Zenon DEF InsertCd, Sends, TablesInPlace
      <4> QED BY <4>1, Zenon DEF AtStatement
    <3> HIDE DEF new, m, l
    <3>4. ArtistsAreKept'
      BY <1>2, <2>1, <3>1, <3>3 DEF ArtistsAreKept
    <3>5. TracksHaveCd'
      BY <1>2, <2>1 DEF TracksHaveCd
    <3>6. \E c \in cd' : c.id = m.lastId
      BY <3>1, <3>2
    <3>7. AtStatement(artist', cd', track', addFailed', "select cd_id", m)
      BY <3>6 DEF AtStatement
    <3> QED BY <2>1, <3>4, <3>5, <3>7, Placed
  <2>2. CASE NoTable /\ AddReturns(u, FALSE, NoCd, FALSE)
    BY <1>3, <2>2 DEF NoTable
  <2> QED BY <1>4, <2>1, <2>2 DEF InsertCd, NoTree
<1>5. CASE SelectCdId(u)
  <2>1. \E c \in cd : c.id = l.lastId
    <3>1. AtStatement(artist, cd, track, addFailed, "select cd_id", l)
      BY <1>5, Zenon DEF SelectCdId, Sends, TablesInPlace
    <3> QED BY <3>1, Zenon DEF AtStatement
  <2>2. UNCHANGED tables
    BY <1>5 DEF SelectCdId, NoTable
  <2>3. CASE AddReturns(u, TRUE, l.lastId, TRUE)
    BY <2>1, <2>2, <2>3, AddReturnKeeps, Zenon
  <2> QED BY <1>3, <1>5, <2>2, <2>3 DEF SelectCdId
<1> QED BY <1>4, <1>5

\* One more number after 1 .. i.
LEMMA NextNumber == \A i \in Nat : \A n \in 1 .. i + 1 : n \in 1 .. i \/ n = i + 1
OBVIOUS

\* add_tracks numbers the tracks of a CD that is there.
LEMMA TrackStep ==
  ASSUME SqlTypeOK, NEW u \in SqlUsers, TablesInPlace(u), InsertTrack(u)
  PROVE  TablesInPlace(u)'
<1> DEFINE l   == local[u]
           row == [cd_id |-> l.cd_id, track_id |-> l.i + 1]
<1>1. IsLocal(l) /\ l.i \in Nat
  BY LocalTypes DEF SqlTypeOK
<1>2. ArtistsAreKept /\ TracksHaveCd
  BY DEF TablesInPlace
<1>3. UNCHANGED <<artist, cd, addFailed>>
  BY DEF InsertTrack, NoTree
<1>4. ArtistsAreKept'
  BY <1>2, <1>3 DEF ArtistsAreKept
<1>5. CASE track' = track \cup {row} /\ Goes(u, "insert track", [l EXCEPT !.i = l.i + 1])
  <2> DEFINE m == [l EXCEPT !.i = l.i + 1]
  <2>1. l.i + 1 \in Nat
    BY <1>1
  <2>2. m.i = l.i + 1 /\ m.cd_id = l.cd_id
    BY <1>1, <2>1, IndexSet
  <2>3. ~addFailed => /\ \E c \in cd : c.id = l.cd_id
                      /\ \A n \in 1 .. l.i : [cd_id |-> l.cd_id, track_id |-> n] \in track
    <3>1. AtStatement(artist, cd, track, addFailed, "insert track", l)
      BY Zenon DEF InsertTrack, Sends, TablesInPlace
    <3> QED BY <3>1, Zenon DEF AtStatement
  <2>4. row.cd_id = l.cd_id /\ row.track_id = l.i + 1 /\ row \in track'
    BY <1>5
  <2>5. ~addFailed => \A n \in 1 .. l.i + 1 : [cd_id |-> l.cd_id, track_id |-> n] \in track'
    <3>1. ASSUME ~addFailed, NEW n \in 1 .. l.i + 1
          PROVE  [cd_id |-> l.cd_id, track_id |-> n] \in track'
      <4>1. CASE n \in 1 .. l.i
        BY <1>5, <2>3, <3>1, <4>1
      <4>2. CASE n = l.i + 1
        BY <1>5, <4>2
      <4> QED BY <1>1, <3>1, <4>1, <4>2, NextNumber, Zenon
    <3> QED BY <3>1
  <2> HIDE DEF m, row, l
  <2>6. TracksHaveCd'
    <3> SUFFICES ASSUME ~addFailed', NEW t \in track'
                 PROVE  /\ \E c \in cd' : c.id = t.cd_id
                        /\ \A n \in 1 .. t.track_id : [cd_id |-> t.cd_id, track_id |-> n] \in track'
      BY DEF TracksHaveCd
    <3>1. ~addFailed
      BY <1>3
    <3>2. CASE t \in track
      BY <1>2, <1>3, <1>5, <3>1, <3>2 DEF TracksHaveCd
    <3>3. CASE t = row
      BY <1>3, <2>3, <2>4, <2>5, <3>1, <3>3
    <3> QED BY <1>5, <3>2, <3>3
  <2>7. AtStatement(artist', cd', track', addFailed', "insert track", m)
    <3>1. ~addFailed' => /\ \E c \in cd' : c.id = m.cd_id
                         /\ \A n \in 1 .. m.i : [cd_id |-> m.cd_id, track_id |-> n] \in track'
      BY <1>3, <2>2, <2>3, <2>5
    <3> QED BY <3>1, Zenon DEF AtStatement
  <2> QED BY <1>4, <1>5, <2>6, <2>7, Placed DEF m
<1>6. CASE track' = track /\ \E m : Goes(u, "find", m)
  <2>1. QuietStatement(u)
    BY <1>3, <1>6 DEF QuietStatement, Plain
  <2> QED BY <2>1, QuietStatementKeeps
<1> QED BY <1>5, <1>6 DEF InsertTrack

\* delete_cd: the artist goes after the last of its CDs, that after its tracks.
LEMMA ArtistCountedStep ==
  ASSUME SqlTypeOK, NEW u \in SqlUsers, TablesInPlace(u), CountUsersOfArtist(u)
  PROVE  TablesInPlace(u)'
<1> DEFINE l == local[u]
<1>1. IsLocal(l) /\ IsFiniteSet(cd) /\ \A c \in cd : c.artist_id \in Int
  BY DEF SqlTypeOK
<1>2. UNCHANGED <<artist, cd, track, addFailed>>
  BY DEF CountUsersOfArtist, NoTable, tables, NoTree
<1>3. ArtistsAreKept' /\ TracksHaveCd'
  BY <1>2 DEF TablesInPlace, ArtistsAreKept, TracksHaveCd
<1>4. PICK other \in Int :
        /\ Goes(u, "delete tracks", [l EXCEPT !.artist_id = other])
        /\ other = NoCd \/ \A c \in cd : c.artist_id = other => c.id = l.cd_id
  BY ArtistCounted, Zenon
<1> HIDE DEF l
<1> DEFINE m == [l EXCEPT !.artist_id = other]
<1>5. m.artist_id = other /\ m.cd_id = l.cd_id
  BY <1>1, <1>4, ArtistIdSet
<1> HIDE DEF m
<1>6. m.artist_id = NoCd \/ \A c \in cd' : c.artist_id = m.artist_id => c.id = m.cd_id
  BY <1>2, <1>4, <1>5
<1>7. AtStatement(artist', cd', track', addFailed', "delete tracks", m)
  BY <1>6 DEF AtStatement
<1> QED BY <1>3, <1>4, <1>7, Placed DEF m

\* The deletions of delete_cd, in this order: tracks, CD, artist.
LEMMA DeleteSteps ==
  ASSUME SqlTypeOK, NEW u \in SqlUsers, TablesInPlace(u),
         DeleteTracks(u) \/ DeleteCd(u) \/ DeleteArtist(u)
  PROVE  TablesInPlace(u)'
<1> DEFINE l == local[u]
<1>1. \A c \in cd : c.artist_id \in Int
  BY DEF SqlTypeOK
<1>2. ArtistsAreKept /\ TracksHaveCd
  BY DEF TablesInPlace
<1>3. ASSUME TestEnds(u), ArtistsAreKept', TracksHaveCd'
      PROVE  TablesInPlace(u)'
  <2>1. Goes(u, "none", NewLocal("none")) /\ "none" \in Plain
    BY <1>3 DEF TestEnds, Plain
  <2>2. AtStatement(artist', cd', track', addFailed', "none", NewLocal("none"))
    BY <2>1, PlainStatement
  <2> QED BY <1>3, <2>1, <2>2, Placed
<1>4. CASE DeleteTracks(u)
  <2>1. UNCHANGED <<artist, cd, addFailed>>
    BY <1>4 DEF DeleteTracks, NoTree
  <2>2. ArtistsAreKept'
    BY <1>2, <2>1 DEF ArtistsAreKept
  <2>3. CASE track' = {t \in track : t.cd_id # l.cd_id} /\ Goes(u, "delete cd", l)
    <3>1. l.artist_id = NoCd \/ \A c \in cd : c.artist_id = l.artist_id => c.id = l.cd_id
      <4>1. AtStatement(artist, cd, track, addFailed, "delete tracks", l)
        BY <1>4, Zenon DEF DeleteTracks, Sends, TablesInPlace
      <4> QED BY <4>1, Zenon DEF AtStatement
    <3> HIDE DEF l
    <3>2. TracksHaveCd'
      <4> SUFFICES ASSUME ~addFailed', NEW t \in track'
                   PROVE  /\ \E c \in cd' : c.id = t.cd_id
                          /\ \A n \in 1 .. t.track_id :
                               [cd_id |-> t.cd_id, track_id |-> n] \in track'
        BY DEF TracksHaveCd
      <4>1. /\ t \in track /\ t.cd_id # l.cd_id /\ \E c \in cd : c.id = t.cd_id
            /\ \A n \in 1 .. t.track_id : [cd_id |-> t.cd_id, track_id |-> n] \in track
        BY <1>2, <2>1, <2>3 DEF TracksHaveCd
      <4>2. \A n : [cd_id |-> t.cd_id, track_id |-> n].cd_id = t.cd_id
        OBVIOUS
      <4> QED BY <2>1, <2>3, <4>1, <4>2
    <3>3. \A t \in track' : t.cd_id # l.cd_id
      BY <2>3
    <3>4. AtStatement(artist', cd', track', addFailed', "delete cd", l)
      BY <2>1, <3>1, <3>3 DEF AtStatement
    <3> QED BY <2>2, <2>3, <3>2, <3>4, Placed
  <2>4. CASE track' = track /\ TestEnds(u)
    <3>1. TracksHaveCd'
      BY <1>2, <2>1, <2>4 DEF TracksHaveCd
    <3> QED BY <1>3, <2>2, <2>4, <3>1
  <2> QED BY <1>4, <2>3, <2>4 DEF DeleteTracks
<1>5. CASE DeleteCd(u)
  <2>1. UNCHANGED <<artist, track, addFailed>>
    BY <1>5 DEF DeleteCd, NoTree
  <2>2. CASE cd' = {c \in cd : c.id # l.cd_id} /\ Goes(u, "delete artist", l)
    <3>1. /\ l.artist_id = NoCd \/ \A c \in cd : c.artist_id = l.artist_id => c.id = l.cd_id
          /\ \A t \in track : t.cd_id # l.cd_id
      <4>1. AtStatement(artist, cd, track, addFailed, "delete cd", l)
        BY <1>5, Zenon DEF DeleteCd, Sends, TablesInPlace
      <4> QED BY <4>1, Zenon DEF AtStatement
    <3> HIDE DEF l
    <3>2. ArtistsAreKept'
      BY <1>2, <2>1, <2>2 DEF ArtistsAreKept
    <3>3. TracksHaveCd'
      BY <1>2, <2>1, <2>2, <3>1 DEF TracksHaveCd
    <3>4. \A c \in cd' : c.artist_id = l.artist_id => c.artist_id <= 0
      <4>1. NoCd <= 0
        BY DEF NoCd
      <4> QED BY <2>2, <3>1, <4>1, Zenon
    <3>5. AtStatement(artist', cd', track', addFailed', "delete artist", l)
      BY <3>4, Zenon DEF AtStatement
    <3> QED BY <2>2, <3>2, <3>3, <3>5, Placed
  <2>3. CASE cd' = cd /\ TestEnds(u)
    <3>1. ArtistsAreKept' /\ TracksHaveCd'
      BY <1>2, <2>1, <2>3 DEF ArtistsAreKept, TracksHaveCd
    <3> QED BY <1>3, <2>3, <3>1
  <2> QED BY <1>5, <2>2, <2>3 DEF DeleteCd
<1>6. CASE DeleteArtist(u)
  <2>1. UNCHANGED <<cd, track, addFailed>> /\ TestEnds(u)
    BY <1>6 DEF DeleteArtist, NoTree
  <2>2. artist' = {a \in artist : a.id # l.artist_id} \/ artist' = artist
    BY <1>6 DEF DeleteArtist
  <2>3. \A c \in cd : c.artist_id = l.artist_id => c.artist_id <= 0
    <3>1. AtStatement(artist, cd, track, addFailed, "delete artist", l)
      BY <1>6, Zenon DEF DeleteArtist, Sends, TablesInPlace
    <3> QED BY <3>1, Zenon DEF AtStatement
  <2> HIDE DEF l
  <2>4. ArtistsAreKept'
    BY <1>1, <1>2, <2>1, <2>2, <2>3 DEF ArtistsAreKept
  <2>5. TracksHaveCd'
    BY <1>2, <2>1 DEF TracksHaveCd
  <2> QED BY <1>3, <2>1, <2>4, <2>5
<1> QED BY <1>4, <1>5, <1>6

\* The only user keeps the tables in place.
LEMMA TablesStep ==
  ASSUME NEW u, SqlUsers = {u}, SqlTypeOK, TablesInPlace(u), [SqlNext]_sqlVars
  PROVE  TablesInPlace(u)'
<1>1. CASE UNCHANGED sqlVars
  <2>1. UNCHANGED <<artist, cd, track, addFailed, sqlPc, local>>
    BY <1>1 DEF sqlVars, tables
  <2> QED BY <2>1 DEF TablesInPlace, ArtistsAreKept, TracksHaveCd
<1>2. CASE SqlNext
  <2>1. \/ StartAppTest(u) \/ LogOn(u) \/ on_addcd_activate(u) \/ addcd_dialog_button_clicked(u)
        \/ quit_app(u) \/ add_cd(u) \/ InsertTrack(u) \/ find_cds(u) \/ get_cd(u)
        \/ get_cd_tracks(u) \/ SearchEnds(u) \/ delete_cd(u)
    BY <1>2 DEF SqlNext
  <2>2. u \in SqlUsers
    OBVIOUS
  <2>3. ASSUME QuietStatement(u) PROVE TablesInPlace(u)'
    BY <2>2, <2>3, QuietStatementKeeps
  <2>4. CASE \/ StartAppTest(u) \/ LogOn(u) \/ on_addcd_activate(u)
             \/ addcd_dialog_button_clicked(u) \/ quit_app(u)
             \/ find_cds(u) \/ get_cd(u) \/ get_cd_tracks(u) \/ SearchEnds(u)
    BY <2>2, <2>3, <2>4, QuietStatements
  <2>5. CASE add_cd(u)
    BY <2>2, <2>5, ArtistSteps, CdSteps DEF add_cd
  <2>6. CASE InsertTrack(u)
    BY <2>2, <2>6, TrackStep
  <2>7. CASE delete_cd(u)
    BY <2>2, <2>7, ArtistCountedStep, DeleteSteps DEF delete_cd
  <2> QED BY <2>1, <2>4, <2>5, <2>6, <2>7
<1> QED BY <1>1, <1>2

\* The tables are empty at the start.
LEMMA TablesStart ==
  ASSUME NEW u \in SqlUsers, SqlInit
  PROVE  TablesInPlace(u)
<1>1. ArtistsAreKept /\ TracksHaveCd
  BY DEF SqlInit, ArtistsAreKept, TracksHaveCd
<1>2. sqlPc[u] \in Plain
  BY DEF SqlInit, Plain
<1> QED BY <1>1, <1>2, PlainStatement DEF TablesInPlace

\* With one user the tables of the MySQL application refer to one another, whichever
\* statements fail: CDs keep their artist, tracks are those of a CD on file and have
\* no gap, unless app_test went on after add_cd returned 0; and the tree shows one
\* result (app_mysql.c, callbacks.c 95-131).  Two users may leave a CD without its
\* artist, because no transaction joins the statements of delete_cd.
THEOREM TablesReferToOneAnother ==
  ASSUME NEW u, SqlUsers = {u}
  PROVE  SqlSpec => []SqlInv
<1> DEFINE SqlIInv == SqlTypeOK /\ TreeInPlace /\ TablesInPlace(u)
<1>1. SqlInit => SqlIInv
  BY SqlStart, TablesStart
<1>2. SqlIInv /\ [SqlNext]_sqlVars => SqlIInv'
  BY TreeStep, TablesStep
<1>3. SqlIInv => SqlInv
  BY TreePromises DEF TablesInPlace, SqlInv
<1> QED BY <1>1, <1>2, <1>3, PTL DEF SqlSpec

-----------------------------------------------------------------------------
(* Any number of users, of whom one at a time runs app_test.               *)

\* The statements that only app_test sends.
TestStatements ==
  {"insert track", "find", "count users", "delete tracks", "delete cd", "delete artist"}

\* At most one program is app_test.
OneTest ==
  \A u, v \in SqlUsers : local[u].main = "app_test" /\ local[v].main = "app_test" => u = v

\* What app_test relies on before a statement.
AtTest(discs, tunes, failed, s, l) ==
  /\ s \in TestStatements => l.main = "app_test"
  /\ l.main = "app_test" =>
       /\ s = "select cd_id" => \E c \in discs : c.id = l.lastId
       /\ s = "insert track" /\ ~failed =>
            /\ \E c \in discs : c.id = l.cd_id
            /\ \A n \in 1 .. l.i : [cd_id |-> l.cd_id, track_id |-> n] \in tunes
       /\ s = "delete cd" => \A t \in tunes : t.cd_id # l.cd_id

TestAt(v) == AtTest(cd, track, addFailed, sqlPc[v], local[v])

TestsInPlace == TracksHaveCd /\ \A v \in SqlUsers : TestAt(v)

\* The statements before which app_test relies on something.
Careful == {"select cd_id", "insert track", "delete cd"}

\* Before the others it does not.
LEMMA CarelessTest ==
  ASSUME NEW s, s \notin Careful, NEW l, s \in TestStatements => l.main = "app_test",
         NEW discs, NEW tunes, NEW failed
  PROVE  AtTest(discs, tunes, failed, s, l)
BY DEF AtTest, Careful

\* The programs are where they are or where one of them goes to.
LEMMA TestPlaced ==
  ASSUME SqlTypeOK, NEW u \in SqlUsers, NEW s, NEW l, Goes(u, s, l), TracksHaveCd',
         AtTest(cd', track', addFailed', s, l),
         \A v \in SqlUsers \ {u} : AtTest(cd', track', addFailed', sqlPc[v], local[v])
  PROVE  TestsInPlace'
<1>1. sqlPc'[u] = s /\ local'[u] = l
  BY DEF SqlTypeOK, Goes
<1>2. \A v \in SqlUsers \ {u} : sqlPc'[v] = sqlPc[v] /\ local'[v] = local[v]
  BY DEF SqlTypeOK, Goes
<1>3. ASSUME NEW v \in SqlUsers PROVE TestAt(v)'
  <2>1. CASE v = u
    BY <1>1, <2>1 DEF TestAt
  <2>2. CASE v # u
    BY <1>2, <2>2 DEF TestAt
  <2> QED BY <2>1, <2>2
<1> QED BY <1>3 DEF TestsInPlace

\* A step that adds CDs at most, of anybody.
OnlyAddsCds == cd \subseteq cd' /\ track' = track /\ (addFailed => addFailed')

\* It disturbs nobody.
LEMMA AddingKeeps ==
  ASSUME OnlyAddsCds, TestsInPlace
  PROVE  /\ TracksHaveCd'
         /\ \A v \in SqlUsers : AtTest(cd', track', addFailed', sqlPc[v], local[v])
<1>1. cd \subseteq cd' /\ track' = track /\ (addFailed => addFailed')
  BY DEF OnlyAddsCds
<1>2. TracksHaveCd'
  BY <1>1 DEF TestsInPlace, TracksHaveCd
<1>3. ASSUME NEW v \in SqlUsers PROVE AtTest(cd', track', addFailed', sqlPc[v], local[v])
  <2>1. AtTest(cd, track, addFailed, sqlPc[v], local[v])
    BY DEF TestsInPlace, TestAt
  <2> QED BY <1>1, <2>1 DEF AtTest
<1> QED BY <1>2, <1>3

\* A step that is of app_test, if there is one: the others are not disturbed whatever it does.
LEMMA OthersAreNoTest ==
  ASSUME TestsInPlace, OneTest, NEW u \in SqlUsers, local[u].main = "app_test"
  PROVE  \A v \in SqlUsers \ {u} : AtTest(cd', track', addFailed', sqlPc[v], local[v])
<1> SUFFICES ASSUME NEW v \in SqlUsers \ {u}
             PROVE  AtTest(cd', track', addFailed', sqlPc[v], local[v])
  OBVIOUS
<1>1. local[v].main # "app_test"
  BY DEF OneTest
<1>2. sqlPc[v] \in TestStatements => local[v].main = "app_test"
  BY DEF TestsInPlace, TestAt, AtTest
<1> QED BY <1>1, <1>2 DEF AtTest

\* A program is the same after an assignment to its variables.
LEMMA SameMain ==
  ASSUME NEW l, IsLocal(l), NEW x, NEW y, NEW z
  PROVE  /\ [l EXCEPT !.i = x].main = l.main /\ [l EXCEPT !.artist_id = x].main = l.main
         /\ [l EXCEPT !.cd_id = x].main = l.main
         /\ [l EXCEPT !.lastId = x, !.artist_id = y].main = l.main
<1>1. PICK id0, result0 : l \in LocalWith(id0, result0)
  BY DEF IsLocal
<1> QED BY <1>1 DEF LocalWith

\* A statement that adds no CD and no track, and leads where nothing is relied on.
CarelessStep(u) ==
  /\ UNCHANGED <<cd, track, addFailed>>
  /\ \E s : \E l : /\ Goes(u, s, l) /\ s \notin Careful
                   /\ s \in TestStatements => l.main = "app_test"

\* Such a step disturbs nobody.
LEMMA CarelessKeeps ==
  ASSUME SqlTypeOK, NEW u \in SqlUsers, TestsInPlace, CarelessStep(u)
  PROVE  TestsInPlace'
<1>1. PICK s : \E l : Goes(u, s, l) /\ s \notin Careful
                      /\ (s \in TestStatements => l.main = "app_test")
  BY DEF CarelessStep
<1>2. PICK l : Goes(u, s, l) /\ s \notin Careful /\ (s \in TestStatements => l.main = "app_test")
  BY <1>1
<1>3. OnlyAddsCds
  BY DEF CarelessStep, OnlyAddsCds
<1>4. AtTest(cd', track', addFailed', s, l)
  BY <1>2, CarelessTest
<1> QED BY <1>2, <1>3, <1>4, AddingKeeps, TestPlaced

\* The dialogs, the searches, and the statements about the artist are such steps.
LEMMA CarelessSteps ==
  ASSUME SqlTypeOK, TestsInPlace, NEW u \in SqlUsers,
         \/ StartAppTest(u) \/ LogOn(u) \/ on_addcd_activate(u)
         \/ addcd_dialog_button_clicked(u) \/ quit_app(u) \/ find_cds(u) \/ get_cd(u)
         \/ get_cd_tracks(u) \/ SearchEnds(u) \/ SelectArtist(u) \/ InsertArtist(u)
         \/ SelectArtistId(u) \/ CountUsersOfArtist(u)
  PROVE  CarelessStep(u)
<1> DEFINE l == local[u]
<1>1. IsLocal(l)
  BY DEF SqlTypeOK
<1>2. UNCHANGED <<cd, track, addFailed>>
  BY DEF StartAppTest, LogOn, on_addcd_activate, addcd_dialog_button_clicked, quit_app,
         find_cds, get_cd, get_cd_tracks, SearchEnds, SelectArtist, InsertArtist,
         SelectArtistId, CountUsersOfArtist, NoTable, tables, NoTree
<1>3. sqlPc[u] \in TestStatements => l.main = "app_test"
  BY DEF TestsInPlace, TestAt, AtTest
<1>4. CASE find_cds(u) /\ Sends(u, "find")
  <2>1. PICK id : Goes(u, "count users", [l EXCEPT !.cd_id = id])
    BY <1>4 DEF find_cds, Sends
  <2>2. l.main = "app_test"
    BY <1>3, <1>4 DEF Sends, TestStatements
  <2>3. [l EXCEPT !.cd_id = id].main = "app_test"
    BY <1>1, <2>2, SameMain
  <2>4. "count users" \notin Careful
    BY DEF Careful
  <2> QED BY <1>2, <2>1, <2>3, <2>4 DEF CarelessStep
<1>5. CASE CountUsersOfArtist(u)
  <2>1. PICK id \in Int : Goes(u, "delete tracks", [l EXCEPT !.artist_id = id])
    BY <1>5, ArtistCounted, Zenon
  <2>2. l.main = "app_test"
    BY <1>3, <1>5 DEF CountUsersOfArtist, Sends, TestStatements
  <2>3. [l EXCEPT !.artist_id = id].main = "app_test"
    BY <1>1, <2>2, SameMain
  <2>4. "delete tracks" \notin Careful
    BY DEF Careful
  <2> QED BY <1>2, <2>1, <2>3, <2>4 DEF CarelessStep
<1>6. CASE ~(find_cds(u) /\ Sends(u, "find")) /\ ~CountUsersOfArtist(u)
  <2> DEFINE Calm == {"select artist", "gtk_main", "none", "insert artist", "select artist_id",
                      "insert cd", "get cd", "get tracks"}
  <2>1. \E s \in Calm : \E m : Goes(u, s, m)
    <3>1. CASE StartAppTest(u) \/ LogOn(u) \/ quit_app(u)
      BY <3>1 DEF StartAppTest, LogOn, quit_app
    <3>2. CASE on_addcd_activate(u) \/ addcd_dialog_button_clicked(u)
      BY <3>2, Zenon DEF on_addcd_activate, addcd_dialog_button_clicked
    <3>3. CASE find_cds(u)
      BY <1>6, <3>3, Zenon DEF find_cds
    <3>4. CASE get_cd(u)
      BY <3>4, Zenon DEF get_cd
    <3>5. CASE get_cd_tracks(u)
      BY <3>5, Zenon DEF get_cd_tracks
    <3>6. CASE SearchEnds(u)
      BY <3>6, Zenon DEF SearchEnds
    <3>7. CASE SelectArtist(u)
      BY <3>7, Zenon DEF SelectArtist
    <3>8. CASE InsertArtist(u)
      BY <3>8, Zenon DEF InsertArtist
    <3>9. CASE SelectArtistId(u)
      BY <3>9, Zenon DEF SelectArtistId
    <3> QED BY <1>6, <3>1, <3>2, <3>3, <3>4, <3>5, <3>6, <3>7, <3>8, <3>9
  <2>2. \A s \in Calm : s \notin Careful /\ s \notin TestStatements
    BY DEF Careful, TestStatements
  <2> HIDE DEF Calm
  <2> QED BY <1>2, <2>1, <2>2 DEF CarelessStep
<1> QED BY <1>4, <1>5, <1>6

\* add_cd returns 0, or the id of a CD that is there.
LEMMA AddReturnsToTest ==
  ASSUME SqlTypeOK, NEW u \in SqlUsers, TestsInPlace, UNCHANGED tables,
         NEW succeeded \in BOOLEAN, NEW id, NEW written, AddReturns(u, succeeded, id, written),
         succeeded /\ local[u].main = "app_test" => written /\ \E c \in cd : c.id = id
  PROVE  TestsInPlace'
<1>1. UNCHANGED <<cd, track>> /\ addFailed' = (addFailed \/ ~succeeded)
  BY DEF tables, AddReturns
<1>2. OnlyAddsCds
  BY <1>1 DEF OnlyAddsCds
<1>3. ASSUME NEW s, NEW l, Goes(u, s, l), AtTest(cd', track', addFailed', s, l)
      PROVE  TestsInPlace'
  BY <1>2, <1>3, AddingKeeps, TestPlaced
<1>4. CASE Goes(u, "gtk_main", NewLocal("gui")) \/ Goes(u, "none", NewLocal("none"))
  <2>1. \A s \in {"gtk_main", "none"} : s \notin Careful /\ s \notin TestStatements
    BY DEF Careful, TestStatements
  <2>2. \A s \in {"gtk_main", "none"} : \A l : AtTest(cd', track', addFailed', s, l)
    BY <2>1, CarelessTest
  <2> QED BY <1>3, <1>4, <2>2
<1>5. CASE local[u].main = "app_test" /\ \E other \in IF written THEN {id} ELSE Ids \cup {0} :
             Goes(u, "insert track", [NewLocal("app_test") EXCEPT !.cd_id = other])
  <2>1. PICK other : /\ written => other = id
                     /\ Goes(u, "insert track", [NewLocal("app_test") EXCEPT !.cd_id = other])
    BY <1>5
  <2> DEFINE m == [NewLocal("app_test") EXCEPT !.cd_id = other]
  <2>2. m.cd_id = other /\ m.i = 0
    BY NewLocals
  <2>3. m.main = "app_test"
    BY DEF NewLocal
  <2> HIDE DEF m
  <2>4. 1 .. m.i = {}
    BY <2>2
  <2>5. ~addFailed' => \E c \in cd' : c.id = m.cd_id
    BY <1>1, <1>5, <2>1, <2>2
  <2>6. AtTest(cd', track', addFailed', "insert track", m)
    BY <2>3, <2>4, <2>5, Zenon DEF AtTest
  <2> QED BY <1>3, <2>1, <2>6 DEF m
<1> QED BY <1>4, <1>5 DEF AddReturns

\* Its CD stays there until its id is used, because nobody but app_test deletes.
LEMMA CdStepsOfMany ==
  ASSUME SqlTypeOK, NEW u \in SqlUsers, TestsInPlace, InsertCd(u) \/ SelectCdId(u)
  PROVE  TestsInPlace'
<1> DEFINE l == local[u]
<1>1. IsLocal(l) /\ autoId["cd"] \in Nat
  BY DEF SqlTypeOK
<1>2. ASSUME UNCHANGED tables, AddReturns(u, FALSE, NoCd, FALSE) \/ AddReturns(u, FALSE, NoCd, TRUE)
      PROVE  TestsInPlace'
  BY <1>2, AddReturnsToTest, Zenon
<1>3. CASE InsertCd(u)
  <2> DEFINE new == [id |-> autoId["cd"], artist_id |-> l.artist_id, symphony |-> l.symphony]
             m   == [l EXCEPT !.lastId = autoId["cd"], !.artist_id = NoCd]
  <2>1. CASE cd' = cd \cup {new} /\ UNCHANGED <<track, addFailed>> /\ Goes(u, "select cd_id", m)
    <3>1. new \in cd' /\ new.id = autoId["cd"]
      BY <2>1
    <3>2. m.lastId = autoId["cd"]
      BY <1>1, LastIdTaken
    <3> HIDE DEF new, m, l
    <3>3. \E c \in cd' : c.id = m.lastId
      BY <3>1, <3>2
    <3>4. AtTest(cd', track', addFailed', "select cd_id", m)
      BY <3>3 DEF AtTest, TestStatements
    <3>5. OnlyAddsCds
      BY <2>1 DEF OnlyAddsCds
    <3> QED BY <2>1, <3>4, <3>5, AddingKeeps, TestPlaced
  <2>2. CASE NoTable /\ AddReturns(u, FALSE, NoCd, FALSE)
    BY <1>2, <2>2 DEF NoTable
  <2> QED BY <1>3, <2>1, <2>2 DEF InsertCd, NoTree
<1>4. CASE SelectCdId(u)
  <2>1. l.main = "app_test" => \E c \in cd : c.id = l.lastId
    <3>1. AtTest(cd, track, addFailed, "select cd_id", l)
      <4>1. sqlPc[u] = "select cd_id"
        BY <1>4 DEF SelectCdId, Sends
      <4>2. AtTest(cd, track, addFailed, sqlPc[u], l)
        BY DEF TestsInPlace, TestAt
      <4> QED BY <4>1, <4>2
    <3> QED BY <3>1, Zenon DEF AtTest
  <2>2. UNCHANGED tables
    BY <1>4 DEF SelectCdId, NoTable
  <2>3. CASE AddReturns(u, TRUE, l.lastId, TRUE)
    BY <2>1, <2>2, <2>3, AddReturnsToTest, Zenon
  <2> QED BY <1>2, <1>4, <2>2, <2>3 DEF SelectCdId
<1> QED BY <1>3, <1>4

\* The tracks of one CD with their numbers, where one more is added.
LEMMA NumberedTracks ==
  ASSUME TracksHaveCd, cd' = cd, addFailed' = addFailed, NEW id, NEW i \in Nat,
         track' = track \cup {[cd_id |-> id, track_id |-> i + 1]},
         ~addFailed => /\ \E c \in cd : c.id = id
                       /\ \A n \in 1 .. i : [cd_id |-> id, track_id |-> n] \in track
  PROVE  /\ TracksHaveCd'
         /\ ~addFailed => \A n \in 1 .. i + 1 : [cd_id |-> id, track_id |-> n] \in track'
<1> DEFINE row == [cd_id |-> id, track_id |-> i + 1]
<1>1. row.cd_id = id /\ row.track_id = i + 1 /\ row \in track'
  OBVIOUS
<1>2. ASSUME ~addFailed, NEW n \in 1 .. i + 1
      PROVE  [cd_id |-> id, track_id |-> n] \in track'
  <2>1. CASE n \in 1 .. i
    BY <1>2, <2>1
  <2>2. CASE n = i + 1
    BY <2>2
  <2> QED BY <2>1, <2>2, NextNumber, Zenon
<1> HIDE DEF row
<1>3. ASSUME ~addFailed', NEW t \in track'
      PROVE  /\ \E c \in cd' : c.id = t.cd_id
             /\ \A n \in 1 .. t.track_id : [cd_id |-> t.cd_id, track_id |-> n] \in track'
  <2>1. CASE t \in track
    BY <1>3, <2>1 DEF TracksHaveCd
  <2>2. CASE t = row
    BY <1>1, <1>2, <1>3, <2>2
  <2> QED BY <2>1, <2>2 DEF row
<1> QED BY <1>2, <1>3 DEF TracksHaveCd

\* What app_test does with the tracks and deletes.
LEMMA TestWrites ==
  ASSUME SqlTypeOK, NEW u \in SqlUsers, TestsInPlace, OneTest,
         InsertTrack(u) \/ DeleteTracks(u) \/ DeleteCd(u) \/ DeleteArtist(u)
  PROVE  TestsInPlace'
<1> DEFINE l   == local[u]
           row == [cd_id |-> l.cd_id, track_id |-> l.i + 1]
<1>1. IsLocal(l) /\ l.i \in Nat
  BY LocalTypes DEF SqlTypeOK
<1>2. TracksHaveCd /\ AtTest(cd, track, addFailed, sqlPc[u], l)
  BY DEF TestsInPlace, TestAt
<1>3. sqlPc[u] \in TestStatements
  BY DEF InsertTrack, DeleteTracks, DeleteCd, DeleteArtist, Sends, TestStatements
<1>4. l.main = "app_test"
  BY <1>2, <1>3 DEF AtTest
<1>5. \A v \in SqlUsers \ {u} : AtTest(cd', track', addFailed', sqlPc[v], local[v])
  BY <1>4, OthersAreNoTest
<1>6. ASSUME NEW s, NEW m, Goes(u, s, m), AtTest(cd', track', addFailed', s, m), TracksHaveCd'
      PROVE  TestsInPlace'
  BY <1>5, <1>6, TestPlaced
<1>7. CASE InsertTrack(u)
  <2>1. cd' = cd /\ addFailed' = addFailed
    BY <1>7 DEF InsertTrack, NoTree
  <2>2. ~addFailed => /\ \E c \in cd : c.id = l.cd_id
                      /\ \A n \in 1 .. l.i : [cd_id |-> l.cd_id, track_id |-> n] \in track
    <3>1. AtTest(cd, track, addFailed, "insert track", l)
      <4>1. sqlPc[u] = "insert track"
        BY <1>7 DEF InsertTrack, Sends
      <4> QED BY <1>2, <4>1
    <3> QED BY <1>4, <3>1, Zenon DEF AtTest
  <2>3. CASE track' = track \cup {row} /\ Goes(u, "insert track", [l EXCEPT !.i = l.i + 1])
    <3> DEFINE m == [l EXCEPT !.i = l.i + 1]
    <3>1. m.i = l.i + 1 /\ m.cd_id = l.cd_id /\ m.main = "app_test"
      <4>1. l.i + 1 \in Nat
        BY <1>1
      <4> QED BY <1>1, <1>4, <4>1, IndexSet, SameMain
    <3> HIDE DEF m, l
    <3>2. /\ TracksHaveCd'
          /\ ~addFailed => \A n \in 1 .. l.i + 1 : [cd_id |-> l.cd_id, track_id |-> n] \in track'
      BY <1>1, <1>2, <2>1, <2>2, <2>3, NumberedTracks
    <3>3. AtTest(cd', track', addFailed', "insert track", m)
      <4>1. ~addFailed' => /\ \E c \in cd' : c.id = m.cd_id
                           /\ \A n \in 1 .. m.i : [cd_id |-> m.cd_id, track_id |-> n] \in track'
        BY <2>1, <2>2, <3>1, <3>2
      <4> QED BY <3>1, <4>1, Zenon DEF AtTest
    <3> QED BY <1>6, <2>3, <3>2, <3>3 DEF m
  <2>4. CASE track' = track /\ Goes(u, "find", [l EXCEPT !.i = 0])
    <3> DEFINE m == [l EXCEPT !.i = 0]
    <3>1. m.main = "app_test"
      BY <1>1, <1>4, SameMain
    <3> HIDE DEF m
    <3>2. TracksHaveCd'
      BY <1>2, <2>1, <2>4 DEF TracksHaveCd
    <3>3. "find" \notin Careful
      BY DEF Careful
    <3>4. AtTest(cd', track', addFailed', "find", m)
      BY <3>1, <3>3, CarelessTest
    <3> QED BY <1>6, <2>4, <3>2, <3>4 DEF m
  <2> QED BY <1>7, <2>3, <2>4 DEF InsertTrack
<1>8. ASSUME TestEnds(u), TracksHaveCd'
      PROVE  TestsInPlace'
  <2>1. Goes(u, "none", NewLocal("none"))
    BY <1>8 DEF TestEnds
  <2>2. "none" \notin Careful /\ "none" \notin TestStatements
    BY DEF Careful, TestStatements
  <2>3. AtTest(cd', track', addFailed', "none", NewLocal("none"))
    BY <2>2, CarelessTest
  <2> QED BY <1>6, <1>8, <2>1, <2>3
<1>9. CASE DeleteTracks(u)
  <2>1. cd' = cd /\ addFailed' = addFailed
    BY <1>9 DEF DeleteTracks, NoTree
  <2>2. CASE track' = {t \in track : t.cd_id # l.cd_id} /\ Goes(u, "delete cd", l)
    <3> HIDE DEF l
    <3>1. TracksHaveCd'
      <4> SUFFICES ASSUME ~addFailed', NEW t \in track'
                   PROVE  /\ \E c \in cd' : c.id = t.cd_id
                          /\ \A n \in 1 .. t.track_id :
                               [cd_id |-> t.cd_id, track_id |-> n] \in track'
        BY DEF TracksHaveCd
      <4>1. /\ t \in track /\ t.cd_id # l.cd_id /\ \E c \in cd : c.id = t.cd_id
            /\ \A n \in 1 .. t.track_id : [cd_id |-> t.cd_id, track_id |-> n] \in track
        BY <1>2, <2>1, <2>2 DEF TracksHaveCd
      <4>2. \A n : [cd_id |-> t.cd_id, track_id |-> n].cd_id = t.cd_id
        OBVIOUS
      <4> QED BY <2>1, <2>2, <4>1, <4>2
    <3>2. \A t \in track' : t.cd_id # l.cd_id
      BY <2>2
    <3>3. AtTest(cd', track', addFailed', "delete cd", l)
      BY <1>4, <3>2, Zenon DEF AtTest
    <3> QED BY <1>6, <2>2, <3>1, <3>3
  <2>3. CASE track' = track /\ TestEnds(u)
    <3>1. TracksHaveCd'
      BY <1>2, <2>1, <2>3 DEF TracksHaveCd
    <3> QED BY <1>8, <2>3, <3>1
  <2> QED BY <1>9, <2>2, <2>3 DEF DeleteTracks
<1>10. CASE DeleteCd(u)
  <2>1. track' = track /\ addFailed' = addFailed
    BY <1>10 DEF DeleteCd, NoTree
  <2>2. CASE cd' = {c \in cd : c.id # l.cd_id} /\ Goes(u, "delete artist", l)
    <3>1. \A t \in track : t.cd_id # l.cd_id
      <4>1. AtTest(cd, track, addFailed, "delete cd", l)
        <5>1. sqlPc[u] = "delete cd"
          BY <1>10 DEF DeleteCd, Sends
        <5> QED BY <1>2, <5>1
      <4> QED BY <1>4, <4>1, Zenon DEF AtTest
    <3> HIDE DEF l
    <3>2. TracksHaveCd'
      BY <1>2, <2>1, <2>2, <3>1 DEF TracksHaveCd
    <3>3. "delete artist" \notin Careful
      BY DEF Careful
    <3>4. AtTest(cd', track', addFailed', "delete artist", l)
      BY <1>4, <3>3, CarelessTest
    <3> QED BY <1>6, <2>2, <3>2, <3>4
  <2>3. CASE cd' = cd /\ TestEnds(u)
    <3>1. TracksHaveCd'
      BY <1>2, <2>1, <2>3 DEF TracksHaveCd
    <3> QED BY <1>8, <2>3, <3>1
  <2> QED BY <1>10, <2>2, <2>3 DEF DeleteCd
<1>11. CASE DeleteArtist(u)
  <2>1. UNCHANGED <<cd, track, addFailed>> /\ TestEnds(u)
    BY <1>11 DEF DeleteArtist, NoTree
  <2>2. TracksHaveCd'
    BY <1>2, <2>1 DEF TracksHaveCd
  <2> QED BY <1>8, <2>1, <2>2
<1> QED BY <1>7, <1>9, <1>10, <1>11

\* Every step keeps what app_test relies on, while it runs once.
LEMMA TestsStep == SqlTypeOK /\ TestsInPlace /\ OneTest /\ [SqlNext]_sqlVars => TestsInPlace'
<1> SUFFICES ASSUME SqlTypeOK, TestsInPlace, OneTest, [SqlNext]_sqlVars PROVE TestsInPlace'
  OBVIOUS
<1>1. CASE UNCHANGED sqlVars
  <2>1. UNCHANGED <<cd, track, addFailed, sqlPc, local>>
    BY <1>1 DEF sqlVars, tables
  <2> QED BY <2>1 DEF TestsInPlace, TestAt, TracksHaveCd
<1>2. CASE SqlNext
  <2>1. PICK u \in SqlUsers :
          \/ StartAppTest(u) \/ LogOn(u) \/ on_addcd_activate(u)
          \/ addcd_dialog_button_clicked(u) \/ quit_app(u) \/ add_cd(u) \/ InsertTrack(u)
          \/ find_cds(u) \/ get_cd(u) \/ get_cd_tracks(u) \/ SearchEnds(u) \/ delete_cd(u)
    BY <1>2 DEF SqlNext
  <2>2. CASE InsertCd(u) \/ SelectCdId(u)
    BY <2>2, CdStepsOfMany
  <2>3. CASE InsertTrack(u) \/ DeleteTracks(u) \/ DeleteCd(u) \/ DeleteArtist(u)
    BY <2>3, TestWrites
  <2>4. CASE \/ StartAppTest(u) \/ LogOn(u) \/ on_addcd_activate(u)
             \/ addcd_dialog_button_clicked(u) \/ quit_app(u) \/ find_cds(u) \/ get_cd(u)
             \/ get_cd_tracks(u) \/ SearchEnds(u) \/ SelectArtist(u) \/ InsertArtist(u)
             \/ SelectArtistId(u) \/ CountUsersOfArtist(u)
    BY <2>4, CarelessSteps, CarelessKeeps
  <2> QED BY <2>1, <2>2, <2>3, <2>4 DEF add_cd, delete_cd
<1> QED BY <1>1, <1>2

\* No track at the start, and no program.
LEMMA TestsStart == SqlInit => TestsInPlace
<1> SUFFICES ASSUME SqlInit PROVE TestsInPlace
  OBVIOUS
<1>1. TracksHaveCd
  BY DEF SqlInit, TracksHaveCd
<1>2. "none" \notin Careful /\ "none" \notin TestStatements
  BY DEF Careful, TestStatements
<1>3. ASSUME NEW v \in SqlUsers PROVE TestAt(v)
  <2>1. sqlPc[v] = "none"
    BY DEF SqlInit
  <2> QED BY <1>2, <2>1, CarelessTest DEF TestAt
<1> QED BY <1>1, <1>3 DEF TestsInPlace

\* Any number of users may add and search while one app_test at a time adds, finds and
\* deletes: the tracks remain those of CDs on file, numbered without a gap, unless
\* app_test went on after add_cd returned 0 (app_mysql.c 126-147, 283-294).  With two
\* app_test one may delete the CD the other is adding tracks to.
THEOREM TracksKeptWithOneTest == SqlSpec /\ []OneTest => []TracksHaveCd
<1>1. SqlInit => SqlTypeOK /\ TreeInPlace /\ TestsInPlace
  BY SqlStart, TestsStart
<1>2. SqlTypeOK /\ TreeInPlace /\ TestsInPlace /\ OneTest /\ [SqlNext]_sqlVars
        => SqlTypeOK' /\ TreeInPlace' /\ TestsInPlace'
  BY TreeStep, TestsStep
<1>3. TestsInPlace => TracksHaveCd
  BY DEF TestsInPlace
<1> QED BY <1>1, <1>2, <1>3, PTL DEF SqlSpec

-----------------------------------------------------------------------------
(* The CD application with curses (ch06).                                  *)

\* A set of natural numbers that is not empty has a least one.
LEMMA LeastNat ==
  ASSUME NEW T, T \subseteq Nat, T # {}
  PROVE  \E x \in T : \A y \in T : x <= y
<1>1. PICK x \in T : \A y \in T : <<y, x>> \notin OpToRel(<, Nat)
  BY WFMin, NatLessThanWellFounded
<1>2. \A y \in T : ~(y < x)
  BY <1>1 DEF OpToRel
<1> QED BY <1>2

\* The loop over a file: what it has kept before each line.
LEMMA AmongSteps ==
  ASSUME NEW T, NEW s \in Seq(T), NEW S
  PROVE  \E f : /\ f[0] = <<>> /\ Among(s, S) = f[Len(s)]
                /\ \A i \in 1 .. Len(s) :
                     f[i] = IF s[i] \in S THEN Append(f[i - 1], s[i]) ELSE f[i - 1]
<1> DEFINE Value(g, i) == IF i = 0 THEN <<>>
                          ELSE IF s[i] \in S THEN Append(g[i - 1], s[i]) ELSE g[i - 1]
           Is(g, n) == g = [i \in 0 .. n |-> Value(g, i)]
           bad == {n \in Nat : n <= Len(s) /\ ~\E g : Is(g, n)}
<1>1. bad = {}
  <2> SUFFICES ASSUME bad # {} PROVE FALSE
    OBVIOUS
  <2>1. PICK n \in bad : \A m \in bad : n <= m
    <3>1. bad \subseteq Nat
      OBVIOUS
    <3> HIDE DEF bad
    <3> QED BY <3>1, LeastNat
  <2>2. n \in Nat /\ n <= Len(s) /\ ~\E g : Is(g, n)
    <3>1. \A m : m \in bad => m \in Nat /\ m <= Len(s) /\ ~\E g : Is(g, m)
      <4> HIDE DEF Is
      <4> QED BY Zenon
    <3> HIDE DEF Is, bad
    <3> QED BY <2>1, <3>1
  <2>3. CASE n = 0
    <3> DEFINE g == [i \in 0 .. 0 |-> <<>>]
    <3>1. Is(g, 0)
      OBVIOUS
    <3> QED BY <2>2, <2>3, <3>1
  <2>4. CASE n # 0
    <3>1. n - 1 \in Nat /\ n - 1 <= Len(s) /\ n - 1 \notin bad
      <4>1. n - 1 \in Nat /\ n - 1 <= Len(s) /\ ~(n <= n - 1)
        <5> HIDE DEF Is, bad
        <5> QED BY <2>2, <2>4
      <4> HIDE DEF bad
      <4> QED BY <2>1, <4>1
    <3>2. PICK g : Is(g, n - 1)
      <4> HIDE DEF Is
      <4> QED BY <3>1
    <3> DEFINE h == [i \in 0 .. n |-> IF i < n THEN g[i] ELSE Value(g, n)]
    <3>3. ASSUME NEW i \in 0 .. n PROVE h[i] = Value(h, i)
      <4>1. \A j \in 0 .. n : j < n => h[j] = g[j]
        BY <2>2
      <4>2. \A j \in 0 .. n - 1 : g[j] = Value(g, j)
        BY <3>2
      <4>3. CASE i = 0
        <5>1. h[i] = g[i]
          BY <2>2, <2>4, <4>1, <4>3
        <5>2. g[i] = Value(g, i)
          BY <2>2, <2>4, <4>2, <4>3
        <5> HIDE DEF h
        <5> QED BY <4>3, <5>1, <5>2
      <4>4. CASE i # 0
        <5>1. h[i] = Value(g, i)
          <6>1. CASE i = n
            BY <2>2, <6>1
          <6>2. CASE i # n
            <7>1. i \in 0 .. n - 1 /\ i < n
              BY <2>2, <6>2
            <7>2. h[i] = g[i] /\ g[i] = Value(g, i)
              BY <4>1, <4>2, <7>1
            <7> HIDE DEF h, Value
            <7> QED BY <7>2
          <6> QED BY <6>1, <6>2
        <5>2. h[i - 1] = g[i - 1]
          BY <2>2, <4>1, <4>4
        <5> HIDE DEF h
        <5> QED BY <4>4, <5>1, <5>2
      <4> QED BY <4>3, <4>4
    <3>4. h = [i \in 0 .. n |-> h[i]]
      OBVIOUS
    <3>5. Is(h, n)
      <4> HIDE DEF h, Value
      <4> QED BY <3>3, <3>4
    <3> QED BY <2>2, <3>5
  <2> QED BY <2>3, <2>4
<1> DEFINE upTo == CHOOSE g : Is(g, Len(s))
<1>2. Len(s) \in Nat
  OBVIOUS
<1>3. \E g : Is(g, Len(s))
  <2>1. Len(s) \notin bad
    BY <1>1
  <2> QED BY <1>2, <2>1
<1>4. Is(upTo, Len(s))
  <2> HIDE DEF Is
  <2> QED BY <1>3
<1>5. Among(s, S) = upTo[Len(s)]
  BY DEF Among
<1>6. \A i \in 0 .. Len(s) : upTo[i] = Value(upTo, i)
  <2> HIDE DEF upTo, Value
  <2> QED BY <1>4
<1> HIDE DEF upTo
<1>7. upTo[0] = <<>>
  BY <1>2, <1>6
<1>8. ASSUME NEW i \in 1 .. Len(s)
      PROVE  upTo[i] = IF s[i] \in S THEN Append(upTo[i - 1], s[i]) ELSE upTo[i - 1]
  <2>1. i \in 0 .. Len(s) /\ i # 0
    BY <1>2
  <2> QED BY <1>6, <2>1
<1> HIDE DEF Is, Value, bad
<1> QED BY <1>5, <1>7, <1>8

ElementsOf(s) == {s[i] : i \in DOMAIN s}

\* A sequence with one more element.
LEMMA ElementsOfAppend ==
  ASSUME NEW T, NEW s \in Seq(T), NEW x \in T
  PROVE  ElementsOf(Append(s, x)) = ElementsOf(s) \cup {x}
<1>1. DOMAIN s = 1 .. Len(s) /\ DOMAIN Append(s, x) = 1 .. Len(s) + 1 /\ Len(s) \in Nat
  OBVIOUS
<1>2. \A i \in 1 .. Len(s) : Append(s, x)[i] = s[i]
  OBVIOUS
<1>3. Append(s, x)[Len(s) + 1] = x
  OBVIOUS
<1>4. ASSUME NEW y \in ElementsOf(Append(s, x)) PROVE y \in ElementsOf(s) \cup {x}
  BY <1>1, <1>2, <1>3 DEF ElementsOf
<1>5. ASSUME NEW y \in ElementsOf(s) PROVE y \in ElementsOf(Append(s, x))
  <2>1. PICK i \in 1 .. Len(s) : y = s[i]
    BY <1>1 DEF ElementsOf
  <2>2. i \in 1 .. Len(s) + 1
    BY <1>1
  <2> QED BY <1>1, <1>2, <2>1, <2>2 DEF ElementsOf
<1>6. x \in ElementsOf(Append(s, x))
  BY <1>1, <1>3 DEF ElementsOf
<1> QED BY <1>4, <1>5, <1>6

\* The loop keeps the lines of the file that are in S, and no others.
LEMMA AmongLines ==
  ASSUME NEW T, NEW s \in Seq(T), NEW S
  PROVE  Among(s, S) \in Seq(T) /\ ElementsOf(Among(s, S)) = ElementsOf(s) \cap S
<1>1. PICK f : /\ f[0] = <<>> /\ Among(s, S) = f[Len(s)]
               /\ \A i \in 1 .. Len(s) :
                    f[i] = IF s[i] \in S THEN Append(f[i - 1], s[i]) ELSE f[i - 1]
  BY AmongSteps
<1> DEFINE Read(i) == {s[j] : j \in 1 .. i}
           Good(i) == f[i] \in Seq(T) /\ ElementsOf(f[i]) = Read(i) \cap S
           bad == {i \in 0 .. Len(s) : ~Good(i)}
<1>2. bad = {}
  <2> SUFFICES ASSUME bad # {} PROVE FALSE
    OBVIOUS
  <2>1. PICK n \in bad : \A m \in bad : n <= m
    <3>1. bad \subseteq Nat
      OBVIOUS
    <3> HIDE DEF bad
    <3> QED BY <3>1, LeastNat
  <2>2. n \in 0 .. Len(s) /\ ~Good(n) /\ Len(s) \in Nat
    BY <2>1
  <2>3. CASE n = 0
    <3>1. f[n] = <<>>
      BY <1>1, <2>3
    <3>2. f[n] \in Seq(T) /\ ElementsOf(f[n]) = {}
      BY <3>1 DEF ElementsOf
    <3>3. Read(n) = {}
      BY <2>3
    <3> QED BY <2>2, <3>2, <3>3
  <2>4. CASE n # 0
    <3>1. n - 1 \in 0 .. Len(s) /\ n - 1 < n /\ n \in 1 .. Len(s)
      BY <2>2, <2>4
    <3>2. Good(n - 1)
      <4>1. n - 1 \notin bad
        <5> HIDE DEF bad
        <5> QED BY <2>1, <2>2, <3>1
      <4> HIDE DEF Good
      <4> QED BY <3>1, <4>1
    <3>3. s[n] \in T
      BY <3>1
    <3>4. Read(n) = Read(n - 1) \cup {s[n]}
      <4>1. 1 .. n = (1 .. n - 1) \cup {n}
        BY <3>1, <2>2
      <4> QED BY <4>1
    <3>5. f[n] = IF s[n] \in S THEN Append(f[n - 1], s[n]) ELSE f[n - 1]
      BY <1>1, <3>1
    <3>6. CASE s[n] \in S
      <4>1. f[n] = Append(f[n - 1], s[n])
        BY <3>5, <3>6
      <4>2. f[n] \in Seq(T) /\ ElementsOf(f[n]) = ElementsOf(f[n - 1]) \cup {s[n]}
        <5>1. f[n - 1] \in Seq(T)
          BY <3>2
        <5>2. Append(f[n - 1], s[n]) \in Seq(T)
          BY <3>3, <5>1
        <5> QED BY <3>3, <4>1, <5>1, <5>2, ElementsOfAppend
      <4>3. ElementsOf(f[n - 1]) = Read(n - 1) \cap S
        BY <3>2
      <4>4. ElementsOf(f[n]) = Read(n) \cap S
        <5> HIDE DEF Read
        <5> QED BY <3>4, <3>6, <4>2, <4>3
      <4> QED BY <2>2, <4>2, <4>4
    <3>7. CASE s[n] \notin S
      <4>1. f[n] = f[n - 1]
        BY <3>5, <3>7
      <4>2. Read(n) \cap S = Read(n - 1) \cap S
        <5> HIDE DEF Read
        <5> QED BY <3>4, <3>7
      <4> QED BY <2>2, <3>2, <4>1, <4>2
    <3> QED BY <3>6, <3>7
  <2> QED BY <2>3, <2>4
<1>3. Good(Len(s))
  <2>1. Len(s) \in 0 .. Len(s)
    OBVIOUS
  <2> QED BY <1>2, <2>1
<1>4. Read(Len(s)) = ElementsOf(s)
  BY DEF ElementsOf
<1> QED BY <1>1, <1>3, <1>4

\* The tracks of a number among the first n lines.
TracksUpTo(s, n, cat) == Cardinality({j \in 1 .. n : s[j].cat = cat})
Numbered(s) == \A i \in DOMAIN s : s[i].track = TracksUpTo(s, i, s[i].cat)

\* One line more is a track more of its number.
LEMMA TracksUpToNext ==
  ASSUME NEW s, NEW n \in Nat, NEW cat
  PROVE  /\ TracksUpTo(s, 0, cat) = 0 /\ TracksUpTo(s, n, cat) \in Nat
         /\ n > 0 => TracksUpTo(s, n, cat) =
                       TracksUpTo(s, n - 1, cat) + (IF s[n].cat = cat THEN 1 ELSE 0)
<1> DEFINE Upto(m) == {j \in 1 .. m : s[j].cat = cat}
<1>1. ASSUME NEW m \in Nat PROVE IsFiniteSet(Upto(m)) /\ Cardinality(Upto(m)) \in Nat
  <2>1. IsFiniteSet(1 .. m)
    BY FS_Interval
  <2>2. Upto(m) \subseteq 1 .. m
    OBVIOUS
  <2>3. IsFiniteSet(Upto(m))
    BY <2>1, <2>2, FS_Subset
  <2> HIDE DEF Upto
  <2> QED BY <2>3, FS_CardinalityType
<1>2. Upto(0) = {}
  OBVIOUS
<1>3. ASSUME n > 0, s[n].cat = cat
      PROVE  Cardinality(Upto(n)) = Cardinality(Upto(n - 1)) + 1
  <2>1. Upto(n) = Upto(n - 1) \cup {n}
    BY <1>3
  <2>2. n \notin Upto(n - 1) /\ n - 1 \in Nat
    BY <1>3
  <2> HIDE DEF Upto
  <2> QED BY <1>1, <2>1, <2>2, FS_AddElement
<1>4. ASSUME n > 0, s[n].cat # cat
      PROVE  Upto(n) = Upto(n - 1)
  BY <1>4
<1>5. \A m : TracksUpTo(s, m, cat) = Cardinality(Upto(m))
  BY DEF TracksUpTo
<1>6. Cardinality(Upto(0)) = 0
  BY <1>2, FS_EmptySet
<1>7. n > 0 => n - 1 \in Nat
  OBVIOUS
<1> HIDE DEF Upto
<1>8. CASE n > 0 /\ s[n].cat # cat
  BY <1>1, <1>4, <1>5, <1>6, <1>7, <1>8
<1>9. CASE n > 0 /\ s[n].cat = cat
  BY <1>1, <1>3, <1>5, <1>6, <1>7, <1>9
<1> QED BY <1>1, <1>5, <1>6, <1>8, <1>9

\* It depends on the numbers in these lines only.
LEMMA TracksUpToSame ==
  ASSUME NEW s, NEW t, NEW n, \A j \in 1 .. n : s[j].cat = t[j].cat
  PROVE  \A cat : TracksUpTo(s, n, cat) = TracksUpTo(t, n, cat)
<1> TAKE cat
<1>1. {j \in 1 .. n : s[j].cat = cat} = {j \in 1 .. n : t[j].cat = cat}
  OBVIOUS
<1> QED BY <1>1 DEF TracksUpTo

\* A line that is the next track of its number leaves the tracks numbered.
LEMMA NumberedAppend ==
  ASSUME NEW T, NEW s \in Seq(T), NEW x \in T, Numbered(s),
         x.track = TracksUpTo(s, Len(s), x.cat) + 1
  PROVE  /\ Numbered(Append(s, x))
         /\ \A cat : TracksUpTo(Append(s, x), Len(s) + 1, cat) =
                       TracksUpTo(s, Len(s), cat) + (IF x.cat = cat THEN 1 ELSE 0)
<1> DEFINE t == Append(s, x)
           n == Len(s)
<1>1. n \in Nat /\ DOMAIN s = 1 .. n /\ DOMAIN t = 1 .. n + 1 /\ t[n + 1] = x
  OBVIOUS
<1>2. \A j \in 1 .. n : t[j] = s[j]
  OBVIOUS
<1> HIDE DEF t, n
<1>3. ASSUME NEW i \in 1 .. n PROVE \A cat : TracksUpTo(t, i, cat) = TracksUpTo(s, i, cat)
  <2>1. \A j \in 1 .. i : t[j].cat = s[j].cat
    BY <1>1, <1>2
  <2> QED BY <2>1, TracksUpToSame
<1>4. \A cat : TracksUpTo(t, n, cat) = TracksUpTo(s, n, cat)
  <2>1. \A j \in 1 .. n : t[j].cat = s[j].cat
    BY <1>2
  <2> QED BY <2>1, TracksUpToSame
<1>5. ASSUME NEW cat
      PROVE  TracksUpTo(t, n + 1, cat) = TracksUpTo(s, n, cat) + (IF x.cat = cat THEN 1 ELSE 0)
  <2>1. TracksUpTo(t, n + 1, cat) =
          TracksUpTo(t, (n + 1) - 1, cat) + (IF t[n + 1].cat = cat THEN 1 ELSE 0)
    <3>1. n + 1 \in Nat /\ n + 1 > 0
      BY <1>1
    <3> QED BY <3>1, TracksUpToNext
  <2>2. (n + 1) - 1 = n
    BY <1>1
  <2> QED BY <1>1, <1>4, <2>1, <2>2
<1>6. ASSUME NEW i \in DOMAIN t PROVE t[i].track = TracksUpTo(t, i, t[i].cat)
  <2>1. CASE i = n + 1
    <3>1. TracksUpTo(t, i, x.cat) = TracksUpTo(s, n, x.cat) + 1
      BY <1>5, <2>1
    <3> QED BY <1>1, <2>1, <3>1 DEF n
  <2>2. CASE i # n + 1
    <3>1. i \in 1 .. n
      BY <1>1, <1>6, <2>2
    <3> QED BY <1>1, <1>2, <1>3, <3>1 DEF Numbered
  <2> QED BY <2>1, <2>2
<1>7. Numbered(t)
  BY <1>6 DEF Numbered
<1> QED BY <1>5, <1>7 DEF t, n

\* The loop keeps the tracks numbered when it keeps all of a number or none.
LEMMA AmongNumbered ==
  ASSUME NEW T, NEW s \in Seq(T), NEW S, Numbered(s),
         \A i, j \in DOMAIN s : s[i].cat = s[j].cat /\ s[i] \in S => s[j] \in S
  PROVE  Numbered(Among(s, S))
<1>1. PICK f : /\ f[0] = <<>> /\ Among(s, S) = f[Len(s)]
               /\ \A i \in 1 .. Len(s) :
                    f[i] = IF s[i] \in S THEN Append(f[i - 1], s[i]) ELSE f[i - 1]
  BY AmongSteps
<1> DEFINE Counts(i) == \A k \in DOMAIN s : s[k] \in S =>
                          TracksUpTo(f[i], Len(f[i]), s[k].cat) = TracksUpTo(s, i, s[k].cat)
           Good(i) == f[i] \in Seq(T) /\ Numbered(f[i]) /\ Counts(i)
           bad == {i \in 0 .. Len(s) : ~Good(i)}
<1>2. bad = {}
  <2> SUFFICES ASSUME bad # {} PROVE FALSE
    OBVIOUS
  <2>1. PICK n \in bad : \A m \in bad : n <= m
    <3>1. bad \subseteq Nat
      OBVIOUS
    <3> HIDE DEF bad
    <3> QED BY <3>1, LeastNat
  <2>2. n \in 0 .. Len(s) /\ ~Good(n) /\ Len(s) \in Nat
    <3> HIDE DEF Good
    <3> QED BY <2>1
  <2>3. CASE n = 0
    <3>1. f[n] = <<>>
      BY <1>1, <2>3
    <3>2. f[n] \in Seq(T) /\ Len(f[n]) = 0 /\ Numbered(f[n])
      BY <3>1 DEF Numbered
    <3>3. Counts(n)
      <4>1. \A t, cat : TracksUpTo(t, 0, cat) = 0
        BY 0 \in Nat, TracksUpToNext
      <4> QED BY <2>3, <3>2, <4>1
    <3> QED BY <2>2, <3>2, <3>3
  <2>4. CASE n # 0
    <3>1. n - 1 \in 0 .. Len(s) /\ n - 1 < n /\ n \in 1 .. Len(s) /\ n \in Nat /\ n > 0
      BY <2>2, <2>4
    <3>2. Good(n - 1)
      <4>1. n - 1 \notin bad
        <5> HIDE DEF bad
        <5> QED BY <2>1, <2>2, <3>1
      <4> HIDE DEF Good
      <4> QED BY <3>1, <4>1
    <3>3. s[n] \in T /\ n \in DOMAIN s
      BY <3>1
    <3>4. f[n] = IF s[n] \in S THEN Append(f[n - 1], s[n]) ELSE f[n - 1]
      BY <1>1, <3>1
    <3>5. \A cat : TracksUpTo(s, n, cat) =
                     TracksUpTo(s, n - 1, cat) + (IF s[n].cat = cat THEN 1 ELSE 0)
      BY <3>1, TracksUpToNext
    <3>6. CASE s[n] \in S
      <4>1. f[n] = Append(f[n - 1], s[n]) /\ f[n - 1] \in Seq(T) /\ Numbered(f[n - 1])
            /\ Counts(n - 1)
        BY <3>2, <3>4, <3>6
      <4>2. s[n].track = TracksUpTo(f[n - 1], Len(f[n - 1]), s[n].cat) + 1
        <5>1. s[n].track = TracksUpTo(s, n, s[n].cat)
          BY <3>3 DEF Numbered
        <5>2. TracksUpTo(s, n, s[n].cat) = TracksUpTo(s, n - 1, s[n].cat) + 1
          BY <3>5
        <5>3. TracksUpTo(f[n - 1], Len(f[n - 1]), s[n].cat) = TracksUpTo(s, n - 1, s[n].cat)
          BY <3>3, <3>6, <4>1
        <5> QED BY <5>1, <5>2, <5>3
      <4>3. /\ Numbered(f[n])
            /\ \A cat : TracksUpTo(f[n], Len(f[n - 1]) + 1, cat) =
                 TracksUpTo(f[n - 1], Len(f[n - 1]), cat) + (IF s[n].cat = cat THEN 1 ELSE 0)
        BY <3>3, <4>1, <4>2, NumberedAppend
      <4>4. f[n] \in Seq(T) /\ Len(f[n]) = Len(f[n - 1]) + 1
        BY <3>3, <4>1
      <4>5. Counts(n)
        BY <3>5, <4>1, <4>3, <4>4
      <4> QED BY <2>2, <4>3, <4>4, <4>5
    <3>7. CASE s[n] \notin S
      <4>1. f[n] = f[n - 1] /\ f[n] \in Seq(T) /\ Numbered(f[n]) /\ Counts(n - 1)
        BY <3>2, <3>4, <3>7
      <4>2. ASSUME NEW k \in DOMAIN s, s[k] \in S
            PROVE  TracksUpTo(f[n], Len(f[n]), s[k].cat) = TracksUpTo(s, n, s[k].cat)
        <5>1. s[k].cat # s[n].cat
          BY <3>3, <3>7, <4>2
        <5>2. TracksUpTo(s, n, s[k].cat) = TracksUpTo(s, n - 1, s[k].cat)
          <6>1. n - 1 \in Nat
            BY <3>1
          <6>2. TracksUpTo(s, n - 1, s[k].cat) \in Nat
            BY <6>1, TracksUpToNext
          <6> QED BY <3>5, <5>1, <6>2
        <5> QED BY <4>1, <4>2, <5>2
      <4> QED BY <2>2, <4>1, <4>2
    <3> QED BY <3>6, <3>7
  <2> QED BY <2>3, <2>4
<1>3. Good(Len(s))
  <2>1. Len(s) \in 0 .. Len(s)
    OBVIOUS
  <2> HIDE DEF Good
  <2> QED BY <1>2, <2>1
<1> QED BY <1>1, <1>3

RewritePlaces == {"close", "unlink", "rename"}
UpdatePlaces  == {"append", "type"}
CursesPlaces  == {"menu", "list", "open", "killed", "ended"} \cup RewritePlaces \cup UpdatePlaces

TitleLines == [cat : CatalogNos, title : CdTitles \cup {NoTitle}]
TrackLines == [cat : CatalogNos, track : Nat]
LinesFor(f) == IF f = "titles" THEN TitleLines ELSE TrackLines

TitleFile == LinesOf("titles")
TrackFile == LinesOf("tracks")

FilesTypeOK ==
  /\ disk \in [{"titles", "tracks", "temp"} ->
                 [there : BOOLEAN, lines : Seq(TitleLines \cup TrackLines)]]
  /\ TitleFile \in Seq(TitleLines) /\ TrackFile \in Seq(TrackLines)
  /\ ~disk["titles"].there => TitleFile = <<>>
  /\ ~disk["tracks"].there => TrackFile = <<>>

ControlTypeOK ==
  /\ current_cd \in CdTitles \cup {NoTitle} /\ current_cat \in CatalogNos
  /\ selected_row \in Nat /\ cursesPc \in CursesPlaces
  /\ task \in {"remove", "update"} /\ file \in {"titles", "tracks"}
  /\ rewriting \in BOOLEAN /\ shown \in Nat

\* A file is rewritten from fopen to rename, unless the program is killed there.
RewriteInPlace ==
  /\ cursesPc \in RewritePlaces => rewriting
  /\ cursesPc \notin RewritePlaces \cup {"killed"} => ~rewriting
  /\ cursesPc \in {"close", "unlink"} => disk[file].there
  /\ cursesPc \in {"unlink", "rename"} => disk["temp"] = File(kept)
  /\ cursesPc = "rename" => ~disk[file].there

\* The numbers that begin with the current one, and the numbers of some lines.
Covered       == {cat \in CatalogNos : <<current_cat, cat>> \in IsPrefixOfCat}
CatsOf(lines) == {lines[i].cat : i \in DOMAIN lines}

\* The numbers that have a title: on file, or in a line that could not be written.
UnwrittenCats == {line.cat : line \in unwritten}
TitleCats     == CatsOf(TitleFile) \cup UnwrittenCats
TrackCats     == CatsOf(TrackFile)
KeptCats      == CatsOf(kept)

KeptLines ==
  rewriting => /\ kept \in Seq(LinesFor(file)) /\ KeptCats \cap Covered = {}
               /\ file = "tracks" => Numbered(kept)

Removing == task = "remove" /\ cursesPc \in {"open"} \cup RewritePlaces
Updating == task = "update" /\ cursesPc \in {"open"} \cup RewritePlaces \cup UpdatePlaces

SelectedLine ==
  current_cd # NoTitle =>
    LET line == [cat |-> current_cat, title |-> current_cd] IN
    line \in unwritten \/ \E i \in DOMAIN TitleFile : TitleFile[i] = line

\* The CD that is listed or updated stays on file, and loses its tracks before the new ones.
SelectionStays ==
  /\ cursesPc \in {"menu", "list"} \/ Updating => SelectedLine
  /\ Updating => current_cd # NoTitle /\ file = "tracks"
  /\ cursesPc \in UpdatePlaces => task = "update" /\ current_cat \notin TrackCats
  /\ cursesPc = "type" => shown > 0 /\ disk["tracks"].there

\* A removal takes the titles first, and then the tracks of the same numbers.
TracksTitled ==
  ~wasKilled =>
    /\ ~(Removing /\ (file = "tracks" \/ cursesPc = "rename")) => TrackCats \subseteq TitleCats
    /\ Removing /\ file = "titles" /\ cursesPc = "rename" =>
         TrackCats \ Covered \subseteq KeptCats \cup UnwrittenCats
    /\ Removing /\ file = "tracks" => TrackCats \ Covered \subseteq TitleCats
    /\ cursesPc = "rename" /\ file = "tracks" => KeptCats \subseteq TitleCats

CursesControl == ControlTypeOK /\ RewriteInPlace /\ SelectionStays /\ TracksTitled /\ ScreenInRange
CursesData    == FilesTypeOK /\ KeptLines /\ KeptOnDisk /\ TracksNumbered
CursesIInv    == CursesControl /\ CursesData

\* The texts of the menus.
LEMMA MenuRows ==
  /\ \A title : Len(Menu(title)) \in Nat \ {0}
  /\ \A row \in 0 .. Len(Menu(NoTitle)) - 1 :
       Menu(NoTitle)[row + 1] \notin {"list", "remove", "update"}
<1>1. Len(main_menu) = 4 /\ Len(extended_menu) = 7
  BY DEF main_menu, extended_menu
<1>2. \A title : Menu(title) = main_menu \/ Menu(title) = extended_menu
  BY DEF Menu
<1>3. Menu(NoTitle) = main_menu
  BY DEF Menu
<1>4. \A row \in 0 .. 3 : main_menu[row + 1] \notin {"list", "remove", "update"}
  <2> TAKE row \in 0 .. 3
  <2>1. row = 0 \/ row = 1 \/ row = 2 \/ row = 3
    OBVIOUS
  <2>2. /\ main_menu[1] = "add" /\ main_menu[2] = "find" /\ main_menu[3] = "count"
        /\ main_menu[4] = "quit"
    BY DEF main_menu
  <2>3. /\ main_menu[0 + 1] = "add" /\ main_menu[1 + 1] = "find" /\ main_menu[2 + 1] = "count"
        /\ main_menu[3 + 1] = "quit"
    BY <2>2
  <2> QED BY <2>1, <2>3
<1>5. ASSUME NEW title PROVE Len(Menu(title)) \in Nat \ {0}
  <2>1. Len(Menu(title)) = 4 \/ Len(Menu(title)) = 7
    BY <1>1, <1>2
  <2> QED BY <2>1
<1>6. Len(Menu(NoTitle)) - 1 = 3
  BY <1>1, <1>3
<1> QED BY <1>3, <1>4, <1>5, <1>6

\* Back in the menu, the row is one of it.
LEMMA MenuInRange ==
  ASSUME NEW title, ToMainMenu(title), selected_row \in Nat
  PROVE  /\ ScreenInRange' /\ selected_row' \in Nat /\ cursesPc' = "menu" /\ current_cd' = title
<1>1. cursesPc' = "menu" /\ current_cd' = title
      /\ selected_row' = IF selected_row >= Len(Menu(title)) THEN 0 ELSE selected_row
  BY DEF ToMainMenu
<1>2. Len(Menu(title)) \in Nat \ {0}
  BY MenuRows
<1>3. Menu(current_cd)' = Menu(title)
  BY <1>1 DEF Menu
<1>4. selected_row' \in 0 .. Len(Menu(title)) - 1 /\ selected_row' \in Nat
  <2> DEFINE n == Len(Menu(title))
  <2>1. selected_row' = (IF selected_row >= n THEN 0 ELSE selected_row) /\ n \in Nat \ {0}
    BY <1>1, <1>2
  <2> HIDE DEF n
  <2>2. selected_row' \in 0 .. n - 1 /\ selected_row' \in Nat
    BY <2>1
  <2> QED BY <2>2 DEF n
<1> QED BY <1>1, <1>3, <1>4 DEF ScreenInRange

\* What is chosen from the extended menu is done to a CD that is selected.
LEMMA ChosenNeedsCd ==
  ASSUME NEW option \in {"list", "remove", "update"}, Chosen(option), ScreenInRange
  PROVE  current_cd # NoTitle
<1>1. selected_row \in 0 .. Len(Menu(current_cd)) - 1 /\ Menu(current_cd)[selected_row + 1] = option
  BY DEF Chosen, ScreenInRange
<1>2. SUFFICES ASSUME current_cd = NoTitle PROVE FALSE
  OBVIOUS
<1>3. Menu(NoTitle)[selected_row + 1] \notin {"list", "remove", "update"}
  <2>1. selected_row \in 0 .. Len(Menu(NoTitle)) - 1
    BY <1>1, <1>2
  <2> QED BY <2>1, MenuRows
<1> QED BY <1>1, <1>2, <1>3

\* What the loops over a file keep.
LEMMA OtherLinesKept ==
  ASSUME FilesTypeOK, ControlTypeOK, NEW f \in {"titles", "tracks"}
  PROVE  /\ OtherLines(f) \in Seq(LinesFor(f))
         /\ CatsOf(OtherLines(f)) = CatsOf(LinesOf(f)) \ Covered
         /\ f = "tracks" /\ TracksNumbered => Numbered(OtherLines(f))
<1> DEFINE s == LinesOf(f)
           S == {line \in LinesIn(f) : ~OfCurrent(line)}
<1>1. s \in Seq(LinesFor(f))
  BY DEF FilesTypeOK, TitleFile, TrackFile, LinesFor
<1>2. OtherLines(f) = Among(s, S) /\ LinesIn(f) = ElementsOf(s)
  BY DEF OtherLines, LinesIn, ElementsOf
<1> HIDE DEF s
<1>3. Among(s, S) \in Seq(LinesFor(f)) /\ ElementsOf(Among(s, S)) = S
  <2>1. S \subseteq ElementsOf(s)
    BY <1>2
  <2> DEFINE T == LinesFor(f)
  <2>2. s \in Seq(T)
    BY <1>1
  <2> HIDE DEF S, T
  <2>3. Among(s, S) \in Seq(T) /\ ElementsOf(Among(s, S)) = ElementsOf(s) \cap S
    BY <2>2, AmongLines
  <2> QED BY <2>1, <2>3 DEF T
<1>4. \A i \in DOMAIN s : s[i].cat \in CatalogNos
  <2> TAKE i \in DOMAIN s
  <2>1. s[i] \in LinesFor(f)
    BY <1>1
  <2>2. s[i] \in TitleLines \/ s[i] \in TrackLines
    BY <2>1 DEF LinesFor
  <2> QED BY <2>2 DEF TitleLines, TrackLines
<1>5. \A i \in DOMAIN s : s[i] \in S <=> s[i].cat \notin Covered
  BY <1>2, <1>4 DEF ElementsOf, OfCurrent, Covered
<1>6. \A t : CatsOf(t) = {line.cat : line \in ElementsOf(t)}
  BY DEF CatsOf, ElementsOf
<1>7. CatsOf(Among(s, S)) = CatsOf(s) \ Covered
  <2>1. ASSUME NEW cat \in CatsOf(Among(s, S)) PROVE cat \in CatsOf(s) \ Covered
    <3>1. PICK line \in S : cat = line.cat
      BY <1>3, <1>6
    <3>2. PICK i \in DOMAIN s : line = s[i]
      BY <1>2, <3>1 DEF ElementsOf
    <3> QED BY <1>5, <3>1, <3>2 DEF CatsOf
  <2>2. ASSUME NEW cat \in CatsOf(s) \ Covered PROVE cat \in CatsOf(Among(s, S))
    <3>1. PICK i \in DOMAIN s : cat = s[i].cat
      BY DEF CatsOf
    <3>2. s[i] \in S
      BY <1>5, <2>2, <3>1
    <3> HIDE DEF S
    <3> QED BY <1>3, <1>6, <3>1, <3>2
  <2> QED BY <2>1, <2>2
<1>8. ASSUME f = "tracks", TracksNumbered PROVE Numbered(Among(s, S))
  <2>1. Numbered(s)
    BY <1>8 DEF s, TracksNumbered, Numbered, TracksUpTo
  <2>2. \A i, j \in DOMAIN s : s[i].cat = s[j].cat /\ s[i] \in S => s[j] \in S
    BY <1>5
  <2> HIDE DEF S
  <2> QED BY <1>1, <2>1, <2>2, AmongNumbered
<1> HIDE DEF S
<1> QED BY <1>2, <1>3, <1>7, <1>8 DEF s

TitlesKept == ~wasKilled => TrackCats \subseteq TitleCats

\* Steps that leave the files alone, and the lines that are kept unless nothing is rewritten.
LEMMA QuietFiles ==
  ASSUME CursesData, disk' = disk,
         rewriting' = FALSE \/ UNCHANGED <<current_cat, kept, rewriting, file>>
  PROVE  /\ CursesData' /\ TitleFile' = TitleFile /\ TrackCats' = TrackCats
         /\ unwritten' = unwritten => TitleCats' = TitleCats
<1>1. \A f : LinesOf(f)' = LinesOf(f)
  BY DEF LinesOf
<1>2. TitleFile' = TitleFile /\ TrackFile' = TrackFile
  BY <1>1 DEF TitleFile, TrackFile, LinesOf
<1>3. /\ unwritten' = unwritten => TitleCats' = TitleCats
      /\ TrackCats' = TrackCats
  BY <1>2 DEF TitleCats, TrackCats, CatsOf, UnwrittenCats
<1>4. FilesTypeOK'
  BY <1>2 DEF CursesData, FilesTypeOK, TitleLines, TrackLines
<1>5. TracksNumbered'
  <2>1. LinesOf("tracks")' = LinesOf("tracks")
    BY DEF LinesOf
  <2>2. TracksNumbered
    BY DEF CursesData
  <2> QED BY <2>1, <2>2 DEF TracksNumbered
<1>6. CASE rewriting' = FALSE
  BY <1>2, <1>3, <1>4, <1>5, <1>6 DEF CursesData, KeptLines, KeptOnDisk
<1>7. CASE UNCHANGED <<current_cat, kept, rewriting, file>>
  <2>1. KeptLines'
    BY <1>7 DEF CursesData, KeptLines, KeptCats, CatsOf, Covered, Numbered, TracksUpTo, LinesFor,
           TitleLines, TrackLines
  <2>2. KeptOnDisk'
    BY <1>7 DEF CursesData, KeptOnDisk, OtherLines, LinesOf, LinesIn, OfCurrent
  <2> QED BY <1>2, <1>3, <1>4, <1>5, <2>1, <2>2 DEF CursesData
<1> QED BY <1>6, <1>7

\* Back in the menu with a CD that is on file, and titles for the tracks.
LEMMA BackInMenu ==
  ASSUME NEW title \in CdTitles \cup {NoTitle}, ToMainMenu(title), ControlTypeOK,
         current_cat' \in CatalogNos, task' \in {"remove", "update"},
         file' \in {"titles", "tracks"}, rewriting' = FALSE, shown' \in Nat,
         SelectedLine', TitlesKept'
  PROVE  CursesControl'
<1>1. /\ ScreenInRange' /\ selected_row' \in Nat /\ cursesPc' = "menu"
      /\ current_cd' = title
  BY MenuInRange DEF ControlTypeOK
<1>2. ControlTypeOK'
  BY <1>1 DEF ControlTypeOK, CursesPlaces
<1>3. RewriteInPlace'
  BY <1>1 DEF RewriteInPlace, RewritePlaces
<1>4. ~Removing' /\ ~Updating'
  BY <1>1 DEF Removing, Updating, RewritePlaces, UpdatePlaces
<1>5. SelectionStays'
  BY <1>1, <1>4 DEF SelectionStays, UpdatePlaces
<1>6. TracksTitled'
  BY <1>1, <1>4 DEF TracksTitled, TitlesKept
<1> QED BY <1>1, <1>2, <1>3, <1>5, <1>6 DEF CursesControl

\* The CD and the tracks are on file in the menu, in list_tracks and in update_cd.
LEMMA OutsideOfRemoval ==
  ASSUME CursesControl
  PROVE  /\ cursesPc \in {"menu", "list"} \cup UpdatePlaces =>
              SelectedLine /\ TitlesKept /\ rewriting = FALSE
         /\ cursesPc = "open" => rewriting = FALSE
<1>1. cursesPc \in {"menu", "list"} \cup UpdatePlaces => SelectedLine
  BY DEF CursesControl, SelectionStays, Updating
<1>2. cursesPc \in {"menu", "list"} \cup UpdatePlaces => TitlesKept
  BY DEF CursesControl, TracksTitled, TitlesKept, Removing, RewritePlaces, UpdatePlaces
<1> QED BY <1>1, <1>2 DEF CursesControl, RewriteInPlace, RewritePlaces, UpdatePlaces, ControlTypeOK

\* The steps in the menu that leave the files alone.
LEMMA QuietMenuSteps ==
  ASSUME CursesIInv, getchoice \/ QuitCurses \/ count_cds
  PROVE  CursesIInv'
<1>1. /\ cursesPc = "menu" /\ disk' = disk
      /\ UNCHANGED <<current_cat, kept, rewriting, file, task, shown, wasKilled, unwritten>>
  BY DEF getchoice, QuitCurses, count_cds, Chosen, rewriteVars, historyVars
<1>2. CursesControl /\ CursesData /\ ControlTypeOK
  BY DEF CursesIInv, CursesControl
<1>3. /\ CursesData' /\ TitleFile' = TitleFile /\ TitleCats' = TitleCats
      /\ TrackCats' = TrackCats
  BY <1>1, <1>2, QuietFiles
<1>4. SelectedLine /\ TitlesKept /\ rewriting = FALSE
  BY <1>1, <1>2, OutsideOfRemoval
<1>5. current_cd' = current_cd => SelectedLine' /\ TitlesKept'
  BY <1>1, <1>3, <1>4 DEF SelectedLine, TitlesKept
<1>6. CASE getchoice
  <2> DEFINE max_row == Len(Menu(current_cd))
  <2>1. /\ cursesPc' = "menu" /\ current_cd' = current_cd
        /\ \/ selected_row' = (selected_row + 1) % max_row
           \/ selected_row' = (selected_row + max_row - 1) % max_row
    BY <1>1, <1>6 DEF getchoice
  <2>2. max_row \in Nat \ {0} /\ selected_row \in Nat
    BY <1>2, MenuRows DEF ControlTypeOK
  <2>3. Menu(current_cd)' = Menu(current_cd)
    BY <2>1 DEF Menu
  <2> HIDE DEF max_row
  <2>4. selected_row' \in 0 .. max_row - 1 /\ selected_row' \in Nat
    BY <2>1, <2>2
  <2>5. ScreenInRange'
    BY <2>1, <2>3, <2>4 DEF ScreenInRange, max_row
  <2>6. ControlTypeOK'
    BY <1>1, <1>2, <2>1, <2>4 DEF ControlTypeOK, CursesPlaces
  <2>7. RewriteInPlace'
    BY <1>1, <1>4, <2>1 DEF RewriteInPlace, RewritePlaces
  <2>8. SelectionStays' /\ TracksTitled'
    BY <1>5, <2>1 DEF SelectionStays, TracksTitled, TitlesKept, Removing, Updating,
           RewritePlaces, UpdatePlaces
  <2> QED BY <1>3, <2>5, <2>6, <2>7, <2>8 DEF CursesIInv, CursesControl
<1>7. CASE QuitCurses
  <2>1. cursesPc' = "ended" /\ UNCHANGED <<current_cd, selected_row>>
    BY <1>7 DEF QuitCurses, GoTo
  <2>2. ScreenInRange'
    BY <2>1 DEF ScreenInRange
  <2>3. ControlTypeOK'
    BY <1>1, <1>2, <2>1 DEF ControlTypeOK, CursesPlaces
  <2>4. RewriteInPlace'
    BY <1>1, <1>4, <2>1 DEF RewriteInPlace, RewritePlaces
  <2>5. SelectionStays' /\ TracksTitled'
    BY <1>5, <2>1 DEF SelectionStays, TracksTitled, TitlesKept, Removing, Updating,
           RewritePlaces, UpdatePlaces
  <2> QED BY <1>3, <2>2, <2>3, <2>4, <2>5 DEF CursesIInv, CursesControl
<1>8. CASE count_cds
  <2>1. ToMainMenu(current_cd)
    BY <1>8 DEF count_cds
  <2>2. current_cd' = current_cd
    BY <2>1 DEF ToMainMenu
  <2>3. CursesControl'
    <3>1. /\ current_cd \in CdTitles \cup {NoTitle} /\ current_cat' \in CatalogNos
          /\ task' \in {"remove", "update"} /\ file' \in {"titles", "tracks"}
          /\ rewriting' = FALSE /\ shown' \in Nat
      BY <1>1, <1>2, <1>4 DEF ControlTypeOK
    <3> QED BY <1>2, <1>5, <2>1, <2>2, <3>1, BackInMenu
  <2> QED BY <1>3, <2>3 DEF CursesIInv
<1> QED BY <1>6, <1>7, <1>8

\* A search selects the only match, and the number of the last one.
LEMMA FindCdStep ==
  ASSUME CursesIInv, find_cd
  PROVE  CursesIInv'
<1>1. /\ cursesPc = "menu" /\ disk' = disk
      /\ UNCHANGED <<kept, rewriting, file, task, shown, wasKilled, unwritten>>
  BY DEF find_cd, Chosen, rewriteVars, historyVars
<1>2. CursesControl /\ CursesData /\ ControlTypeOK /\ FilesTypeOK
  BY DEF CursesIInv, CursesControl, CursesData
<1>3. SelectedLine /\ TitlesKept /\ rewriting = FALSE
  BY <1>1, <1>2, OutsideOfRemoval
<1>4. /\ CursesData' /\ TitleFile' = TitleFile /\ TitleCats' = TitleCats
      /\ TrackCats' = TrackCats
  BY <1>1, <1>2, <1>3, QuietFiles
<1>5. PICK match \in Searches :
        /\ current_cat' = IF Len(TitledAs(match)) = 0 THEN current_cat
                          ELSE TitledAs(match)[Len(TitledAs(match))].cat
        /\ ToMainMenu(IF Len(TitledAs(match)) # 1 THEN NoTitle ELSE TitledAs(match)[1].title)
  BY DEF find_cd
<1> DEFINE hits == TitledAs(match)
           n    == Len(hits)
<1>6. hits \in Seq(TitleLines) /\ \A i \in DOMAIN hits : \E k \in DOMAIN TitleFile :
                                                           TitleFile[k] = hits[i]
  <2> DEFINE S == {line \in LinesIn("titles") : line.title \in match}
  <2>1. TitleFile \in Seq(TitleLines) /\ hits = Among(TitleFile, S)
    BY <1>2 DEF FilesTypeOK, TitledAs, TitleFile
  <2> HIDE DEF S, hits
  <2>2. hits \in Seq(TitleLines) /\ ElementsOf(hits) \subseteq ElementsOf(TitleFile)
    BY <2>1, AmongLines
  <2>3. \A i \in DOMAIN hits : hits[i] \in ElementsOf(TitleFile)
    <3>1. \A i \in DOMAIN hits : hits[i] \in ElementsOf(hits)
      BY Zenon DEF ElementsOf
    <3> QED BY <2>2, <3>1, Zenon
  <2>4. \A x \in ElementsOf(TitleFile) : \E k \in DOMAIN TitleFile : TitleFile[k] = x
    BY Zenon DEF ElementsOf
  <2> QED BY <2>2, <2>3, <2>4, Zenon
<1> DEFINE title == IF n # 1 THEN NoTitle ELSE hits[1].title
<1>7. ToMainMenu(title) /\ current_cat' = IF n = 0 THEN current_cat ELSE hits[n].cat
  BY <1>5
<1> HIDE DEF hits
<1>8. /\ n \in Nat /\ DOMAIN hits = 1 .. n
      /\ \A i \in DOMAIN hits : hits[i].cat \in CatalogNos
                             /\ hits[i].title \in CdTitles \cup {NoTitle}
                             /\ hits[i] = [cat |-> hits[i].cat, title |-> hits[i].title]
  <2>1. n \in Nat /\ DOMAIN hits = 1 .. n
    BY <1>6
  <2>2. \A i \in DOMAIN hits : hits[i] \in TitleLines
    BY <1>6
  <2> HIDE DEF n
  <2> QED BY <2>1, <2>2 DEF TitleLines
<1>9. title \in CdTitles \cup {NoTitle} /\ current_cat' \in CatalogNos
  <2>1. current_cat \in CatalogNos
    BY <1>2 DEF ControlTypeOK
  <2>2. n # 0 => n \in DOMAIN hits
    BY <1>8
  <2>3. n = 1 => 1 \in DOMAIN hits
    BY <1>8
  <2> HIDE DEF n
  <2> QED BY <1>7, <1>8, <2>1, <2>2, <2>3
<1>10. current_cd' = title
  BY <1>7 DEF ToMainMenu
<1>11. SelectedLine'
  <2>1. CASE n = 1
    <3>1. PICK k \in DOMAIN TitleFile : TitleFile[k] = hits[1]
      BY <1>6, <1>8, <2>1
    <3>2. hits[1] = [cat |-> current_cat', title |-> current_cd']
      BY <1>7, <1>8, <1>10, <2>1
    <3> QED BY <1>4, <3>1, <3>2 DEF SelectedLine
  <2>2. CASE n # 1
    BY <1>10, <2>2 DEF SelectedLine
  <2> QED BY <2>1, <2>2
<1> HIDE DEF title
<1>12. TitlesKept'
  BY <1>1, <1>3, <1>4 DEF TitlesKept
<1>13. /\ task' \in {"remove", "update"} /\ file' \in {"titles", "tracks"}
       /\ rewriting' = FALSE /\ shown' \in Nat
  BY <1>1, <1>2, <1>3 DEF ControlTypeOK
<1>14. CursesControl'
  BY <1>2, <1>7, <1>9, <1>11, <1>12, <1>13, BackInMenu
<1> QED BY <1>4, <1>14 DEF CursesIInv

\* What a record of the disk is.
LEMMA FileOfLines ==
  ASSUME NEW s \in Seq(TitleLines \cup TrackLines)
  PROVE  /\ File(s) \in [there : BOOLEAN, lines : Seq(TitleLines \cup TrackLines)]
         /\ File(s).there = TRUE /\ File(s).lines = s
BY DEF File

LEMMA NoFileOfLines ==
  /\ NoFile \in [there : BOOLEAN, lines : Seq(TitleLines \cup TrackLines)]
  /\ NoFile.there = FALSE /\ NoFile.lines = <<>>
BY DEF NoFile

\* A title more: it is the CD that is selected then.
LEMMA AddStep ==
  ASSUME CursesIInv, add_record
  PROVE  CursesIInv'
<1>1. /\ cursesPc = "menu"
      /\ UNCHANGED <<kept, rewriting, file, task, shown, wasKilled>>
  BY DEF add_record, Chosen, rewriteVars, historyVars
<1>2. CursesControl /\ CursesData /\ ControlTypeOK /\ FilesTypeOK /\ TracksNumbered
  BY DEF CursesIInv, CursesControl, CursesData
<1>3. SelectedLine /\ TitlesKept /\ rewriting = FALSE
  BY <1>1, <1>2, OutsideOfRemoval
<1>4. /\ task' \in {"remove", "update"} /\ file' \in {"titles", "tracks"}
      /\ rewriting' = FALSE /\ shown' \in Nat
  BY <1>1, <1>2, <1>3 DEF ControlTypeOK
<1>5. ASSUME ToMainMenu(current_cd), UNCHANGED <<disk, current_cat, unwritten>>
      PROVE  CursesIInv'
  <2>1. /\ CursesData' /\ TitleFile' = TitleFile /\ TitleCats' = TitleCats
        /\ TrackCats' = TrackCats
    BY <1>1, <1>2, <1>3, <1>5, QuietFiles
  <2>2. current_cd' = current_cd /\ current_cd \in CdTitles \cup {NoTitle}
        /\ current_cat' \in CatalogNos
    BY <1>2, <1>5 DEF ToMainMenu, ControlTypeOK
  <2>3. SelectedLine' /\ TitlesKept'
    BY <1>1, <1>3, <1>5, <2>1, <2>2 DEF SelectedLine, TitlesKept
  <2>4. CursesControl'
    BY <1>2, <1>4, <1>5, <2>2, <2>3, BackInMenu
  <2> QED BY <2>1, <2>4 DEF CursesIInv
<1>6. ASSUME NEW cat \in CatalogNos, NEW title \in CdTitles \cup {NoTitle},
             disk' = [disk EXCEPT !["titles"] =
                        File(Append(@.lines, [cat |-> cat, title |-> title]))],
             unwritten' = unwritten, current_cat' = cat, ToMainMenu(title)
      PROVE  CursesIInv'
  <2> DEFINE line == [cat |-> cat, title |-> title]
             s    == Append(TitleFile, line)
  <2>1. line \in TitleLines /\ line.cat = cat
    BY DEF TitleLines
  <2>2. TitleFile \in Seq(TitleLines)
    BY <1>2 DEF FilesTypeOK
  <2>3. s \in Seq(TitleLines) /\ s \in Seq(TitleLines \cup TrackLines)
    <3> HIDE DEF line
    <3> QED BY <2>1, <2>2
  <2>4. disk' = [disk EXCEPT !["titles"] = File(s)]
    BY <1>6 DEF TitleFile, LinesOf
  <2> HIDE DEF s
  <2>5. /\ disk'["titles"] = File(s) /\ disk'["tracks"] = disk["tracks"]
        /\ disk' \in [{"titles", "tracks", "temp"} ->
                       [there : BOOLEAN, lines : Seq(TitleLines \cup TrackLines)]]
    BY <1>2, <2>3, <2>4, FileOfLines DEF FilesTypeOK
  <2>6. TitleFile' = s /\ TrackFile' = TrackFile /\ disk'["titles"].there
    BY <2>3, <2>5, FileOfLines DEF TitleFile, TrackFile, LinesOf
  <2>7. FilesTypeOK'
    BY <1>2, <2>3, <2>5, <2>6 DEF FilesTypeOK, TitleLines, TrackLines
  <2>8. CursesData'
    <3>1. TracksNumbered'
      BY <1>2, <2>6 DEF TracksNumbered, TrackFile
    <3> QED BY <1>4, <2>7, <3>1 DEF CursesData, KeptLines, KeptOnDisk
  <2>9. /\ \A i \in DOMAIN TitleFile : i \in DOMAIN s /\ s[i] = TitleFile[i]
        /\ Len(s) \in DOMAIN s /\ s[Len(s)] = line
    <3> HIDE DEF line
    <3> QED BY <2>1, <2>2 DEF s
  <2>10. TrackCats' = TrackCats /\ TitleCats \subseteq TitleCats'
    BY <1>6, <2>6, <2>9 DEF TitleCats, TrackCats, CatsOf, UnwrittenCats
  <2>11. current_cd' = title
    BY <1>6 DEF ToMainMenu
  <2>12. SelectedLine'
    BY <1>6, <2>6, <2>9, <2>11 DEF SelectedLine
  <2>13. TitlesKept'
    BY <1>1, <1>3, <2>10 DEF TitlesKept
  <2>14. CursesControl'
    BY <1>2, <1>4, <1>6, <2>12, <2>13, BackInMenu
  <2> QED BY <2>8, <2>14 DEF CursesIInv
<1>7. ASSUME NEW cat \in CatalogNos, NEW title \in CdTitles \cup {NoTitle}, disk' = disk,
             unwritten' = unwritten \cup {[cat |-> cat, title |-> title]},
             current_cat' = cat, ToMainMenu(title)
      PROVE  CursesIInv'
  <2>1. CursesData' /\ TitleFile' = TitleFile /\ TrackCats' = TrackCats
    BY <1>2, <1>4, <1>7, QuietFiles
  <2>2. current_cd' = title
    BY <1>7 DEF ToMainMenu
  <2>3. SelectedLine'
    BY <1>7, <2>2 DEF SelectedLine
  <2>4. TitleCats \subseteq TitleCats'
    <3>1. UnwrittenCats \subseteq UnwrittenCats'
      BY <1>7 DEF UnwrittenCats
    <3>2. CatsOf(TitleFile)' = CatsOf(TitleFile)
      BY <2>1 DEF CatsOf
    <3> QED BY <3>1, <3>2 DEF TitleCats
  <2>5. TitlesKept'
    BY <1>1, <1>3, <2>1, <2>4 DEF TitlesKept
  <2>6. CursesControl'
    BY <1>2, <1>4, <1>7, <2>3, <2>5, BackInMenu
  <2> QED BY <2>1, <2>6 DEF CursesIInv
<1> QED BY <1>5, <1>6, <1>7 DEF add_record

\* The pad shows tracks of the file, which nothing changes meanwhile.
LEMMA ListSteps ==
  ASSUME CursesIInv, list_tracks \/ ScrollTracks \/ LeaveList
  PROVE  CursesIInv'
<1>1. /\ cursesPc \in {"menu", "list"} /\ disk' = disk
      /\ UNCHANGED <<current_cat, kept, rewriting, file, task, wasKilled, unwritten>>
  BY DEF list_tracks, ScrollTracks, LeaveList, Chosen, rewriteVars, historyVars
<1>2. CursesControl /\ CursesData /\ ControlTypeOK /\ ScreenInRange
  BY DEF CursesIInv, CursesControl
<1>3. /\ CursesData' /\ TitleFile' = TitleFile /\ TitleCats' = TitleCats
      /\ TrackCats' = TrackCats
  BY <1>1, <1>2, QuietFiles
<1>4. SelectedLine /\ TitlesKept /\ rewriting = FALSE
  BY <1>1, <1>2, OutsideOfRemoval
<1>5. current_cd' = current_cd => SelectedLine' /\ TitlesKept'
  BY <1>1, <1>3, <1>4 DEF SelectedLine, TitlesKept
<1>6. ASSUME ToMainMenu(current_cd), shown' \in Nat PROVE CursesIInv'
  <2>1. current_cd' = current_cd
    BY <1>6 DEF ToMainMenu
  <2>2. /\ current_cd \in CdTitles \cup {NoTitle} /\ current_cat' \in CatalogNos
        /\ task' \in {"remove", "update"} /\ file' \in {"titles", "tracks"}
        /\ rewriting' = FALSE
    BY <1>1, <1>2, <1>4 DEF ControlTypeOK
  <2>3. CursesControl'
    BY <1>2, <1>5, <1>6, <2>1, <2>2, BackInMenu
  <2> QED BY <1>3, <2>3 DEF CursesIInv
<1>7. ASSUME GoTo("list"), shown' \in Nat,
             shown' > 0 => shown' + BOXED_LINES + 1 <= Len(CurrentTracks)
      PROVE  CursesIInv'
  <2>1. cursesPc' = "list" /\ UNCHANGED <<current_cd, selected_row>>
    BY <1>7 DEF GoTo
  <2>2. CurrentTracks' = CurrentTracks
    BY <1>1 DEF CurrentTracks, LinesIn, LinesOf, OfCurrent
  <2>3. ScreenInRange'
    BY <1>7, <2>1, <2>2 DEF ScreenInRange
  <2>4. ControlTypeOK'
    BY <1>1, <1>2, <1>7, <2>1 DEF ControlTypeOK, CursesPlaces
  <2>5. RewriteInPlace'
    BY <1>1, <1>4, <2>1 DEF RewriteInPlace, RewritePlaces
  <2>6. SelectionStays' /\ TracksTitled'
    BY <1>5, <2>1 DEF SelectionStays, TracksTitled, TitlesKept, Removing, Updating,
           RewritePlaces, UpdatePlaces
  <2> QED BY <1>3, <2>3, <2>4, <2>5, <2>6 DEF CursesIInv, CursesControl
<1>8. CASE list_tracks
  <2>1. shown \in Nat /\ 0 \in Nat /\ ~(0 > 0)
    BY <1>2 DEF ControlTypeOK
  <2> QED BY <1>6, <1>7, <1>8, <2>1 DEF list_tracks
<1>9. CASE ScrollTracks
  <2>1. shown \in Nat /\ BOXED_LINES \in Nat
    BY <1>2, CursesAssumption DEF ControlTypeOK
  <2>2. GoTo("list") /\ cursesPc = "list"
    BY <1>9 DEF ScrollTracks
  <2>3. \/ shown > 0 /\ shown' = shown - 1
        \/ shown + BOXED_LINES + 1 < Len(CurrentTracks) /\ shown' = shown + 1
    BY <1>9 DEF ScrollTracks
  <2>4. shown > 0 => shown + BOXED_LINES + 1 <= Len(CurrentTracks)
    BY <1>2, <2>2 DEF ScreenInRange
  <2>5. Len(CurrentTracks) \in Nat
    <3> DEFINE S == {line \in LinesIn("tracks") : OfCurrent(line)}
    <3>1. TrackFile \in Seq(TrackLines) /\ CurrentTracks = Among(TrackFile, S)
      BY <1>2 DEF CursesData, FilesTypeOK, CurrentTracks, TrackFile
    <3> HIDE DEF S
    <3>2. CurrentTracks \in Seq(TrackLines)
      BY <3>1, AmongLines
    <3> QED BY <3>2
  <2>6. shown' \in Nat /\ (shown' > 0 => shown' + BOXED_LINES + 1 <= Len(CurrentTracks))
    <3> DEFINE n == Len(CurrentTracks)
    <3> HIDE DEF n
    <3>1. n = Len(CurrentTracks) /\ n \in Nat
      BY <2>5 DEF n
    <3> QED BY <2>1, <2>3, <2>4, <3>1
  <2> QED BY <1>7, <2>2, <2>6
<1>10. CASE LeaveList
  BY <1>6, <1>10 DEF LeaveList
<1> QED BY <1>8, <1>9, <1>10

\* remove_cd begins with the titles, update_cd with the tracks.
LEMMA ConfirmStep ==
  ASSUME CursesIInv, Confirm
  PROVE  CursesIInv'
<1>1. /\ cursesPc = "menu" /\ disk' = disk
      /\ UNCHANGED <<current_cat, kept, rewriting, shown, wasKilled, unwritten>>
  BY DEF Confirm, Chosen, historyVars
<1>2. CursesControl /\ CursesData /\ ControlTypeOK /\ ScreenInRange
  BY DEF CursesIInv, CursesControl
<1>3. SelectedLine /\ TitlesKept /\ rewriting = FALSE
  BY <1>1, <1>2, OutsideOfRemoval
<1>4. /\ CursesData' /\ TitleFile' = TitleFile /\ TitleCats' = TitleCats
      /\ TrackCats' = TrackCats
  BY <1>1, <1>2, <1>3, QuietFiles
<1>5. PICK option \in {"remove", "update"} :
        /\ Chosen(option) /\ task' = option /\ (GoTo("open") \/ ToMainMenu(current_cd))
        /\ file' = IF option = "remove" THEN "titles" ELSE "tracks"
  BY DEF Confirm
<1>6. /\ task' \in {"remove", "update"} /\ file' \in {"titles", "tracks"}
      /\ task' = "update" => file' = "tracks"
      /\ task' = "remove" => file' = "titles"
  BY <1>5
<1>7. current_cd' = current_cd
  BY <1>5 DEF GoTo, ToMainMenu
<1>8. SelectedLine' /\ TitlesKept'
  BY <1>1, <1>3, <1>4, <1>7 DEF SelectedLine, TitlesKept
<1>9. CASE ToMainMenu(current_cd)
  <2>1. /\ current_cd \in CdTitles \cup {NoTitle} /\ current_cat' \in CatalogNos
        /\ rewriting' = FALSE /\ shown' \in Nat
    BY <1>1, <1>2, <1>3 DEF ControlTypeOK
  <2>2. CursesControl'
    BY <1>2, <1>6, <1>8, <1>9, <2>1, BackInMenu
  <2> QED BY <1>4, <2>2 DEF CursesIInv
<1>10. CASE GoTo("open")
  <2>1. cursesPc' = "open" /\ UNCHANGED <<current_cd, selected_row>>
    BY <1>10 DEF GoTo
  <2>2. ScreenInRange'
    BY <2>1 DEF ScreenInRange
  <2>3. ControlTypeOK'
    BY <1>1, <1>2, <1>6, <2>1 DEF ControlTypeOK, CursesPlaces
  <2>4. RewriteInPlace'
    BY <1>1, <1>3, <2>1 DEF RewriteInPlace, RewritePlaces
  <2>5. current_cd # NoTitle
    BY <1>2, <1>5, ChosenNeedsCd
  <2>6. SelectionStays'
    BY <1>6, <1>7, <1>8, <2>1, <2>5 DEF SelectionStays, Updating, UpdatePlaces
  <2>7. TracksTitled'
    BY <1>6, <1>8, <2>1 DEF TracksTitled, TitlesKept, Removing
  <2> QED BY <1>4, <2>2, <2>3, <2>4, <2>6, <2>7 DEF CursesIInv, CursesControl
<1> QED BY <1>5, <1>9, <1>10

\* Killed anywhere, and started again.
LEMMA RestartSteps ==
  ASSUME CursesIInv, Killed \/ Start
  PROVE  CursesIInv'
<1>1. disk' = disk /\ UNCHANGED <<current_cat, file, task>>
  BY DEF Killed, Start, rewriteVars, historyVars
<1>2. CursesControl /\ CursesData /\ ControlTypeOK
  BY DEF CursesIInv, CursesControl
<1>3. CASE Killed
  <2>1. /\ cursesPc' = "killed" /\ wasKilled' = TRUE /\ shown' = 0
        /\ UNCHANGED <<current_cd, selected_row, kept, rewriting>>
    BY <1>3 DEF Killed, GoTo, rewriteVars, historyVars
  <2>2. CursesData'
    BY <1>1, <1>2, <2>1, QuietFiles
  <2>3. ScreenInRange'
    BY <2>1 DEF ScreenInRange
  <2>4. ControlTypeOK'
    BY <1>1, <1>2, <2>1 DEF ControlTypeOK, CursesPlaces
  <2>5. RewriteInPlace'
    BY <2>1 DEF RewriteInPlace, RewritePlaces
  <2>6. SelectionStays' /\ TracksTitled'
    BY <2>1 DEF SelectionStays, TracksTitled, Updating, RewritePlaces, UpdatePlaces
  <2> QED BY <2>2, <2>3, <2>4, <2>5, <2>6 DEF CursesIInv, CursesControl
<1>4. CASE Start
  <2>1. /\ cursesPc' = "menu" /\ cursesPc \in {"killed", "ended"} /\ rewriting' = FALSE
        /\ current_cd' = NoTitle /\ selected_row' = 0 /\ UNCHANGED <<shown, wasKilled, unwritten>>
    BY <1>4 DEF Start, historyVars
  <2>2. /\ CursesData' /\ TitleFile' = TitleFile /\ TitleCats' = TitleCats
        /\ TrackCats' = TrackCats
    BY <1>1, <1>2, <2>1, QuietFiles
  <2>3. ScreenInRange'
    <3>1. Len(Menu(NoTitle)) \in Nat \ {0} /\ Menu(current_cd)' = Menu(NoTitle)
      BY <2>1, MenuRows DEF Menu
    <3>2. 0 \in 0 .. Len(Menu(NoTitle)) - 1
      BY <3>1
    <3> QED BY <2>1, <3>1, <3>2 DEF ScreenInRange
  <2>4. ControlTypeOK'
    BY <1>1, <1>2, <2>1 DEF ControlTypeOK, CursesPlaces
  <2>5. RewriteInPlace'
    BY <2>1 DEF RewriteInPlace, RewritePlaces
  <2>6. SelectionStays'
    BY <2>1 DEF SelectionStays, SelectedLine, Updating, RewritePlaces, UpdatePlaces
  <2>7. TracksTitled'
    <3>1. TitlesKept
      BY <1>2, <2>1 DEF CursesControl, TracksTitled, TitlesKept, Removing, RewritePlaces
    <3> QED BY <2>1, <2>2, <3>1 DEF TracksTitled, TitlesKept, Removing, RewritePlaces
  <2> QED BY <2>2, <2>3, <2>4, <2>5, <2>6, <2>7 DEF CursesIInv, CursesControl
<1> QED BY <1>3, <1>4

\* remove_cd and remove_tracks open the two files and read the old one.
LEMMA OpenStep ==
  ASSUME CursesIInv, OpenTemp
  PROVE  CursesIInv'
<1>1. cursesPc = "open" /\ UNCHANGED <<current_cat, task, file, shown, wasKilled, unwritten>>
  BY DEF OpenTemp, historyVars
<1>2. /\ CursesControl /\ CursesData /\ ControlTypeOK /\ FilesTypeOK /\ TracksNumbered
      /\ SelectionStays /\ TracksTitled
  BY DEF CursesIInv, CursesControl, CursesData
<1>3. /\ rewriting = FALSE /\ file \in {"titles", "tracks"} /\ task \in {"remove", "update"}
      /\ current_cat \in CatalogNos
  BY <1>1, <1>2, OutsideOfRemoval DEF ControlTypeOK
<1>4. /\ task = "update" => Updating /\ SelectedLine /\ current_cd # NoTitle /\ file = "tracks"
      /\ ~wasKilled /\ ~(task = "remove" /\ file = "tracks") => TrackCats \subseteq TitleCats
      /\ ~wasKilled /\ task = "remove" /\ file = "tracks" => TrackCats \ Covered \subseteq TitleCats
  BY <1>1, <1>2 DEF SelectionStays, TracksTitled, Updating, Removing
<1>5. ASSUME file = "tracks", ~disk[file].there, AfterTracks,
             UNCHANGED <<disk, rewriting, kept>>
      PROVE  CursesIInv'
  <2>1. /\ CursesData' /\ TitleFile' = TitleFile /\ TitleCats' = TitleCats
        /\ TrackCats' = TrackCats
    BY <1>1, <1>2, <1>5, QuietFiles
  <2>2. file = "tracks" => TrackCats = {}
    <3>1. file = "tracks" => TrackFile = <<>>
      BY <1>2, <1>5 DEF FilesTypeOK
    <3> QED BY <3>1 DEF TrackCats, CatsOf
  <2>3. TitlesKept'
    BY <1>1, <1>3, <1>4, <2>1, <2>2 DEF TitlesKept
  <2>4. CASE task = "remove"
    <3>1. ToMainMenu(NoTitle) /\ NoTitle \in CdTitles \cup {NoTitle}
      BY <1>5, <2>4 DEF AfterTracks
    <3>2. SelectedLine'
      BY <3>1 DEF SelectedLine, ToMainMenu
    <3>3. /\ current_cat' \in CatalogNos /\ task' \in {"remove", "update"}
          /\ file' \in {"titles", "tracks"} /\ rewriting' = FALSE /\ shown' \in Nat
      BY <1>1, <1>2, <1>3, <1>5 DEF ControlTypeOK
    <3>4. CursesControl'
      BY <1>2, <2>3, <3>1, <3>2, <3>3, BackInMenu
    <3> QED BY <2>1, <3>4 DEF CursesIInv
  <2>5. CASE task = "update"
    <3>1. cursesPc' = "append" /\ UNCHANGED <<current_cd, selected_row>>
      BY <1>5, <2>5 DEF AfterTracks, GoTo
    <3>2. ScreenInRange'
      BY <3>1 DEF ScreenInRange
    <3>3. ControlTypeOK'
      BY <1>1, <1>2, <1>5, <3>1 DEF ControlTypeOK, CursesPlaces, UpdatePlaces
    <3>4. RewriteInPlace'
      BY <1>3, <1>5, <3>1 DEF RewriteInPlace, RewritePlaces
    <3>5. SelectedLine' /\ current_cd' # NoTitle /\ file' = "tracks" /\ task' = "update"
      BY <1>1, <1>4, <2>1, <2>5, <3>1 DEF SelectedLine
    <3>6. SelectionStays'
      BY <1>1, <2>1, <2>2, <3>1, <3>5 DEF SelectionStays, UpdatePlaces
    <3>7. TracksTitled'
      BY <2>3, <3>1, <3>5 DEF TracksTitled, TitlesKept, Removing
    <3> QED BY <2>1, <3>2, <3>3, <3>4, <3>6, <3>7 DEF CursesIInv, CursesControl
  <2> QED BY <1>3, <2>4, <2>5
<1>6. ASSUME disk[file].there, GoTo("close"), rewriting' = TRUE,
             disk' = [disk EXCEPT !["temp"] = File(<<>>)], kept' = OtherLines(file)
      PROVE  CursesIInv'
  <2>1. cursesPc' = "close" /\ UNCHANGED <<current_cd, selected_row>>
    BY <1>6 DEF GoTo
  <2>2. /\ disk'["titles"] = disk["titles"] /\ disk'["tracks"] = disk["tracks"]
        /\ disk' \in [{"titles", "tracks", "temp"} ->
                       [there : BOOLEAN, lines : Seq(TitleLines \cup TrackLines)]]
    <3>1. File(<<>>) \in [there : BOOLEAN, lines : Seq(TitleLines \cup TrackLines)]
      <4>1. <<>> \in Seq(TitleLines \cup TrackLines)
        OBVIOUS
      <4> QED BY <4>1, FileOfLines
    <3> QED BY <1>2, <1>6, <3>1 DEF FilesTypeOK
  <2>3. TitleFile' = TitleFile /\ TrackFile' = TrackFile
    BY <2>2 DEF TitleFile, TrackFile, LinesOf
  <2>4. TitleCats' = TitleCats /\ TrackCats' = TrackCats
    BY <1>1, <2>3 DEF TitleCats, TrackCats, CatsOf, UnwrittenCats
  <2>5. FilesTypeOK'
    BY <1>2, <2>2, <2>3 DEF FilesTypeOK, TitleLines, TrackLines
  <2>6. TracksNumbered'
    BY <1>2, <2>3 DEF TracksNumbered, TrackFile
  <2>7. disk'[file'] = disk[file] /\ file' = file /\ current_cat' = current_cat
    BY <1>1, <1>3, <2>2
  <2>8. OtherLines(file)' = OtherLines(file)
    BY <2>7 DEF OtherLines, LinesIn, LinesOf, OfCurrent
  <2>9. KeptOnDisk'
    BY <1>6, <2>7, <2>8 DEF KeptOnDisk
  <2>10. /\ kept' \in Seq(LinesFor(file)) /\ KeptCats' = CatsOf(LinesOf(file)) \ Covered
         /\ file = "tracks" => Numbered(kept')
    <3>1. /\ OtherLines(file) \in Seq(LinesFor(file))
          /\ CatsOf(OtherLines(file)) = CatsOf(LinesOf(file)) \ Covered
          /\ file = "tracks" => Numbered(OtherLines(file))
      BY <1>2, <1>3, OtherLinesKept
    <3>2. KeptCats' = CatsOf(kept')
      BY DEF KeptCats, CatsOf
    <3> QED BY <1>6, <3>1, <3>2, Zenon
  <2>11. KeptLines'
    BY <2>7, <2>10 DEF KeptLines, Covered, LinesFor, TitleLines, TrackLines, Numbered, TracksUpTo
  <2>12. ScreenInRange'
    BY <2>1 DEF ScreenInRange
  <2>13. ControlTypeOK'
    BY <1>1, <1>2, <1>6, <2>1 DEF ControlTypeOK, CursesPlaces, RewritePlaces
  <2>14. RewriteInPlace'
    BY <1>6, <2>1, <2>7 DEF RewriteInPlace, RewritePlaces
  <2>15. SelectionStays'
    <3>1. Updating' <=> task = "update"
      BY <1>1, <2>1 DEF Updating, RewritePlaces
    <3>2. task = "update" => SelectedLine' /\ current_cd' # NoTitle /\ file' = "tracks"
      BY <1>1, <1>4, <2>1, <2>3, <2>7 DEF SelectedLine
    <3> QED BY <2>1, <3>1, <3>2 DEF SelectionStays, UpdatePlaces
  <2>16. TracksTitled'
    <3>1. Removing' <=> task = "remove"
      BY <1>1, <2>1 DEF Removing, RewritePlaces
    <3>2. Covered' = Covered
      BY <2>7 DEF Covered
    <3> QED BY <1>1, <1>4, <2>1, <2>4, <3>1, <3>2 DEF TracksTitled
  <2> QED BY <2>5, <2>6, <2>9, <2>11, <2>12, <2>13, <2>14, <2>15, <2>16
          DEF CursesIInv, CursesControl, CursesData
<1>7. \/ file = "tracks" /\ ~disk[file].there /\ AfterTracks /\ UNCHANGED <<disk, rewriting, kept>>
      \/ /\ disk[file].there /\ GoTo("close") /\ rewriting' = TRUE
         /\ disk' = [disk EXCEPT !["temp"] = File(<<>>)] /\ kept' = OtherLines(file)
  BY Zenon DEF OpenTemp
<1> QED BY <1>5, <1>6, <1>7, Zenon

\* remove_cd ends the program when there is no titles file.
LEMMA NoTitlesStep ==
  ASSUME CursesIInv, ReadNoTitles
  PROVE  CursesIInv'
<1>1. /\ cursesPc = "open" /\ cursesPc' = "killed" /\ wasKilled' = TRUE
      /\ disk' = [disk EXCEPT !["temp"] = File(<<>>)]
      /\ UNCHANGED <<current_cd, selected_row, current_cat, kept, rewriting, file, task, shown>>
  BY DEF ReadNoTitles, GoTo, rewriteVars
<1>2. /\ CursesControl /\ CursesData /\ ControlTypeOK /\ FilesTypeOK /\ TracksNumbered
  BY DEF CursesIInv, CursesControl, CursesData
<1>3. rewriting = FALSE
  BY <1>1, <1>2, OutsideOfRemoval
<1>4. /\ disk'["titles"] = disk["titles"] /\ disk'["tracks"] = disk["tracks"]
      /\ disk' \in [{"titles", "tracks", "temp"} ->
                     [there : BOOLEAN, lines : Seq(TitleLines \cup TrackLines)]]
  <2>1. File(<<>>) \in [there : BOOLEAN, lines : Seq(TitleLines \cup TrackLines)]
    <3>1. <<>> \in Seq(TitleLines \cup TrackLines)
      OBVIOUS
    <3> QED BY <3>1, FileOfLines
  <2> QED BY <1>1, <1>2, <2>1 DEF FilesTypeOK
<1>5. TitleFile' = TitleFile /\ TrackFile' = TrackFile
  BY <1>4 DEF TitleFile, TrackFile, LinesOf
<1>6. FilesTypeOK'
  BY <1>2, <1>4, <1>5 DEF FilesTypeOK, TitleLines, TrackLines
<1>7. TracksNumbered'
  BY <1>2, <1>5 DEF TracksNumbered, TrackFile
<1>8. CursesData'
  BY <1>1, <1>3, <1>6, <1>7 DEF CursesData, KeptLines, KeptOnDisk
<1>9. ScreenInRange' /\ RewriteInPlace'
  BY <1>1, <1>3 DEF ScreenInRange, RewriteInPlace, RewritePlaces
<1>10. ControlTypeOK'
  BY <1>1, <1>2 DEF ControlTypeOK, CursesPlaces
<1>11. SelectionStays' /\ TracksTitled'
  BY <1>1 DEF SelectionStays, TracksTitled, Updating, RewritePlaces, UpdatePlaces
<1> QED BY <1>8, <1>9, <1>10, <1>11 DEF CursesIInv, CursesControl

\* The temporary file is closed: its lines are on the disk.
LEMMA CloseStep ==
  ASSUME CursesIInv, CloseTemp
  PROVE  CursesIInv'
<1>1. /\ cursesPc = "close" /\ cursesPc' = "unlink" /\ UNCHANGED <<current_cd, selected_row>>
      /\ disk' = [disk EXCEPT !["temp"] = File(kept)]
      /\ UNCHANGED <<current_cat, task, file, rewriting, kept, shown, wasKilled, unwritten>>
  BY DEF CloseTemp, GoTo, rewriteVars, historyVars
<1>2. /\ ControlTypeOK /\ FilesTypeOK /\ TracksNumbered /\ KeptLines /\ KeptOnDisk
      /\ SelectionStays /\ TracksTitled /\ RewriteInPlace
  BY DEF CursesIInv, CursesControl, CursesData
<1>3. rewriting /\ disk[file].there /\ file \in {"titles", "tracks"}
      /\ kept \in Seq(TitleLines \cup TrackLines)
  <2>1. rewriting /\ disk[file].there /\ file \in {"titles", "tracks"}
    BY <1>1, <1>2 DEF RewriteInPlace, RewritePlaces, ControlTypeOK
  <2>2. kept \in Seq(TitleLines) \/ kept \in Seq(TrackLines)
    BY <1>2, <2>1 DEF KeptLines, LinesFor
  <2> QED BY <2>1, <2>2
<1>4. /\ disk'["titles"] = disk["titles"] /\ disk'["tracks"] = disk["tracks"]
      /\ disk'["temp"] = File(kept)
      /\ disk' \in [{"titles", "tracks", "temp"} ->
                     [there : BOOLEAN, lines : Seq(TitleLines \cup TrackLines)]]
  <2>1. File(kept) \in [there : BOOLEAN, lines : Seq(TitleLines \cup TrackLines)]
    BY <1>3, FileOfLines
  <2> QED BY <1>1, <1>2, <2>1 DEF FilesTypeOK
<1>5. TitleFile' = TitleFile /\ TrackFile' = TrackFile
  BY <1>4 DEF TitleFile, TrackFile, LinesOf
<1>6. TitleCats' = TitleCats /\ TrackCats' = TrackCats /\ KeptCats' = KeptCats
      /\ Covered' = Covered
  BY <1>1, <1>5 DEF TitleCats, TrackCats, KeptCats, CatsOf, UnwrittenCats, Covered
<1>7. FilesTypeOK' /\ TracksNumbered'
  <2>1. FilesTypeOK'
    BY <1>2, <1>4, <1>5 DEF FilesTypeOK, TitleLines, TrackLines
  <2>2. TracksNumbered'
    BY <1>2, <1>5 DEF TracksNumbered, TrackFile
  <2> QED BY <2>1, <2>2
<1>8. disk'[file'] = disk[file]
  BY <1>1, <1>3, <1>4
<1>9. KeptOnDisk'
  <2>1. OtherLines(file)' = OtherLines(file)
    <3>1. LinesOf(file)' = LinesOf(file)
      BY <1>8 DEF LinesOf
    <3>2. LinesIn(file)' = LinesIn(file)
      BY <1>8 DEF LinesIn, LinesOf
    <3>3. \A line : OfCurrent(line)' <=> OfCurrent(line)
      BY <1>1 DEF OfCurrent
    <3>4. {line \in LinesIn(file) : ~OfCurrent(line)}' =
            {line \in LinesIn(file) : ~OfCurrent(line)}
      BY <3>2, <3>3
    <3> QED BY <3>1, <3>4, Zenon DEF OtherLines
  <2>2. kept = OtherLines(file)
    BY <1>2, <1>3 DEF KeptOnDisk
  <2> QED BY <1>1, <1>3, <1>8, <2>1, <2>2 DEF KeptOnDisk
<1>10. KeptLines'
  BY <1>1, <1>2, <1>6 DEF KeptLines, LinesFor, TitleLines, TrackLines, Numbered, TracksUpTo
<1>11. ScreenInRange'
  BY <1>1 DEF ScreenInRange
<1>12. ControlTypeOK'
  BY <1>1, <1>2 DEF ControlTypeOK, CursesPlaces, RewritePlaces
<1>13. RewriteInPlace'
  BY <1>1, <1>3, <1>4, <1>8 DEF RewriteInPlace, RewritePlaces, File
<1>14. /\ Removing' <=> Removing
       /\ Updating' <=> Updating
  BY <1>1 DEF Removing, Updating, RewritePlaces
<1>15. SelectionStays'
  BY <1>1, <1>2, <1>5, <1>14 DEF SelectionStays, SelectedLine, UpdatePlaces
<1>16. TracksTitled'
  BY <1>1, <1>2, <1>6, <1>14 DEF TracksTitled
<1> QED BY <1>7, <1>9, <1>10, <1>11, <1>12, <1>13, <1>15, <1>16
        DEF CursesIInv, CursesControl, CursesData

\* Between unlink and rename the lines are in the temporary file only.
LEMMA UnlinkedStep ==
  ASSUME CursesIInv, UnlinkFile
  PROVE  CursesIInv'
<1>1. /\ cursesPc = "unlink" /\ cursesPc' = "rename" /\ UNCHANGED <<current_cd, selected_row>>
      /\ disk' = [disk EXCEPT ![file] = NoFile]
      /\ UNCHANGED <<current_cat, task, file, rewriting, kept, shown, wasKilled, unwritten>>
  BY DEF UnlinkFile, GoTo, rewriteVars, historyVars
<1>2. /\ ControlTypeOK /\ FilesTypeOK /\ TracksNumbered /\ KeptLines /\ KeptOnDisk
      /\ SelectionStays /\ TracksTitled /\ RewriteInPlace
  BY DEF CursesIInv, CursesControl, CursesData
<1>3. /\ rewriting /\ disk[file].there /\ file \in {"titles", "tracks"}
      /\ task \in {"remove", "update"} /\ disk["temp"] = File(kept)
  BY <1>1, <1>2 DEF RewriteInPlace, RewritePlaces, ControlTypeOK
<1>4. KeptCats = CatsOf(LinesOf(file)) \ Covered
  <2>1. kept = OtherLines(file)
    BY <1>2, <1>3 DEF KeptOnDisk
  <2> QED BY <1>2, <1>3, <2>1, OtherLinesKept DEF KeptCats
<1>5. /\ disk'["temp"] = disk["temp"] /\ disk'[file] = NoFile
      /\ file # "titles" => disk'["titles"] = disk["titles"]
      /\ file # "tracks" => disk'["tracks"] = disk["tracks"]
      /\ disk' \in [{"titles", "tracks", "temp"} ->
                     [there : BOOLEAN, lines : Seq(TitleLines \cup TrackLines)]]
  <2>1. NoFile \in [there : BOOLEAN, lines : Seq(TitleLines \cup TrackLines)]
    BY NoFileOfLines
  <2> QED BY <1>1, <1>2, <1>3, <2>1 DEF FilesTypeOK
<1>6. /\ file = "titles" => TitleFile' = <<>> /\ TrackFile' = TrackFile
      /\ file = "tracks" => TrackFile' = <<>> /\ TitleFile' = TitleFile
      /\ ~disk'[file].there
  BY <1>5, NoFileOfLines DEF TitleFile, TrackFile, LinesOf
<1>7. /\ file = "titles" => TitleCats' = UnwrittenCats /\ TrackCats' = TrackCats
      /\ file = "tracks" => TrackCats' = {} /\ TitleCats' = TitleCats
      /\ KeptCats' = KeptCats /\ Covered' = Covered
  BY <1>1, <1>6 DEF TitleCats, TrackCats, KeptCats, CatsOf, UnwrittenCats, Covered
<1>8. FilesTypeOK'
  <2>1. TitleFile' \in Seq(TitleLines) /\ TrackFile' \in Seq(TrackLines)
    <3>1. TitleFile \in Seq(TitleLines) /\ TrackFile \in Seq(TrackLines)
      BY <1>2 DEF FilesTypeOK
    <3>2. CASE file = "titles"
      BY <1>6, <3>1, <3>2
    <3>3. CASE file = "tracks"
      BY <1>6, <3>1, <3>3
    <3> QED BY <1>3, <3>2, <3>3
  <2>2. /\ ~disk'["titles"].there => TitleFile' = <<>>
        /\ ~disk'["tracks"].there => TrackFile' = <<>>
    BY <1>2, <1>3, <1>5, <1>6 DEF FilesTypeOK
  <2> QED BY <1>5, <2>1, <2>2 DEF FilesTypeOK, TitleLines, TrackLines
<1>9. TracksNumbered'
  <2>1. CASE file = "titles"
    BY <1>2, <1>6, <2>1 DEF TracksNumbered, TrackFile
  <2>2. CASE file = "tracks"
    <3>1. LinesOf("tracks")' = <<>>
      BY <1>6, <2>2 DEF TrackFile
    <3> QED BY <3>1 DEF TracksNumbered
  <2> QED BY <1>3, <2>1, <2>2
<1>10. KeptOnDisk'
  BY <1>1, <1>3, <1>5, <1>6 DEF KeptOnDisk, File
<1>11. KeptLines'
  BY <1>1, <1>2, <1>7 DEF KeptLines, LinesFor, TitleLines, TrackLines, Numbered, TracksUpTo
<1>12. ScreenInRange'
  BY <1>1 DEF ScreenInRange
<1>13. ControlTypeOK'
  BY <1>1, <1>2 DEF ControlTypeOK, CursesPlaces, RewritePlaces
<1>14. RewriteInPlace'
  BY <1>1, <1>3, <1>5, <1>6 DEF RewriteInPlace, RewritePlaces, File
<1>15. /\ Removing' <=> Removing
       /\ Updating' <=> Updating
       /\ Removing <=> task = "remove"
       /\ Updating <=> task = "update"
  BY <1>1 DEF Removing, Updating, RewritePlaces
<1>16. task = "update" => file = "tracks" /\ SelectedLine /\ current_cd # NoTitle
  BY <1>2, <1>15 DEF SelectionStays
<1>17. SelectionStays'
  <2>1. task = "update" => SelectedLine'
    BY <1>1, <1>6, <1>16 DEF SelectedLine
  <2> QED BY <1>1, <1>15, <1>16, <2>1 DEF SelectionStays, UpdatePlaces
<1>18. TracksTitled'
  <2>1. ASSUME ~wasKilled, file = "titles"
        PROVE  Removing /\ TrackCats \ Covered \subseteq KeptCats \cup UnwrittenCats
    <3>1. task = "remove"
      BY <1>3, <1>16, <2>1
    <3>2. TrackCats \subseteq TitleCats
      BY <1>1, <1>2, <2>1 DEF TracksTitled
    <3>3. TitleCats \ Covered \subseteq KeptCats \cup UnwrittenCats
      BY <1>4, <2>1 DEF TitleCats, TitleFile
    <3> QED BY <1>15, <3>1, <3>2, <3>3
  <2>2. ASSUME ~wasKilled, file = "tracks" PROVE KeptCats \subseteq TitleCats
    <3>1. KeptCats = TrackCats \ Covered
      BY <1>4, <2>2 DEF TrackCats, TrackFile
    <3>2. TrackCats \ Covered \subseteq TitleCats
      BY <1>1, <1>2, <2>2 DEF TracksTitled
    <3> QED BY <3>1, <3>2
  <2>3. UnwrittenCats' = UnwrittenCats
    BY <1>1 DEF UnwrittenCats
  <2> QED BY <1>1, <1>3, <1>7, <1>15, <2>1, <2>2, <2>3 DEF TracksTitled
<1> QED BY <1>8, <1>9, <1>10, <1>11, <1>12, <1>13, <1>14, <1>17, <1>18
        DEF CursesIInv, CursesControl, CursesData

\* The temporary file takes the name; the tracks follow the titles.
LEMMA RenameStep ==
  ASSUME CursesIInv, RenameTemp
  PROVE  CursesIInv'
<1>1. /\ cursesPc = "rename" /\ rewriting' = FALSE
      /\ disk' = [disk EXCEPT ![file] = disk["temp"], !["temp"] = NoFile]
      /\ IF file = "titles" THEN file' = "tracks" /\ GoTo("open")
                            ELSE file' = file /\ AfterTracks
      /\ UNCHANGED <<current_cat, shown, task, wasKilled, unwritten>>
  BY DEF RenameTemp, historyVars
<1>2. /\ ControlTypeOK /\ FilesTypeOK /\ TracksNumbered /\ KeptLines
      /\ SelectionStays /\ TracksTitled /\ RewriteInPlace
  BY DEF CursesIInv, CursesControl, CursesData
<1>3. /\ rewriting /\ ~disk[file].there /\ file \in {"titles", "tracks"}
      /\ task \in {"remove", "update"} /\ disk["temp"] = File(kept)
      /\ current_cat \in CatalogNos
  BY <1>1, <1>2 DEF RewriteInPlace, RewritePlaces, ControlTypeOK
<1>4. /\ kept \in Seq(LinesFor(file)) /\ KeptCats \cap Covered = {}
      /\ file = "tracks" => Numbered(kept)
  BY <1>2, <1>3 DEF KeptLines
<1>5. /\ disk'[file] = File(kept)
      /\ file # "titles" => disk'["titles"] = disk["titles"]
      /\ file # "tracks" => disk'["tracks"] = disk["tracks"]
      /\ disk' \in [{"titles", "tracks", "temp"} ->
                     [there : BOOLEAN, lines : Seq(TitleLines \cup TrackLines)]]
  <2>1. NoFile \in [there : BOOLEAN, lines : Seq(TitleLines \cup TrackLines)]
    BY NoFileOfLines
  <2>2. disk["temp"] \in [there : BOOLEAN, lines : Seq(TitleLines \cup TrackLines)]
    BY <1>2 DEF FilesTypeOK
  <2> QED BY <1>1, <1>2, <1>3, <2>1, <2>2 DEF FilesTypeOK
<1>6. /\ file = "titles" => TitleFile' = kept /\ TrackFile' = TrackFile
      /\ file = "tracks" => TrackFile' = kept /\ TitleFile' = TitleFile
      /\ disk'[file].there
  BY <1>5 DEF TitleFile, TrackFile, LinesOf, File
<1>7. /\ file = "titles" => TitleCats' = KeptCats \cup UnwrittenCats /\ TrackCats' = TrackCats
      /\ file = "tracks" => TrackCats' = KeptCats /\ TitleCats' = TitleCats
      /\ Covered' = Covered
  BY <1>1, <1>6 DEF TitleCats, TrackCats, KeptCats, CatsOf, UnwrittenCats, Covered
<1>8. FilesTypeOK'
  <2>1. TitleFile' \in Seq(TitleLines) /\ TrackFile' \in Seq(TrackLines)
    BY <1>2, <1>3, <1>4, <1>6 DEF FilesTypeOK, LinesFor
  <2>2. /\ ~disk'["titles"].there => TitleFile' = <<>>
        /\ ~disk'["tracks"].there => TrackFile' = <<>>
    BY <1>2, <1>3, <1>5, <1>6 DEF FilesTypeOK
  <2> QED BY <1>5, <2>1, <2>2 DEF FilesTypeOK, TitleLines, TrackLines
<1>9. TracksNumbered'
  <2>1. CASE file = "titles"
    BY <1>2, <1>6, <2>1 DEF TracksNumbered, TrackFile
  <2>2. CASE file = "tracks"
    <3>1. LinesOf("tracks")' = kept
      BY <1>6, <2>2 DEF TrackFile
    <3> QED BY <1>4, <2>2, <3>1 DEF TracksNumbered, Numbered, TracksUpTo
  <2> QED BY <1>3, <2>1, <2>2
<1>10. CursesData'
  BY <1>1, <1>8, <1>9 DEF CursesData, KeptLines, KeptOnDisk
<1>11. /\ Removing <=> task = "remove"
       /\ Updating <=> task = "update"
  BY <1>1, <1>3 DEF Removing, Updating, RewritePlaces
<1>12. task = "update" => file = "tracks" /\ SelectedLine /\ current_cd # NoTitle
  BY <1>2, <1>11 DEF SelectionStays
<1>13. CASE file = "titles"
  <2>1. /\ cursesPc' = "open" /\ UNCHANGED <<current_cd, selected_row>> /\ file' = "tracks"
        /\ task' = "remove" /\ task = "remove"
    BY <1>1, <1>3, <1>12, <1>13 DEF GoTo
  <2>2. ScreenInRange'
    BY <2>1 DEF ScreenInRange
  <2>3. ControlTypeOK'
    BY <1>1, <1>2, <2>1 DEF ControlTypeOK, CursesPlaces
  <2>4. RewriteInPlace'
    BY <1>1, <2>1 DEF RewriteInPlace, RewritePlaces
  <2>5. SelectionStays'
    BY <2>1 DEF SelectionStays, Updating, UpdatePlaces
  <2>6. ~wasKilled => TrackCats \ Covered \subseteq KeptCats \cup UnwrittenCats
    BY <1>1, <1>2, <1>11, <1>13, <2>1 DEF TracksTitled
  <2>7. TracksTitled'
    BY <1>1, <1>7, <1>13, <2>1, <2>6 DEF TracksTitled, Removing
  <2> QED BY <1>10, <2>2, <2>3, <2>4, <2>5, <2>7 DEF CursesIInv, CursesControl
<1>14. CASE file = "tracks"
  <2>1. TitlesKept'
    BY <1>1, <1>2, <1>7, <1>14 DEF TracksTitled, TitlesKept
  <2>2. CASE task = "remove"
    <3>1. ToMainMenu(NoTitle) /\ NoTitle \in CdTitles \cup {NoTitle}
      BY <1>1, <1>14, <2>2 DEF AfterTracks
    <3>2. SelectedLine'
      BY <3>1 DEF SelectedLine, ToMainMenu
    <3>3. /\ current_cat' \in CatalogNos /\ task' \in {"remove", "update"}
          /\ file' \in {"titles", "tracks"} /\ rewriting' = FALSE /\ shown' \in Nat
      BY <1>1, <1>2, <1>3, <1>14 DEF ControlTypeOK
    <3>4. CursesControl'
      BY <1>2, <2>1, <3>1, <3>2, <3>3, BackInMenu
    <3> QED BY <1>10, <3>4 DEF CursesIInv
  <2>3. CASE task = "update"
    <3>1. cursesPc' = "append" /\ UNCHANGED <<current_cd, selected_row>>
          /\ file' = "tracks" /\ task' = "update"
      BY <1>1, <1>14, <2>3 DEF AfterTracks, GoTo
    <3>2. ScreenInRange'
      BY <3>1 DEF ScreenInRange
    <3>3. ControlTypeOK'
      BY <1>1, <1>2, <3>1 DEF ControlTypeOK, CursesPlaces, UpdatePlaces
    <3>4. RewriteInPlace'
      BY <1>1, <3>1 DEF RewriteInPlace, RewritePlaces
    <3>5. SelectedLine' /\ current_cd' # NoTitle
      BY <1>1, <1>6, <1>12, <1>14, <2>3, <3>1 DEF SelectedLine
    <3>6. current_cat' \notin TrackCats'
      <4>1. current_cat \in Covered
        BY <1>3, CursesAssumption DEF Covered
      <4> QED BY <1>1, <1>4, <1>7, <1>14, <4>1
    <3>7. SelectionStays'
      BY <3>1, <3>5, <3>6 DEF SelectionStays, UpdatePlaces
    <3>8. TracksTitled'
      BY <2>1, <3>1 DEF TracksTitled, TitlesKept, Removing
    <3> QED BY <1>10, <3>2, <3>3, <3>4, <3>7, <3>8 DEF CursesIInv, CursesControl
  <2> QED BY <1>3, <2>2, <2>3
<1> QED BY <1>3, <1>13, <1>14

\* Each of the numbers is that of a line.
LEMMA CatsOfLines == \A t : \A c \in CatsOf(t) : \E k \in DOMAIN t : c = t[k].cat
BY DEF CatsOf

\* Tracks that follow the others, none of which has the number.
LEMMA NumberedTail ==
  ASSUME NEW s, NEW t, NEW m \in Nat, NEW n \in Nat, NEW cat, DOMAIN s = 1 .. m,
         DOMAIN t = 1 .. m + n, \A i \in 1 .. m : t[i] = s[i],
         \A i \in m + 1 .. m + n : t[i].cat = cat /\ t[i].track = i - m,
         Numbered(s), cat \notin CatsOf(s)
  PROVE  Numbered(t) /\ CatsOf(t) \subseteq CatsOf(s) \cup {cat}
<1>1. m \in Nat /\ DOMAIN s = 1 .. m
  OBVIOUS
<1>2. DOMAIN t = 1 .. m + n
  OBVIOUS
<1>3. \A i \in 1 .. m : t[i] = s[i]
  OBVIOUS
<1>4. \A i \in m + 1 .. m + n : t[i].cat = cat /\ t[i].track = i - m
  OBVIOUS
<1>5. \A i \in 1 .. m + n : i \in 1 .. m \/ i \in m + 1 .. m + n
  BY <1>1
<1>6. \A i \in 1 .. m : s[i].cat # cat
  BY <1>1 DEF CatsOf
<1>7. CatsOf(t) \subseteq CatsOf(s) \cup {cat}
  <2>1. ASSUME NEW i \in DOMAIN t PROVE t[i].cat \in CatsOf(s) \cup {cat}
    <3>1. CASE i \in 1 .. m
      <4>1. t[i].cat = s[i].cat /\ i \in DOMAIN s
        BY <1>1, <1>3, <3>1
      <4> QED BY <4>1 DEF CatsOf
    <3>2. CASE i \in m + 1 .. m + n
      BY <1>4, <3>2
    <3> QED BY <1>2, <1>5, <2>1, <3>1, <3>2
  <2>2. ASSUME NEW c \in CatsOf(t) PROVE c \in CatsOf(s) \cup {cat}
    <3>1. PICK k \in DOMAIN t : c = t[k].cat
      BY CatsOfLines
    <3> QED BY <2>1, <3>1
  <2> QED BY <2>2
<1>8. ASSUME NEW i \in DOMAIN t PROVE t[i].track = TracksUpTo(t, i, t[i].cat)
  <2>1. CASE i \in 1 .. m
    <3>1. \A j \in 1 .. i : t[j].cat = s[j].cat
      <4>1. \A j \in 1 .. i : j \in 1 .. m
        BY <1>1, <2>1
      <4> QED BY <1>3, <4>1
    <3>2. \A c : TracksUpTo(t, i, c) = TracksUpTo(s, i, c)
      <4> TAKE c
      <4>1. {j \in 1 .. i : t[j].cat = c} = {j \in 1 .. i : s[j].cat = c}
        BY <3>1
      <4> QED BY <4>1 DEF TracksUpTo
    <3>3. t[i] = s[i] /\ i \in DOMAIN s
      BY <1>1, <1>3, <2>1
    <3>4. s[i].track = TracksUpTo(s, i, s[i].cat)
      BY <3>3 DEF Numbered
    <3> QED BY <3>2, <3>3, <3>4
  <2>2. CASE i \in m + 1 .. m + n
    <3>1. {j \in 1 .. i : t[j].cat = cat} = m + 1 .. i
      <4>1. ASSUME NEW j \in 1 .. i PROVE t[j].cat = cat <=> j \in m + 1 .. i
        <5>1. CASE j \in 1 .. m
          BY <1>1, <1>3, <1>6, <5>1
        <5>2. CASE j \in m + 1 .. m + n
          BY <1>1, <1>4, <2>2, <5>2
        <5>3. j \in 1 .. m + n
          BY <1>1, <2>2
        <5> QED BY <1>5, <5>1, <5>2, <5>3
      <4>2. m + 1 .. i \subseteq 1 .. i
        BY <1>1, <2>2
      <4> QED BY <4>1, <4>2
    <3>2. Cardinality(m + 1 .. i) = i - m
      <4>1. m + 1 \in Int /\ i \in Int /\ ~(m + 1 > i) /\ i - (m + 1) + 1 = i - m
        BY <1>1, <2>2
      <4> QED BY <4>1, FS_Interval
    <3>3. TracksUpTo(t, i, cat) = i - m
      BY <3>1, <3>2 DEF TracksUpTo
    <3> QED BY <1>4, <2>2, <3>3
  <2> QED BY <1>2, <1>5, <2>1, <2>2
<1> QED BY <1>7, <1>8 DEF Numbered

\* The tracks typed follow the others, none of which has the number.
LEMMA NewTracks ==
  ASSUME NEW s \in Seq(TrackLines), NEW cat \in CatalogNos, NEW n \in Nat,
         Numbered(s), cat \notin CatsOf(s)
  PROVE  LET t == s \o [k \in 1 .. n |-> [cat |-> cat, track |-> k]]
         IN  t \in Seq(TrackLines) /\ Numbered(t) /\ CatsOf(t) \subseteq CatsOf(s) \cup {cat}
<1> DEFINE new == [k \in 1 .. n |-> [cat |-> cat, track |-> k]]
           t   == s \o new
           m   == Len(s)
<1>1. new \in Seq(TrackLines) /\ Len(new) = n
  <2>1. \A i \in 1 .. n : [cat |-> cat, track |-> i] \in TrackLines
    BY DEF TrackLines
  <2> QED BY <2>1
<1>2. \A i \in 1 .. n : new[i].cat = cat /\ new[i].track = i
  OBVIOUS
<1>3. m \in Nat /\ DOMAIN s = 1 .. m
  OBVIOUS
<1> HIDE DEF new
<1>4. t \in Seq(TrackLines) /\ DOMAIN t = 1 .. m + n
  BY <1>1
<1>5. \A i \in 1 .. m : t[i] = s[i]
  BY <1>1, <1>3
<1>6. \A i \in m + 1 .. m + n : t[i].cat = cat /\ t[i].track = i - m
  <2> TAKE i \in m + 1 .. m + n
  <2>1. t[i] = new[i - m]
    BY <1>1, <1>3
  <2>2. i - m \in 1 .. n
    BY <1>3
  <2> HIDE DEF m, t
  <2> QED BY <1>2, <2>1, <2>2
<1> HIDE DEF m, t
<1>7. Numbered(t) /\ CatsOf(t) \subseteq CatsOf(s) \cup {cat}
  <2>1. DOMAIN t = 1 .. m + n
    BY <1>4
  <2> QED BY <1>3, <1>5, <1>6, <2>1, NumberedTail
<1> QED BY <1>4, <1>7 DEF t, new

\* update_cd, after the old tracks were removed.
LEMMA UpdateSteps ==
  ASSUME CursesIInv, OpenTracks \/ EnterTrackTitle \/ BlankLine
  PROVE  CursesIInv'
<1>1. /\ cursesPc \in UpdatePlaces
      /\ UNCHANGED <<current_cat, kept, rewriting, file, task, wasKilled, unwritten>>
  BY DEF OpenTracks, EnterTrackTitle, BlankLine, rewriteVars, historyVars, UpdatePlaces
<1>2. /\ CursesControl /\ CursesData /\ ControlTypeOK /\ FilesTypeOK /\ TracksNumbered
      /\ SelectionStays
  BY DEF CursesIInv, CursesControl, CursesData
<1>3. SelectedLine /\ TitlesKept /\ rewriting = FALSE
  BY <1>1, <1>2, OutsideOfRemoval
<1>4. /\ task = "update" /\ file = "tracks" /\ current_cd # NoTitle
      /\ current_cat \notin TrackCats
      /\ cursesPc = "type" => shown > 0 /\ disk["tracks"].there
      /\ shown \in Nat /\ current_cat \in CatalogNos
  BY <1>1, <1>2 DEF SelectionStays, Updating, ControlTypeOK
<1>5. ASSUME ToMainMenu(current_cd), shown' \in Nat, CursesData',
             TitleFile' = TitleFile, TitlesKept'
      PROVE  CursesIInv'
  <2>1. current_cd' = current_cd
    BY <1>5 DEF ToMainMenu
  <2>2. /\ current_cd \in CdTitles \cup {NoTitle} /\ current_cat' \in CatalogNos
        /\ task' \in {"remove", "update"} /\ file' \in {"titles", "tracks"}
        /\ rewriting' = FALSE
    BY <1>1, <1>2, <1>3 DEF ControlTypeOK
  <2>3. SelectedLine'
    BY <1>1, <1>3, <1>5, <2>1 DEF SelectedLine
  <2>4. CursesControl'
    BY <1>2, <1>5, <2>2, <2>3, BackInMenu
  <2> QED BY <1>5, <2>4 DEF CursesIInv
<1>6. ASSUME GoTo("type"), shown' \in Nat, shown' > 0, disk'["tracks"].there, CursesData',
             TitleFile' = TitleFile, TrackCats' = TrackCats, TitlesKept'
      PROVE  CursesIInv'
  <2>1. cursesPc' = "type" /\ UNCHANGED <<current_cd, selected_row>>
    BY <1>6 DEF GoTo
  <2>2. ScreenInRange'
    BY <2>1 DEF ScreenInRange
  <2>3. ControlTypeOK'
    BY <1>1, <1>2, <1>6, <2>1 DEF ControlTypeOK, CursesPlaces, UpdatePlaces
  <2>4. RewriteInPlace'
    BY <1>1, <1>3, <2>1 DEF RewriteInPlace, RewritePlaces
  <2>5. SelectedLine'
    BY <1>1, <1>3, <1>6, <2>1 DEF SelectedLine
  <2>6. SelectionStays'
    BY <1>1, <1>4, <1>6, <2>1, <2>5 DEF SelectionStays, UpdatePlaces
  <2>7. TracksTitled'
    BY <1>6, <2>1 DEF TracksTitled, TitlesKept, Removing, RewritePlaces
  <2> QED BY <1>6, <2>2, <2>3, <2>4, <2>6, <2>7 DEF CursesIInv, CursesControl
<1>7. CASE OpenTracks
  <2> DEFINE s == disk["tracks"].lines
  <2>1. s = TrackFile /\ s \in Seq(TrackLines) /\ s \in Seq(TitleLines \cup TrackLines)
    BY <1>2 DEF FilesTypeOK, TrackFile, LinesOf
  <2>2. disk' = [disk EXCEPT !["tracks"] = File(s)]
    BY <1>7 DEF OpenTracks
  <2> HIDE DEF s
  <2>3. /\ disk'["tracks"] = File(s) /\ disk'["titles"] = disk["titles"]
        /\ disk' \in [{"titles", "tracks", "temp"} ->
                       [there : BOOLEAN, lines : Seq(TitleLines \cup TrackLines)]]
    BY <1>2, <2>1, <2>2, FileOfLines DEF FilesTypeOK
  <2>4. TitleFile' = TitleFile /\ TrackFile' = TrackFile /\ disk'["tracks"].there
    BY <2>1, <2>3, FileOfLines DEF TitleFile, TrackFile, LinesOf
  <2>5. FilesTypeOK'
    BY <1>2, <2>3, <2>4 DEF FilesTypeOK, TitleLines, TrackLines
  <2>6. TracksNumbered'
    BY <1>2, <2>4 DEF TracksNumbered, TrackFile
  <2>7. CursesData'
    BY <1>1, <1>3, <2>5, <2>6 DEF CursesData, KeptLines, KeptOnDisk
  <2>8. TitleCats' = TitleCats /\ TrackCats' = TrackCats
    BY <1>1, <2>4 DEF TitleCats, TrackCats, CatsOf, UnwrittenCats
  <2>9. TitlesKept'
    BY <1>1, <1>3, <2>8 DEF TitlesKept
  <2>10. \/ GoTo("type") /\ shown' = 1
         \/ ToMainMenu(current_cd) /\ shown' = shown
    BY <1>7 DEF OpenTracks
  <2>11. 1 \in Nat /\ 1 > 0
    OBVIOUS
  <2> QED BY <1>4, <1>5, <1>6, <2>4, <2>7, <2>8, <2>9, <2>10, <2>11
<1>8. CASE EnterTrackTitle
  <2>1. /\ disk' = disk /\ GoTo("type") /\ shown' = shown + 1 /\ cursesPc = "type"
    BY <1>8 DEF EnterTrackTitle
  <2>2. /\ CursesData' /\ TitleFile' = TitleFile /\ TitleCats' = TitleCats
        /\ TrackCats' = TrackCats
    BY <1>1, <1>2, <2>1, QuietFiles
  <2>3. shown' \in Nat /\ shown' > 0
    BY <1>4, <2>1
  <2>4. TitlesKept'
    BY <1>1, <1>3, <2>2 DEF TitlesKept
  <2> QED BY <1>4, <1>6, <2>1, <2>2, <2>3, <2>4
<1>9. CASE BlankLine
  <2> DEFINE s == disk["tracks"].lines
             n == shown - 1
             t == s \o [k \in 1 .. n |-> [cat |-> current_cat, track |-> k]]
  <2>1. /\ ToMainMenu(current_cd) /\ shown' = 0 /\ cursesPc = "type"
        /\ disk' = [disk EXCEPT !["tracks"].lines = t]
    BY <1>9 DEF BlankLine
  <2>2. n \in Nat
    BY <1>4, <2>1
  <2>3. s = TrackFile /\ s \in Seq(TrackLines) /\ Numbered(s)
    BY <1>2 DEF FilesTypeOK, TrackFile, LinesOf, TracksNumbered, Numbered, TracksUpTo
  <2> HIDE DEF s, n
  <2>4. current_cat \notin CatsOf(s)
    BY <1>4, <2>3 DEF TrackCats
  <2>5. t \in Seq(TrackLines) /\ Numbered(t) /\ CatsOf(t) \subseteq CatsOf(s) \cup {current_cat}
    <3> HIDE DEF t
    <3>1. current_cat \in CatalogNos /\ Numbered(s) /\ s \in Seq(TrackLines)
      BY <1>4, <2>3
    <3> QED BY <2>2, <2>4, <3>1, NewTracks DEF t
  <2> HIDE DEF t
  <2>6. t \in Seq(TitleLines \cup TrackLines)
    BY <2>5
  <2>7. /\ disk'["tracks"].lines = t /\ disk'["tracks"].there = disk["tracks"].there
        /\ disk'["titles"] = disk["titles"]
        /\ disk' \in [{"titles", "tracks", "temp"} ->
                       [there : BOOLEAN, lines : Seq(TitleLines \cup TrackLines)]]
    <3> DEFINE record == [there : BOOLEAN, lines : Seq(TitleLines \cup TrackLines)]
    <3>1. disk \in [{"titles", "tracks", "temp"} -> record]
      BY <1>2 DEF FilesTypeOK
    <3> DEFINE old == disk["tracks"]
               new == [old EXCEPT !.lines = t]
    <3>2. old \in record
      BY <3>1
    <3>3. new \in record /\ new.lines = t /\ new.there = old.there
      BY <2>6, <3>2
    <3>4. disk' = [disk EXCEPT !["tracks"] = new]
      BY <2>1
    <3> HIDE DEF record, old, new
    <3>5. /\ disk'["tracks"] = new /\ disk'["titles"] = disk["titles"]
          /\ disk' \in [{"titles", "tracks", "temp"} -> record]
      BY <3>1, <3>3, <3>4
    <3> QED BY <3>3, <3>5 DEF record, old
  <2>8. TitleFile' = TitleFile /\ TrackFile' = t /\ disk'["tracks"].there
    BY <1>4, <2>1, <2>7 DEF TitleFile, TrackFile, LinesOf
  <2>9. FilesTypeOK'
    BY <1>2, <2>5, <2>7, <2>8 DEF FilesTypeOK, TitleLines, TrackLines
  <2>10. TracksNumbered'
    <3>1. LinesOf("tracks")' = t
      BY <2>8 DEF TrackFile
    <3> QED BY <2>5, <3>1 DEF TracksNumbered, Numbered, TracksUpTo
  <2>11. CursesData'
    BY <1>1, <1>3, <2>9, <2>10 DEF CursesData, KeptLines, KeptOnDisk
  <2>12. TitleCats' = TitleCats /\ TrackCats' \subseteq TrackCats \cup {current_cat}
    <3>1. TitleCats' = CatsOf(TitleFile') \cup UnwrittenCats /\ TrackCats' = CatsOf(TrackFile')
      BY <1>1 DEF TitleCats, TrackCats, CatsOf, UnwrittenCats
    <3>2. TitleCats = CatsOf(TitleFile) \cup UnwrittenCats /\ TrackCats = CatsOf(s)
      BY <2>3 DEF TitleCats, TrackCats
    <3> QED BY <2>5, <2>8, <3>1, <3>2, Zenon
  <2>13. current_cat \in TitleCats
    <3> DEFINE line == [cat |-> current_cat, title |-> current_cd]
    <3>1. line.cat = current_cat
      OBVIOUS
    <3>2. line \in unwritten \/ \E i \in DOMAIN TitleFile : TitleFile[i] = line
      BY <1>3, <1>4 DEF SelectedLine
    <3> HIDE DEF line
    <3>3. CASE line \in unwritten
      BY <3>1, <3>3 DEF TitleCats, UnwrittenCats
    <3>4. CASE \E i \in DOMAIN TitleFile : TitleFile[i] = line
      BY <3>1, <3>4 DEF TitleCats, CatsOf
    <3> QED BY <3>2, <3>3, <3>4
  <2>14. TitlesKept'
    BY <1>1, <1>3, <2>12, <2>13 DEF TitlesKept
  <2> QED BY <1>5, <2>1, <2>8, <2>11, <2>14
<1> QED BY <1>7, <1>8, <1>9

\* ch06: the menu and the pad stay on what there is; the CD that is worked on is in the
\* titles file, or its line could not be written; a rewriting that is cut off loses no
\* line of another CD; the tracks of a number are numbered from 1, and those of a removed
\* CD are removed: for any numbers, whichever begin with which, and any titles, wherever
\* the titles file cannot be opened or is not there, and however long the files get.
THEOREM TitlesAndTracksAgree == CursesSpec => []CursesInv
<1>1. CursesInit => CursesIInv
  <2> SUFFICES ASSUME CursesInit PROVE CursesIInv
    OBVIOUS
  <2>1. /\ disk = [f \in {"titles", "tracks", "temp"} |-> NoFile]
        /\ current_cd = NoTitle /\ current_cat \in CatalogNos /\ selected_row = 0
        /\ cursesPc = "menu" /\ task = "remove" /\ file = "titles"
        /\ rewriting = FALSE /\ shown = 0
    BY DEF CursesInit
  <2>2. TitleFile = <<>> /\ TrackFile = <<>>
    BY <2>1, NoFileOfLines DEF TitleFile, TrackFile, LinesOf
  <2>3. FilesTypeOK
    <3>1. disk \in [{"titles", "tracks", "temp"} ->
                     [there : BOOLEAN, lines : Seq(TitleLines \cup TrackLines)]]
      BY <2>1, NoFileOfLines
    <3>2. TitleFile \in Seq(TitleLines) /\ TrackFile \in Seq(TrackLines)
      BY <2>2
    <3> QED BY <2>2, <3>1, <3>2 DEF FilesTypeOK
  <2>4. TracksNumbered
    <3>1. LinesOf("tracks") = <<>>
      BY <2>2 DEF TrackFile
    <3> QED BY <3>1 DEF TracksNumbered
  <2>5. CursesData
    BY <2>1, <2>3, <2>4 DEF CursesData, KeptLines, KeptOnDisk
  <2>6. TrackCats = {}
    BY <2>2 DEF TrackCats, CatsOf
  <2>7. ScreenInRange
    <3>1. Len(Menu(current_cd)) \in Nat \ {0}
      BY MenuRows
    <3>2. 0 \in 0 .. Len(Menu(current_cd)) - 1
      BY <3>1
    <3> QED BY <2>1, <3>2 DEF ScreenInRange
  <2>8. ControlTypeOK
    BY <2>1 DEF ControlTypeOK, CursesPlaces
  <2>9. RewriteInPlace
    BY <2>1 DEF RewriteInPlace, RewritePlaces
  <2>10. SelectionStays
    BY <2>1 DEF SelectionStays, SelectedLine, Updating, UpdatePlaces
  <2>11. TracksTitled
    BY <2>1, <2>6 DEF TracksTitled, Removing, RewritePlaces
  <2> QED BY <2>5, <2>7, <2>8, <2>9, <2>10, <2>11 DEF CursesIInv, CursesControl
<1>2. CursesIInv /\ [CursesNext]_cursesVars => CursesIInv'
  <2> SUFFICES ASSUME CursesIInv, [CursesNext]_cursesVars PROVE CursesIInv'
    OBVIOUS
  <2>1. CASE UNCHANGED cursesVars
    <3>1. /\ disk' = disk /\ UNCHANGED <<current_cat, kept, rewriting, file>>
          /\ UNCHANGED <<current_cd, selected_row, cursesPc, task, shown, wasKilled, unwritten>>
      BY <2>1 DEF cursesVars
    <3>2. CursesControl /\ CursesData
      BY DEF CursesIInv
    <3>3. /\ CursesData' /\ TitleFile' = TitleFile /\ TitleCats' = TitleCats
          /\ TrackCats' = TrackCats
      BY <3>1, <3>2, QuietFiles
    <3>4. ScreenInRange'
      BY <3>1, <3>2 DEF CursesControl, ScreenInRange, Menu, CurrentTracks, LinesIn, LinesOf,
             OfCurrent
    <3>5. ControlTypeOK' /\ RewriteInPlace'
      BY <3>1, <3>2 DEF CursesControl, ControlTypeOK, RewriteInPlace
    <3>6. SelectionStays'
      BY <3>1, <3>2, <3>3 DEF CursesControl, SelectionStays, SelectedLine, Updating
    <3>7. TracksTitled'
      BY <3>1, <3>2, <3>3 DEF CursesControl, TracksTitled, Removing, KeptCats, CatsOf, Covered,
             UnwrittenCats
    <3> QED BY <3>3, <3>4, <3>5, <3>6, <3>7 DEF CursesIInv, CursesControl
  <2>2. CASE CursesNext
    BY <2>2, QuietMenuSteps, AddStep, FindCdStep, ListSteps, ConfirmStep, OpenStep,
       NoTitlesStep, CloseStep, UnlinkedStep, RenameStep, UpdateSteps, RestartSteps DEF CursesNext
  <2> QED BY <2>1, <2>2
<1>3. CursesIInv => CursesInv
  <2> SUFFICES ASSUME CursesIInv PROVE CursesInv
    OBVIOUS
  <2>1. ScreenInRange /\ KeptOnDisk /\ TracksNumbered
    BY DEF CursesIInv, CursesControl, CursesData
  <2>2. CursesControl
    BY DEF CursesIInv
  <2>3. SelectedIsOnFile
    <3> DEFINE line == [cat |-> current_cat, title |-> current_cd]
    <3>1. cursesPc = "menu" /\ current_cd # NoTitle =>
            line \in unwritten \/ \E i \in DOMAIN TitleFile : TitleFile[i] = line
      BY <2>2, OutsideOfRemoval DEF SelectedLine
    <3> HIDE DEF line
    <3>2. (\E i \in DOMAIN TitleFile : TitleFile[i] = line) => line \in LinesIn("titles")
      BY DEF LinesIn, TitleFile
    <3> QED BY <3>1, <3>2 DEF SelectedIsOnFile, line
  <2>4. TracksHaveTitle
    <3>1. cursesPc = "menu" /\ ~wasKilled => TrackCats \subseteq TitleCats
      BY <2>2, OutsideOfRemoval DEF TitlesKept
    <3>2. ASSUME NEW entry \in LinesIn("tracks"), TrackCats \subseteq TitleCats
          PROVE  \E line \in LinesIn("titles") \cup unwritten : entry.cat = line.cat
      <4>1. PICK i \in DOMAIN TrackFile : entry = TrackFile[i]
        BY DEF LinesIn, TrackFile
      <4>2. entry.cat \in TrackCats
        BY <4>1 DEF TrackCats, CatsOf
      <4>3. entry.cat \in CatsOf(TitleFile) \/ entry.cat \in UnwrittenCats
        BY <3>2, <4>2 DEF TitleCats
      <4>4. CASE entry.cat \in UnwrittenCats
        BY <4>4 DEF UnwrittenCats
      <4>5. CASE entry.cat \in CatsOf(TitleFile)
        <5>1. PICK k \in DOMAIN TitleFile : entry.cat = TitleFile[k].cat
          BY <4>5 DEF CatsOf
        <5>2. TitleFile[k] \in LinesIn("titles")
          BY DEF LinesIn, TitleFile
        <5> QED BY <5>1, <5>2
      <4> QED BY <4>3, <4>4, <4>5
    <3> QED BY <3>1, <3>2 DEF TracksHaveTitle
  <2> QED BY <2>1, <2>3, <2>4 DEF CursesInv
<1> QED BY <1>1, <1>2, <1>3, PTL DEF CursesSpec
================================================================================
