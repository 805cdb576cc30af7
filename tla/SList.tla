-------------------------------- MODULE SList --------------------------------
(***************************************************************************)
(* Programming-Techniques/Data-managerment/linked-list/slist.c: singly     *)
(* linked lists in a heap of cells, with the pointers each function moves. *)
(* A call is one step: nothing here is shared by threads.  Callbacks       *)
(* compare items for equality, or with > when they sort.                   *)
(*                                                                         *)
(* The caller assigns the result to the variable it passed, as main.c does *)
(* ("music_list = slist_append(music_list, ...)"), gives no list to        *)
(* slist_concat twice, and forgets the second one.                         *)
(***************************************************************************)
EXTENDS Integers, Sequences, FiniteSets

CONSTANTS Cells,     \* the memory: naturals, the lowest is allocated first
          Lists,     \* the variables of the caller
          ListData,  \* the items: integers
          Positions,   \* the positions and indices given
          NULL       \* in no cell

ASSUME SListAssumption ==
  /\ Cells \subseteq Nat /\ IsFiniteSet(Cells)
  /\ ListData \subseteq Int /\ Positions \subseteq Int
  /\ NULL \notin Cells /\ NULL \notin ListData

VARIABLES cell,      \* data and next of each cell
          malloced,  \* the cells that were allocated and not freed
          list,      \* the first cell of each list
          listCall, listRet,  \* the last call and what it returned
          listEnded  \* a write through NULL ended the program

sListVars == <<cell, malloced, list, listCall, listRet, listEnded>>

SListInit ==
  /\ cell = [c \in Cells |-> [data |-> NULL, next |-> NULL]]
  /\ malloced = {} /\ list = [l \in Lists |-> NULL]
  /\ listCall = [op |-> "none"] /\ listRet = <<>> /\ listEnded = FALSE

-----------------------------------------------------------------------------
\* The loops that follow next.

\* Where such a loop is after i steps: at NULL behind the last cell.
NextOf(c) == IF c = NULL THEN NULL ELSE cell[c].next

Follow(p) == LET walk[i \in Nat] == IF i = 0 THEN p ELSE NextOf(walk[i - 1]) IN walk

slist_size(p) ==
  CHOOSE n \in 0 .. Cardinality(Cells) :
    Follow(p)[n] = NULL /\ \A i \in 0 .. n - 1 : Follow(p)[i] # NULL

Steps(p)   == 0 .. slist_size(p) - 1
CellSet(p) == {Follow(p)[i] : i \in Steps(p)}
StepOf(p, c) == CHOOSE i \in Steps(p) : Follow(p)[i] = c

slist_last(p) == IF p = NULL THEN NULL ELSE Follow(p)[slist_size(p) - 1]

slist_nth(p, n) == Follow(p)[IF n > 0 THEN n ELSE 0]

slist_nth_data(p, n) ==
  LET q == slist_nth(p, n) IN IF q = NULL THEN <<>> ELSE <<cell[q].data>>

\* After how many steps the loops of slist_find, slist_index and slist_insert first see
\* the item.
StepsWith(p, d) == {i \in Steps(p) : cell[Follow(p)[i]].data = d}
FirstStep(p, d) == CHOOSE i \in StepsWith(p, d) : \A j \in StepsWith(p, d) : i <= j

slist_find(p, d) == IF StepsWith(p, d) = {} THEN NULL ELSE Follow(p)[FirstStep(p, d)]

slist_index(p, d) == IF StepsWith(p, d) = {} THEN -1 ELSE FirstStep(p, d)

\* The items in the order the callback gets them.
slist_work(p) == [i \in 1 .. slist_size(p) |-> cell[Follow(p)[i - 1]].data]

\* Mutant of Walk: the loop goes one cell too far.
WalkFurther(p, position) ==
  IF p = NULL THEN NULL
  ELSE Follow(p)[IF position < slist_size(p) THEN position ELSE slist_size(p) - 1]

\* prev_list of slist_insert_index when its loop ends, after position steps or at the end.
Walk(p, position) ==
  IF p = NULL THEN NULL
  ELSE Follow(p)[IF position < slist_size(p) THEN position - 1 ELSE slist_size(p) - 1]

\* One turn of the loop of slist_remove_by_data_x with its variables walk, tmp and out;
\* gone are the cells that were freed, given the items that release_data got.
RemoveTurn(s, d) ==
  LET next == s.cell[s.walk].next
      freed == [s EXCEPT !.walk = next, !.gone = @ \cup {s.walk}, !.given = Append(@, d)]
  IN IF s.walk = NULL THEN s
     ELSE IF s.cell[s.walk].data # d THEN [s EXCEPT !.tmp = s.walk, !.walk = next]
     ELSE IF s.tmp = s.walk THEN [freed EXCEPT !.out = next, !.tmp = next]
     ELSE [freed EXCEPT !.cell[s.tmp].next = next]

Removed(p, d) ==
  LET after[i \in Nat] ==
        IF i = 0 THEN [cell |-> cell, walk |-> p, tmp |-> p, out |-> p, gone |-> {}, given |-> <<>>]
        ELSE RemoveTurn(after[i - 1], d)
  IN after[slist_size(p)]

\* The two loops of slist_sort on the items of the cells h.
Exchange(h, tmp, walk) ==
  IF h[tmp].data > h[walk].data
  THEN [h EXCEPT ![tmp].data = h[walk].data, ![walk].data = h[tmp].data] ELSE h

ExchangeFrom(h, p, i) ==
  LET after[j \in Steps(p)] ==
        IF j <= i THEN h ELSE Exchange(after[j - 1], Follow(p)[i], Follow(p)[j])
  IN after[slist_size(p) - 1]

Sorted(p) ==
  LET after[i \in 0 .. slist_size(p)] ==
        IF i = 0 THEN cell ELSE ExchangeFrom(after[i - 1], p, i - 1)
  IN after[slist_size(p)]

-----------------------------------------------------------------------------
\* The calls.

Returns(c, r) == listCall' = c /\ listRet' = r /\ listEnded' = FALSE

\* The cell that the next malloc gives.
NewCell == CHOOSE c \in Cells \ malloced : \A b \in Cells \ malloced : c <= b

Malloc == malloced # Cells /\ malloced' = malloced \cup {NewCell}

OutOfMemory == malloced = Cells /\ UNCHANGED <<cell, malloced, list>>

FillCell(d, next) == [cell EXCEPT ![NewCell] = [data |-> d, next |-> next]]

\* Mutant of Behind: a cell in front of the list is not linked to it.
BehindUnlinked(l, prev, d) ==
  IF prev = NULL
  THEN cell' = FillCell(d, NULL) /\ list' = [list EXCEPT ![l] = NewCell]
  ELSE /\ cell' = [FillCell(d, cell[prev].next) EXCEPT ![prev].next = NewCell]
       /\ UNCHANGED list

\* The new cell goes behind the cell prev, or in front of the list.
Behind(l, prev, d) ==
  IF prev = NULL
  THEN cell' = FillCell(d, list[l]) /\ list' = [list EXCEPT ![l] = NewCell]
  ELSE /\ cell' = [FillCell(d, cell[prev].next) EXCEPT ![prev].next = NewCell]
       /\ UNCHANGED list

AppendCell(l, d) == (Malloc /\ Behind(l, slist_last(list[l]), d)) \/ OutOfMemory

slist_append(l, d) ==
  AppendCell(l, d) /\ Returns([op |-> "append", l |-> l, d |-> d], <<>>)

\* slist_prepend does not look at the result of malloc.
Prepend(l, d, c) ==
  \/ Malloc /\ Behind(l, NULL, d) /\ Returns(c, <<>>)
  \/ OutOfMemory /\ listEnded' = TRUE /\ listCall' = c /\ listRet' = <<>>

slist_prepend(l, d) == Prepend(l, d, [op |-> "prepend", l |-> l, d |-> d])

slist_insert_index(l, d, position) ==
  LET c == [op |-> "insert_index", l |-> l, d |-> d, i |-> position] IN
  \/ position < 0 /\ AppendCell(l, d) /\ Returns(c, <<>>)
  \/ position = 0 /\ Prepend(l, d, c)
  \/ /\ position > 0 /\ Returns(c, <<>>)
     /\ (Malloc /\ Behind(l, Walk(list[l], position), d)) \/ OutOfMemory

slist_insert(l, d, at) ==
  LET p == slist_find(list[l], at) IN
  /\ \/ p = NULL /\ UNCHANGED <<cell, malloced, list>>
     \/ p # NULL /\ ((Malloc /\ Behind(l, p, d)) \/ OutOfMemory)
  /\ Returns([op |-> "insert", l |-> l, d |-> d, at |-> at], <<>>)

slist_remove_by_data_x(l, d) ==
  LET end == Removed(list[l], d) IN
  /\ cell' = end.cell /\ list' = [list EXCEPT ![l] = end.out]
  /\ malloced' = malloced \ end.gone
  /\ Returns([op |-> "remove_by_data", l |-> l, d |-> d], end.given)

\* walk is the cell with the index, tmp the one before it.
slist_remove_by_index_x(l, index) ==
  LET walk == Follow(list[l])[index]
      tmp  == Follow(list[l])[index - 1]
      c    == [op |-> "remove_by_index", l |-> l, i |-> index]
  IN \/ /\ index \notin Steps(list[l])
        /\ UNCHANGED <<cell, malloced, list>> /\ Returns(c, <<>>)
     \/ /\ index \in Steps(list[l])
        /\ IF index = 0
           THEN list' = [list EXCEPT ![l] = cell[walk].next] /\ UNCHANGED cell
           ELSE cell' = [cell EXCEPT ![tmp].next = cell[walk].next] /\ UNCHANGED list
        /\ malloced' = malloced \ {walk}
        /\ Returns(c, <<cell[walk].data>>)

slist_delete_all_x(l) ==
  /\ malloced' = malloced \ CellSet(list[l]) /\ UNCHANGED cell
  /\ list' = [list EXCEPT ![l] = NULL]
  /\ Returns([op |-> "delete_all", l |-> l], slist_work(list[l]))

\* added_list hangs at the end of list; the caller forgets its own name for it.
slist_concat(l, m) ==
  LET walk == slist_last(list[l]) IN
  /\ l # m
  /\ IF walk = NULL THEN list' = [list EXCEPT ![l] = list[m], ![m] = NULL] /\ UNCHANGED cell
     ELSE /\ cell' = [cell EXCEPT ![walk].next = list[m]]
          /\ list' = [list EXCEPT ![m] = NULL]
  /\ UNCHANGED malloced
  /\ Returns([op |-> "concat", l |-> l, m |-> m], <<>>)

slist_sort(l) ==
  /\ cell' = Sorted(list[l]) /\ UNCHANGED <<malloced, list>>
  /\ Returns([op |-> "sort", l |-> l], <<>>)

\* The calls that only read.
ReadList(l) ==
  /\ UNCHANGED <<cell, malloced, list>>
  /\ \/ Returns([op |-> "size", l |-> l], <<slist_size(list[l])>>)
     \/ Returns([op |-> "work", l |-> l], slist_work(list[l]))
     \/ Returns([op |-> "last", l |-> l],
                LET p == slist_last(list[l]) IN IF p = NULL THEN <<>> ELSE <<cell[p].data>>)
     \/ \E d \in ListData :
          \/ Returns([op |-> "index", l |-> l, d |-> d], <<slist_index(list[l], d)>>)
          \/ Returns([op |-> "find", l |-> l, d |-> d],
                     LET p == slist_find(list[l], d) IN
                     IF p = NULL THEN <<>> ELSE <<StepOf(list[l], p)>>)
     \/ \E i \in Positions :
          Returns([op |-> "nth_data", l |-> l, i |-> i], slist_nth_data(list[l], i))

SListNext ==
  /\ ~listEnded
  /\ \E l \in Lists :
       \/ slist_delete_all_x(l) \/ slist_sort(l) \/ ReadList(l)
       \/ \E d \in ListData :
            \/ slist_append(l, d) \/ slist_prepend(l, d) \/ slist_remove_by_data_x(l, d)
            \/ \E i \in Positions : slist_insert_index(l, d, i)
            \/ \E at \in ListData : slist_insert(l, d, at)
       \/ \E i \in Positions : slist_remove_by_index_x(l, i)
       \/ \E m \in Lists : slist_concat(l, m)

SListSpec == SListInit /\ [][SListNext]_sListVars

-----------------------------------------------------------------------------

\* Memory is neither leaked nor used after it was freed: the allocated cells
\* are those of the lists, and no cell belongs to two of them (the frees at
\* slist.c 47, 57, 95, 101 and 121, and the links around them).
EveryCellInOneList ==
  /\ malloced = UNION {CellSet(list[l]) : l \in Lists}
  /\ \A l, m \in Lists : l # m => CellSet(list[l]) \cap CellSet(list[m]) = {}

Seqs == INSTANCE ItemList
  WITH Names <- Lists, seqs <- [l \in Lists |-> slist_work(list[l])],
       call <- listCall, ret <- listRet, ended <- listEnded

\* Every function of slist.c returns the list, the item or the number that
\* slist.h says, whatever calls were made before (ItemList).
ListIsSequence == Seqs!ListSpec
=============================================================================
