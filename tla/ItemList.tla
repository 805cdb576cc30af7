------------------------------ MODULE ItemList ------------------------------
(***************************************************************************)
(* What the functions of slist.h promise: a list is a sequence of items,   *)
(* and every call has one result.  A call that finds no memory leaves the  *)
(* list as it was, except slist_prepend, which ends the program.           *)
(***************************************************************************)
EXTENDS Integers, Sequences

CONSTANT Names   \* the lists a program has

VARIABLES seqs,  \* the items of each list
          call,  \* the last call
          ret,   \* what it returned, or gave to release_data
          ended  \* the program was ended by a call

absVars == <<seqs, call, ret, ended>>

Drop(s, i)   == SubSeq(s, 1, i) \o SubSeq(s, i + 2, Len(s))   \* i from 0
Put(s, i, d) == SubSeq(s, 1, i) \o <<d>> \o SubSeq(s, i + 1, Len(s))
Values(s)    == {s[i] : i \in 1 .. Len(s)}
Places(s, d) == {i \in 1 .. Len(s) : s[i] = d}
First(s, d)  == CHOOSE i \in Places(s, d) : \A j \in Places(s, d) : i <= j
Has(s, d)    == Places(s, d) # {}

\* The items of s that are in S, in their order.
Only(s, S) ==
  LET upTo[i \in Nat] ==
        IF i = 0 THEN <<>> ELSE IF s[i] \in S THEN Append(upTo[i - 1], s[i]) ELSE upTo[i - 1]
  IN upTo[Len(s)]

\* The items of s in ascending order: each place of s once, the smaller item first.
IsOrder(p, s) == /\ \A i, j \in DOMAIN s : i # j => p[i] # p[j]
                 /\ \A i, j \in DOMAIN s : i <= j => s[p[i]] <= s[p[j]]
Orders(s) ==
  {[i \in DOMAIN s |-> s[p[i]]] : p \in {q \in [DOMAIN s -> DOMAIN s] : IsOrder(q, s)}}

\* The list after a call that changes it.
After(s, c) ==
  CASE c.op = "append"  -> Append(s, c.d)
    [] c.op = "prepend" -> <<c.d>> \o s
    [] c.op = "insert_index" ->
         Put(s, IF c.i \in 0 .. Len(s) THEN c.i ELSE Len(s), c.d)
    [] c.op = "insert" -> IF Has(s, c.at) THEN Put(s, First(s, c.at), c.d) ELSE s
    [] c.op = "remove_by_data"  -> Only(s, Values(s) \ {c.d})
    [] c.op = "remove_by_index" -> IF c.i \in 0 .. Len(s) - 1 THEN Drop(s, c.i) ELSE s
    [] c.op = "delete_all" -> <<>>
    [] OTHER -> s

\* What a call returns: an item, a number, or the items released.
Result(s, c) ==
  CASE c.op = "remove_by_data"  -> Only(s, {c.d})
    [] c.op = "remove_by_index" -> IF c.i \in 0 .. Len(s) - 1 THEN <<s[c.i + 1]>> ELSE <<>>
    [] c.op \in {"delete_all", "work"} -> s
    [] c.op = "find"  -> IF Has(s, c.d) THEN <<First(s, c.d) - 1>> ELSE <<>>
    [] c.op = "index" -> <<IF Has(s, c.d) THEN First(s, c.d) - 1 ELSE -1>>
    [] c.op = "size"  -> <<Len(s)>>
    [] c.op = "nth_data" ->
         LET i == IF c.i < 0 THEN 1 ELSE c.i + 1 IN
         IF i <= Len(s) THEN <<s[i]>> ELSE <<>>
    [] c.op = "last" -> IF s = <<>> THEN <<>> ELSE <<s[Len(s)]>>
    [] OTHER -> <<>>

Answered(c) ==
  /\ \/ c.op = "concat" /\ seqs' = [seqs EXCEPT ![c.l] = @ \o seqs[c.m], ![c.m] = <<>>]
     \/ c.op = "sort" /\ \E t \in Orders(seqs[c.l]) : seqs' = [seqs EXCEPT ![c.l] = t]
     \/ c.op \notin {"concat", "sort"} /\ seqs' = [seqs EXCEPT ![c.l] = After(@, c)]
  /\ ret' = Result(seqs[c.l], c) /\ ended' = FALSE

NoMemory(c) ==
  /\ c.op \in {"append", "prepend", "insert", "insert_index"}
  /\ ret' = <<>> /\ UNCHANGED seqs
  /\ ended' = (c.op = "prepend" \/ (c.op = "insert_index" /\ c.i = 0))

ListInit == seqs = [l \in Names |-> <<>>] /\ ret = <<>> /\ ~ended

ListStep == ~ended /\ call'.op # "none" /\ (Answered(call') \/ NoMemory(call'))

ListSpec == ListInit /\ [][ListStep]_absVars
=============================================================================
