------------------------------- MODULE DataProofs -------------------------------
(***************************************************************************)
(* Proofs about the data structures, for every size.  The lists of slist.c *)
(* stay chains of cells that own every cell allocated, and each program    *)
(* over them does to a sequence what it says; the numbers of the unary     *)
(* calculator are computed right and freed once.  The ring buffers of one  *)
(* count (ring3) and of bytes (ring2) implement the queues they promise,   *)
(* and ring1 keeps what was appended.                                      *)
(***************************************************************************)
EXTENDS Rings, SList, UnaryCalc, SequenceTheorems, FiniteSetTheorems,
        NaturalsInduction, WellFoundedInduction, TLAPS

\* A set of natural numbers that is not empty has a least one.
LEMMA LeastNat ==
  ASSUME NEW T, T \subseteq Nat, T # {}
  PROVE  \E x \in T : \A y \in T : x <= y
<1>1. PICK x \in T : \A y \in T : <<y, x>> \notin OpToRel(<, Nat)
  BY WFMin, NatLessThanWellFounded
<1>2. \A y \in T : ~(y < x)
  BY <1>1 DEF OpToRel
<1> QED BY <1>2

\* f gives the states of a loop after each of its turns; the i-th turn may look at i.
IsLoop(f, x, turn, U) ==
  /\ f = [i \in Nat |-> IF i = 0 THEN x ELSE turn[i][f[i - 1]]]
  /\ \A i \in Nat : f[i] \in U

\* A loop has states.
LEMMA LoopExists ==
  ASSUME NEW U, NEW x \in U, NEW turn, \A i \in Nat : \A u \in U : turn[i][u] \in U
  PROVE  \E f : IsLoop(f, x, turn, U)
<1> DEFINE Runs(g, n) == /\ g[0] = x /\ \A i \in 1 .. n : g[i] = turn[i][g[i - 1]]
                         /\ \A i \in 0 .. n : g[i] \in U
           none  == {n \in Nat : ~\E g : Runs(g, n)}
           twice == {n \in Nat : \E g, h : Runs(g, n) /\ Runs(h, n) /\ g[n] # h[n]}
<1>1. ASSUME NEW n \in Nat, NEW g, Runs(g, n)
      PROVE  \E h : Runs(h, n + 1)
  <2> DEFINE h == [i \in 0 .. n + 1 |-> IF i <= n THEN g[i] ELSE turn[n + 1][g[n]]]
  <2>1. h[0] = x /\ \A i \in 0 .. n : h[i] = g[i]
    BY <1>1
  <2>2. h[n + 1] = turn[n + 1][g[n]] /\ h[n + 1] \in U
    BY <1>1
  <2> HIDE DEF h
  <2>3. \A i \in 1 .. n + 1 : h[i] = turn[i][h[i - 1]]
    BY <1>1, <2>1, <2>2
  <2>4. \A i \in 0 .. n + 1 : h[i] \in U
    BY <1>1, <2>1, <2>2
  <2> QED BY <2>1, <2>3, <2>4
<1>2. \E g : Runs(g, 0)
  <2>1. Runs([i \in 0 .. 0 |-> x], 0)
    OBVIOUS
  <2> HIDE DEF Runs
  <2> QED BY <2>1
<1>3. none = {}
  <2> HIDE DEF Runs
  <2> SUFFICES ASSUME none # {} PROVE FALSE
    OBVIOUS
  <2>1. PICK n \in none : \A m \in none : n <= m
    BY LeastNat
  <2>2. n \in Nat /\ n # 0
    BY <1>2
  <2>3. n - 1 \in Nat /\ n - 1 \notin none
    BY <2>1, <2>2
  <2>4. PICK g : Runs(g, n - 1)
    BY <2>3
  <2>5. n - 1 + 1 = n
    BY <2>2
  <2> QED BY <1>1, <2>3, <2>4, <2>5
<1>4. twice = {}
  <2> SUFFICES ASSUME twice # {} PROVE FALSE
    OBVIOUS
  <2>1. PICK n \in twice : \A m \in twice : n <= m
    <3> HIDE DEF Runs
    <3> QED BY LeastNat
  <2>2. PICK g, h : Runs(g, n) /\ Runs(h, n) /\ g[n] # h[n]
    <3> HIDE DEF Runs
    <3> QED BY <2>1
  <2>3. n \in Nat /\ n # 0
    BY <2>2
  <2>4. Runs(g, n - 1) /\ Runs(h, n - 1)
    BY <2>2, <2>3
  <2>5. g[n - 1] = h[n - 1]
    <3>1. n - 1 \in Nat /\ n - 1 \notin twice
      <4> HIDE DEF Runs, twice
      <4> QED BY <2>1, <2>3
    <3> HIDE DEF Runs
    <3> QED BY <2>4, <3>1
  <2> QED BY <2>2, <2>3, <2>5
<1> DEFINE run(n) == CHOOSE g : Runs(g, n)
           f == [i \in Nat |-> run(i)[i]]
<1>5. ASSUME NEW n \in Nat PROVE Runs(run(n), n)
  <2> HIDE DEF Runs
  <2> QED BY <1>3
<1>6. f[0] = x
  BY <1>5
<1>7. ASSUME NEW i \in Nat, i # 0 PROVE f[i] = turn[i][f[i - 1]]
  <2>1. i - 1 \in Nat /\ Runs(run(i), i) /\ Runs(run(i - 1), i - 1)
    <3> HIDE DEF Runs, run
    <3> QED BY <1>5, <1>7
  <2> HIDE DEF run
  <2>2. Runs(run(i), i - 1)
    BY <2>1
  <2>3. run(i)[i - 1] = run(i - 1)[i - 1]
    <3> HIDE DEF Runs
    <3>1. i - 1 \notin twice
      BY <1>4
    <3> QED BY <2>1, <2>2, <3>1
  <2>4. run(i)[i] = turn[i][run(i)[i - 1]]
    BY <2>1, <1>7
  <2>5. f[i] = run(i)[i] /\ f[i - 1] = run(i - 1)[i - 1]
    BY <2>1
  <2> QED BY <2>3, <2>4, <2>5
<1>8. \A i \in Nat : f[i] \in U
  <2> HIDE DEF run
  <2>1. \A i \in Nat : run(i)[i] \in U
    BY <1>5
  <2> QED BY <2>1
<1>9. f = [i \in Nat |-> IF i = 0 THEN x ELSE turn[i][f[i - 1]]]
  <2>1. f = [i \in Nat |-> f[i]]
    OBVIOUS
  <2> HIDE DEF f
  <2> QED BY <1>6, <1>7, <2>1
<1> QED BY <1>8, <1>9 DEF IsLoop


\* Induction on the elements of a set.
LEMMA AllNats ==
  ASSUME NEW T, 0 \in T, \A n \in Nat : n \in T => n + 1 \in T
  PROVE  \A n \in Nat : n \in T
<1> DEFINE off == {n \in Nat : n \notin T}
<1> SUFFICES ASSUME off # {} PROVE FALSE
  OBVIOUS
<1>1. PICK n \in off : \A m \in off : n <= m
  BY LeastNat
<1>2. n \in Nat /\ n # 0 /\ n \notin T
  OBVIOUS
<1>3. n - 1 \in Nat /\ n - 1 \in T /\ n - 1 + 1 = n
  BY <1>1, <1>2
<1> QED BY <1>2, <1>3

-----------------------------------------------------------------------------
(* The singly linked list: chains of cells.                                *)

Pointers == Cells \cup {NULL}
Heaps    == [Cells -> [data : ListData \cup {NULL}, next : Pointers]]

\* The i-th item of s, NULL outside.
At(s, i) == IF i \in 1 .. Len(s) THEN s[i] ELSE NULL

\* The cells from p on are those of s, each one once.
IsChain(h, p, s) ==
  /\ s \in Seq(Cells) /\ p = At(s, 1)
  /\ \A i \in 1 .. Len(s) : h[s[i]].next = At(s, i + 1) /\ h[s[i]].data \in ListData
  /\ \A i, j \in 1 .. Len(s) : s[i] = s[j] => i = j

CellsOf(s)  == {s[i] : i \in 1 .. Len(s)}
Items(h, s) == [i \in 1 .. Len(s) |-> h[s[i]].data]

\* The loop over next.
LEMMA FollowNext ==
  \A p \in Pointers : cell \in Heaps =>
    /\ Follow(p)[0] = p
    /\ \A i \in Nat : Follow(p)[i + 1] = NextOf(Follow(p)[i])
<1> SUFFICES ASSUME NEW p \in Pointers, cell \in Heaps
             PROVE  /\ Follow(p)[0] = p
                    /\ \A i \in Nat : Follow(p)[i + 1] = NextOf(Follow(p)[i])
  OBVIOUS
<1> DEFINE F == [i \in Nat |-> [c \in Pointers |-> NextOf(c)]]
<1>1. \A i \in Nat : \A c \in Pointers : F[i][c] \in Pointers
  BY DEF NextOf, Heaps, Pointers
<1>2. PICK f : IsLoop(f, p, F, Pointers)
  <2> HIDE DEF F
  <2> QED BY <1>1, LoopExists
<1>3. f = [i \in Nat |-> IF i = 0 THEN p ELSE NextOf(f[i - 1])]
  <2>1. \A i \in Nat : i # 0 => F[i][f[i - 1]] = NextOf(f[i - 1])
    BY <1>2 DEF IsLoop
  <2> HIDE DEF F
  <2> QED BY <1>2, <2>1 DEF IsLoop
<1> DEFINE walk == CHOOSE g : g = [i \in Nat |-> IF i = 0 THEN p ELSE NextOf(g[i - 1])]
<1>4. walk = [i \in Nat |-> IF i = 0 THEN p ELSE NextOf(walk[i - 1])]
  BY <1>3
<1>5. Follow(p) = walk
  BY DEF Follow
<1> HIDE DEF walk
<1> QED BY <1>4, <1>5

\* It passes the cells of the chain, then stays at NULL.
LEMMA FollowChain ==
  \A p, s : cell \in Heaps /\ IsChain(cell, p, s) =>
    \A i \in Nat : Follow(p)[i] = At(s, i + 1)
<1> SUFFICES ASSUME NEW p, NEW s, cell \in Heaps, IsChain(cell, p, s)
             PROVE  \A i \in Nat : Follow(p)[i] = At(s, i + 1)
  OBVIOUS
<1> DEFINE off == {i \in Nat : Follow(p)[i] # At(s, i + 1)}
<1>1. p \in Pointers
  BY DEF IsChain, At, Pointers
<1>2. off = {}
  <2> SUFFICES ASSUME off # {} PROVE FALSE
    OBVIOUS
  <2>1. PICK n \in off : \A m \in off : n <= m
    BY LeastNat
  <2>2. n \in Nat /\ Follow(p)[n] # At(s, n + 1)
    OBVIOUS
  <2>3. n # 0
    BY <1>1, <2>2, FollowNext DEF IsChain
  <2>4. n - 1 \in Nat /\ n - 1 \notin off
    BY <2>1, <2>2, <2>3
  <2>5. Follow(p)[n - 1] = At(s, n)
    BY <2>2, <2>4
  <2>6. Follow(p)[n] = NextOf(At(s, n))
    <3>1. n - 1 + 1 = n
      BY <2>2
    <3> QED BY <1>1, <2>4, <2>5, <3>1, FollowNext
  <2>7. NextOf(At(s, n)) = At(s, n + 1)
    <3>1. CASE n <= Len(s)
      <4>1. n \in 1 .. Len(s) /\ Len(s) \in Nat
        BY <2>2, <2>3, <3>1 DEF IsChain
      <4>2. At(s, n) = s[n] /\ s[n] \in Cells
        BY <4>1 DEF At, IsChain
      <4> QED BY <4>1, <4>2, SListAssumption DEF NextOf, IsChain
    <3>2. CASE ~(n <= Len(s))
      BY <2>2, <2>3, <3>2 DEF At, NextOf, IsChain
    <3> QED BY <3>1, <3>2
  <2> QED BY <2>2, <2>6, <2>7
<1> QED BY <1>2

\* A chain is no longer than the memory, so the loops over it end.
LEMMA ChainFits ==
  ASSUME NEW h, NEW p, NEW s, IsChain(h, p, s)
  PROVE  Len(s) \in 0 .. Cardinality(Cells)
<1> SUFFICES ASSUME Len(s) > Cardinality(Cells) PROVE FALSE
  BY SListAssumption, FS_CardinalityType DEF IsChain
<1>1. IsFiniteSet(1 .. Len(s)) /\ Cardinality(1 .. Len(s)) = Len(s)
  <2>1. Len(s) \in Nat
    BY DEF IsChain
  <2> QED BY <2>1, FS_Interval
<1>2. s \in [1 .. Len(s) -> Cells]
  BY DEF IsChain
<1>3. \E i, j \in 1 .. Len(s) : i # j /\ s[i] = s[j]
  BY <1>1, <1>2, SListAssumption, FS_PigeonHole
<1> QED BY <1>3 DEF IsChain

\* What the functions that read a list find when it is the chain s.
LEMMA ChainReads ==
  \A p, s : cell \in Heaps /\ IsChain(cell, p, s) =>
    /\ \A i \in Nat : Follow(p)[i] = At(s, i + 1)
    /\ slist_size(p) = Len(s) /\ Steps(p) = 0 .. Len(s) - 1
    /\ CellSet(p) = CellsOf(s) /\ slist_work(p) = Items(cell, s)
    /\ slist_last(p) = At(s, Len(s))
<1> SUFFICES ASSUME NEW p, NEW s, cell \in Heaps, IsChain(cell, p, s)
             PROVE  /\ \A i \in Nat : Follow(p)[i] = At(s, i + 1)
                    /\ slist_size(p) = Len(s) /\ Steps(p) = 0 .. Len(s) - 1
                    /\ CellSet(p) = CellsOf(s) /\ slist_work(p) = Items(cell, s)
                    /\ slist_last(p) = At(s, Len(s))
  OBVIOUS
<1>1. \A i \in Nat : Follow(p)[i] = At(s, i + 1)
  BY FollowChain
<1>2. /\ Len(s) \in Nat /\ Len(s) \in 0 .. Cardinality(Cells)
      /\ \A i \in 1 .. Len(s) : s[i] \in Cells /\ s[i] # NULL /\ At(s, i) = s[i]
      /\ At(s, Len(s) + 1) = NULL
  BY ChainFits, SListAssumption DEF IsChain, At
<1>3. slist_size(p) = Len(s)
  <2> DEFINE Ends(n) == Follow(p)[n] = NULL /\ \A i \in 0 .. n - 1 : Follow(p)[i] # NULL
  <2>1. Ends(Len(s))
    <3>1. \A i \in 0 .. Len(s) - 1 : i \in Nat /\ i + 1 \in 1 .. Len(s)
      BY <1>2
    <3> QED BY <1>1, <1>2, <3>1
  <2>2. \A n \in 0 .. Cardinality(Cells) : Ends(n) => n = Len(s)
    <3> SUFFICES ASSUME NEW n \in 0 .. Cardinality(Cells), Ends(n) PROVE n = Len(s)
      OBVIOUS
    <3>1. Cardinality(Cells) \in Nat /\ n \in Nat
      BY SListAssumption, FS_CardinalityType
    <3>2. ~(n < Len(s))
      <4> SUFFICES ASSUME n < Len(s) PROVE FALSE
        OBVIOUS
      <4>1. n + 1 \in 1 .. Len(s)
        BY <1>2, <3>1
      <4> QED BY <1>1, <1>2, <3>1, <4>1
    <3>3. ~(Len(s) < n)
      BY <1>2, <2>1, <3>1
    <3> QED BY <1>2, <3>1, <3>2, <3>3
  <2>3. slist_size(p) = CHOOSE n \in 0 .. Cardinality(Cells) : Ends(n)
    BY DEF slist_size
  <2> HIDE DEF Ends
  <2> QED BY <1>2, <2>1, <2>2, <2>3
<1>4. Steps(p) = 0 .. Len(s) - 1
  BY <1>3 DEF Steps
<1>5. CellSet(p) = CellsOf(s)
  <2>1. ASSUME NEW i \in 0 .. Len(s) - 1 PROVE Follow(p)[i] \in CellsOf(s)
    <3>1. i + 1 \in 1 .. Len(s) /\ i \in Nat
      BY <1>2
    <3> QED BY <1>1, <1>2, <3>1 DEF CellsOf
  <2>2. ASSUME NEW i \in 1 .. Len(s) PROVE s[i] \in CellSet(p)
    <3>1. i - 1 \in 0 .. Len(s) - 1 /\ i - 1 \in Nat /\ i - 1 + 1 = i
      BY <1>2
    <3> QED BY <1>1, <1>2, <1>4, <3>1 DEF CellSet
  <2> QED BY <1>4, <2>1, <2>2 DEF CellSet, CellsOf
<1>6. slist_work(p) = Items(cell, s)
  <2>1. \A i \in 1 .. Len(s) : Follow(p)[i - 1] = s[i]
    <3> SUFFICES ASSUME NEW i \in 1 .. Len(s) PROVE Follow(p)[i - 1] = s[i]
      OBVIOUS
    <3>1. i - 1 \in Nat /\ i - 1 + 1 = i
      BY <1>2
    <3> QED BY <1>1, <1>2, <3>1
  <2> QED BY <1>3, <2>1 DEF slist_work, Items
<1>7. slist_last(p) = At(s, Len(s))
  <2>1. CASE Len(s) = 0
    BY <1>2, <2>1 DEF slist_last, At, IsChain
  <2>2. CASE Len(s) # 0
    <3>1. p # NULL
      BY <1>2, <2>2 DEF IsChain
    <3>2. Len(s) - 1 \in Nat /\ Len(s) - 1 + 1 = Len(s)
      BY <1>2, <2>2
    <3> QED BY <1>1, <1>3, <3>1, <3>2 DEF slist_last
  <2> QED BY <2>1, <2>2
<1> QED BY <1>1, <1>3, <1>4, <1>5, <1>6, <1>7

\* Where the searches end: at the first place of the item.
LEMMA ChainFinds ==
  \A p, s : cell \in Heaps /\ IsChain(cell, p, s) =>
    \A d : LET x == Items(cell, s) IN
      IF Seqs!Has(x, d)
      THEN /\ StepsWith(p, d) # {} /\ Seqs!First(x, d) \in 1 .. Len(s)
           /\ FirstStep(p, d) = Seqs!First(x, d) - 1
           /\ slist_find(p, d) = s[Seqs!First(x, d)]
      ELSE StepsWith(p, d) = {} /\ slist_find(p, d) = NULL
<1> SUFFICES ASSUME NEW p, NEW s, cell \in Heaps, IsChain(cell, p, s), NEW d
             PROVE  LET x == Items(cell, s) IN
                    IF Seqs!Has(x, d)
                    THEN /\ StepsWith(p, d) # {} /\ Seqs!First(x, d) \in 1 .. Len(s)
                         /\ FirstStep(p, d) = Seqs!First(x, d) - 1
                         /\ slist_find(p, d) = s[Seqs!First(x, d)]
                    ELSE StepsWith(p, d) = {} /\ slist_find(p, d) = NULL
  OBVIOUS
<1> DEFINE x == Items(cell, s)
           f == Seqs!First(x, d)
<1>1. /\ \A i \in Nat : Follow(p)[i] = At(s, i + 1)
      /\ Steps(p) = 0 .. Len(s) - 1
  BY ChainReads
<1>2. /\ Len(s) \in Nat /\ Len(x) = Len(s) /\ DOMAIN x = 1 .. Len(s)
      /\ \A i \in 1 .. Len(s) : x[i] = cell[s[i]].data
  <2>1. Len(s) \in Nat
    BY DEF IsChain
  <2> QED BY <2>1 DEF Items
<1> HIDE DEF x
<1>3. Seqs!Places(x, d) = {i \in 1 .. Len(s) : cell[s[i]].data = d}
  BY <1>2 DEF Seqs!Places
<1>4. StepsWith(p, d) = {i \in 0 .. Len(s) - 1 : i + 1 \in Seqs!Places(x, d)}
  <2>1. \A i \in 0 .. Len(s) - 1 : i \in Nat /\ i + 1 \in 1 .. Len(s) /\ At(s, i + 1) = s[i + 1]
    BY <1>2 DEF At
  <2> QED BY <1>1, <1>3, <2>1 DEF StepsWith
<1>5. CASE ~Seqs!Has(x, d)
  BY <1>4, <1>5 DEF Seqs!Has, slist_find, x
<1>6. CASE Seqs!Has(x, d)
  <2>1. Seqs!Places(x, d) # {} /\ Seqs!Places(x, d) \subseteq Nat
    BY <1>3, <1>6 DEF Seqs!Has
  <2>2. \E i \in Seqs!Places(x, d) : \A j \in Seqs!Places(x, d) : i <= j
    BY <2>1, LeastNat
  <2>3. f \in Seqs!Places(x, d) /\ \A j \in Seqs!Places(x, d) : f <= j
    BY <2>2 DEF Seqs!First
  <2> HIDE DEF f
  <2>4. f \in 1 .. Len(s) /\ f - 1 \in 0 .. Len(s) - 1 /\ f - 1 + 1 = f /\ f - 1 \in Nat
    BY <1>2, <1>3, <2>3
  <2>5. f - 1 \in StepsWith(p, d)
    BY <1>4, <2>3, <2>4
  <2>6. \A j \in StepsWith(p, d) : f - 1 <= j
    BY <1>2, <1>4, <2>3, <2>4
  <2>7. FirstStep(p, d) = f - 1
    <3>1. \A i, j \in StepsWith(p, d) : i <= j /\ j <= i => i = j
      BY <1>2, <1>4
    <3> QED BY <2>5, <2>6, <3>1 DEF FirstStep
  <2>8. Follow(p)[f - 1] = s[f]
    BY <1>1, <2>4 DEF At
  <2>9. slist_find(p, d) = s[f]
    BY <2>5, <2>7, <2>8 DEF slist_find
  <2> QED BY <1>6, <2>4, <2>5, <2>7, <2>9 DEF f, x
<1> QED BY <1>5, <1>6 DEF x

\* The step at which a cell of the chain is passed.
LEMMA ChainStep ==
  \A p, s : cell \in Heaps /\ IsChain(cell, p, s) =>
    \A i \in 1 .. Len(s) : StepOf(p, s[i]) = i - 1
<1> SUFFICES ASSUME NEW p, NEW s, cell \in Heaps, IsChain(cell, p, s), NEW i \in 1 .. Len(s)
             PROVE  StepOf(p, s[i]) = i - 1
  OBVIOUS
<1>1. /\ \A j \in Nat : Follow(p)[j] = At(s, j + 1)
      /\ Steps(p) = 0 .. Len(s) - 1
  BY ChainReads
<1>2. Len(s) \in Nat /\ \A j, k \in 1 .. Len(s) : s[j] = s[k] => j = k
  BY DEF IsChain
<1>3. \A j \in Steps(p) : j + 1 \in 1 .. Len(s) /\ Follow(p)[j] = s[j + 1]
  <2> SUFFICES ASSUME NEW j \in 0 .. Len(s) - 1
               PROVE  j + 1 \in 1 .. Len(s) /\ Follow(p)[j] = s[j + 1]
    BY <1>1
  <2>1. j \in Nat /\ j + 1 \in 1 .. Len(s)
    BY <1>2
  <2> QED BY <1>1, <2>1 DEF At
<1>4. ASSUME NEW j \in Steps(p) PROVE Follow(p)[j] = s[i] <=> j = i - 1
  <2>1. j \in 0 .. Len(s) - 1 /\ j + 1 \in 1 .. Len(s) /\ Follow(p)[j] = s[j + 1]
    BY <1>1, <1>3
  <2>2. s[j + 1] = s[i] <=> j + 1 = i
    BY <1>2, <2>1
  <2> QED BY <1>2, <2>1, <2>2
<1>5. i - 1 \in Steps(p)
  BY <1>1, <1>2
<1> QED BY <1>4, <1>5 DEF StepOf

\* r is s with c behind the i-th item.
IsPut(S, s, i, c, r) ==
  /\ r \in Seq(S) /\ Len(r) = Len(s) + 1
  /\ \A j \in 1 .. Len(s) + 1 :
       r[j] = IF j <= i THEN s[j] ELSE IF j = i + 1 THEN c ELSE s[j - 1]

\* Put makes it.
LEMMA PutFacts ==
  ASSUME NEW S, NEW s \in Seq(S), NEW i \in 0 .. Len(s), NEW c \in S
  PROVE  IsPut(S, s, i, c, Seqs!Put(s, i, c))
<1> DEFINE a == SubSeq(s, 1, i)
           b == SubSeq(s, i + 1, Len(s))
<1>1. /\ Len(s) \in Nat /\ i \in Nat
      /\ \A j \in 1 .. Len(s) : s[j] \in S
  OBVIOUS
<1>2. a \in Seq(S) /\ Len(a) = i /\ \A j \in 1 .. i : a[j] = s[j]
  <2>1. \A j \in 1 .. i : s[j] \in S
    BY <1>1
  <2> QED BY <1>1, <2>1, SubSeqProperties
<1>3. b \in Seq(S) /\ Len(b) = Len(s) - i /\ \A j \in 1 .. Len(s) - i : b[j] = s[i + j]
  <2>1. i + 1 \in Int /\ Len(s) \in Int /\ \A j \in i + 1 .. Len(s) : s[j] \in S
    BY <1>1
  <2>2. /\ b \in Seq(S) /\ Len(b) = IF i + 1 <= Len(s) THEN Len(s) - (i + 1) + 1 ELSE 0
        /\ \A j \in 1 .. Len(s) - (i + 1) + 1 : b[j] = s[i + 1 + j - 1]
    BY <2>1, SubSeqProperties
  <2>3. Len(b) = Len(s) - i /\ Len(s) - (i + 1) + 1 = Len(s) - i
    BY <1>1, <2>2
  <2>4. \A j \in 1 .. Len(s) - i : i + 1 + j - 1 = i + j
    BY <1>1
  <2> HIDE DEF b
  <2> QED BY <2>2, <2>3, <2>4
<1> HIDE DEF a, b
<1>4. /\ a \o <<c>> \in Seq(S) /\ Len(a \o <<c>>) = i + 1
      /\ \A j \in 1 .. i + 1 : (a \o <<c>>)[j] = IF j <= i THEN s[j] ELSE c
  <2>1. <<c>> \in Seq(S) /\ Len(<<c>>) = 1 /\ <<c>>[1] = c
    OBVIOUS
  <2>2. /\ a \o <<c>> \in Seq(S) /\ Len(a \o <<c>>) = i + 1
        /\ \A j \in 1 .. i + 1 : (a \o <<c>>)[j] = IF j <= i THEN a[j] ELSE <<c>>[j - i]
    BY <1>2, <2>1, ConcatProperties
  <2>3. \A j \in 1 .. i + 1 : ~(j <= i) => j - i = 1
    BY <1>1
  <2>4. \A j \in 1 .. i + 1 : j <= i => a[j] = s[j]
    BY <1>2
  <2> QED BY <2>1, <2>2, <2>3, <2>4
<1> DEFINE e == a \o <<c>>
<1> HIDE DEF e
<1>5. /\ e \o b \in Seq(S) /\ Len(e \o b) = Len(s) + 1
      /\ \A j \in 1 .. Len(s) + 1 : (e \o b)[j] = IF j <= i + 1 THEN e[j] ELSE b[j - (i + 1)]
  <2>1. /\ e \o b \in Seq(S) /\ Len(e \o b) = Len(e) + Len(b)
        /\ \A j \in 1 .. Len(e) + Len(b) :
             (e \o b)[j] = IF j <= Len(e) THEN e[j] ELSE b[j - Len(e)]
    BY <1>3, <1>4, ConcatProperties DEF e
  <2>2. Len(e) = i + 1
    BY <1>4 DEF e
  <2>3. Len(e) + Len(b) = Len(s) + 1
    BY <1>1, <1>3, <2>2
  <2> QED BY <2>1, <2>2, <2>3
<1>6. Seqs!Put(s, i, c) = e \o b
  BY DEF Seqs!Put, a, b, e
<1>7. ASSUME NEW j \in 1 .. Len(s) + 1
      PROVE  (e \o b)[j] = IF j <= i THEN s[j] ELSE IF j = i + 1 THEN c ELSE s[j - 1]
  <2>1. CASE j <= i + 1
    <3>1. j \in 1 .. i + 1 /\ (~(j <= i) => j = i + 1)
      BY <1>1, <2>1
    <3> QED BY <1>4, <1>5, <2>1, <3>1 DEF e
  <2>2. CASE ~(j <= i + 1)
    <3>1. j - (i + 1) \in 1 .. Len(s) - i /\ i + (j - (i + 1)) = j - 1 /\ ~(j <= i) /\ j # i + 1
      BY <1>1, <2>2
    <3>2. (e \o b)[j] = b[j - (i + 1)]
      BY <1>5, <2>2
    <3>3. b[j - (i + 1)] = s[j - 1]
      BY <1>3, <3>1
    <3> QED BY <3>1, <3>2, <3>3
  <2> QED BY <2>1, <2>2
<1>a. PICK r : r = e \o b
  OBVIOUS
<1>8. IsPut(S, s, i, c, r)
  BY <1>5, <1>7, <1>a DEF IsPut
<1>9. Seqs!Put(s, i, c) = r
  BY <1>6, <1>a
<1> QED BY <1>8, <1>9

\* A sequence without the item behind the i-th.
LEMMA DropFacts ==
  ASSUME NEW S, NEW s \in Seq(S), NEW i \in 0 .. Len(s) - 1
  PROVE  /\ Seqs!Drop(s, i) \in Seq(S) /\ Len(Seqs!Drop(s, i)) = Len(s) - 1
         /\ \A j \in 1 .. Len(s) - 1 : Seqs!Drop(s, i)[j] = IF j <= i THEN s[j] ELSE s[j + 1]
<1> DEFINE a == SubSeq(s, 1, i)
           b == SubSeq(s, i + 2, Len(s))
<1>1. /\ Len(s) \in Nat /\ i \in Nat /\ i + 2 \in Int
      /\ \A j \in 1 .. Len(s) : s[j] \in S
  OBVIOUS
<1>2. a \in Seq(S) /\ Len(a) = i /\ \A j \in 1 .. i : a[j] = s[j]
  <2>1. \A j \in 1 .. i : s[j] \in S
    BY <1>1
  <2> QED BY <1>1, <2>1, SubSeqProperties
<1>3. /\ b \in Seq(S) /\ Len(b) = Len(s) - 1 - i
      /\ \A j \in 1 .. Len(s) - 1 - i : b[j] = s[i + 1 + j]
  <2>1. \A j \in i + 2 .. Len(s) : s[j] \in S
    BY <1>1
  <2>2. /\ b \in Seq(S) /\ Len(b) = IF i + 2 <= Len(s) THEN Len(s) - (i + 2) + 1 ELSE 0
        /\ \A j \in 1 .. Len(s) - (i + 2) + 1 : b[j] = s[i + 2 + j - 1]
    BY <1>1, <2>1, SubSeqProperties
  <2>3. Len(b) = Len(s) - 1 - i /\ Len(s) - (i + 2) + 1 = Len(s) - 1 - i
    BY <1>1, <2>2
  <2>4. \A j \in 1 .. Len(s) - 1 - i : i + 2 + j - 1 = i + 1 + j
    BY <1>1
  <2> HIDE DEF b
  <2> QED BY <2>2, <2>3, <2>4
<1> HIDE DEF a, b
<1>4. /\ a \o b \in Seq(S) /\ Len(a \o b) = Len(s) - 1
      /\ \A j \in 1 .. Len(s) - 1 : (a \o b)[j] = IF j <= i THEN a[j] ELSE b[j - i]
  <2>1. /\ a \o b \in Seq(S) /\ Len(a \o b) = Len(a) + Len(b)
        /\ \A j \in 1 .. Len(a) + Len(b) :
             (a \o b)[j] = IF j <= Len(a) THEN a[j] ELSE b[j - Len(a)]
    BY <1>2, <1>3, ConcatProperties
  <2>2. Len(a) = i /\ Len(a) + Len(b) = Len(s) - 1
    BY <1>1, <1>2, <1>3
  <2> QED BY <2>1, <2>2
<1>5. Seqs!Drop(s, i) = a \o b
  BY DEF Seqs!Drop, a, b
<1>6. ASSUME NEW j \in 1 .. Len(s) - 1
      PROVE  (a \o b)[j] = IF j <= i THEN s[j] ELSE s[j + 1]
  <2>1. CASE j <= i
    <3>1. j \in 1 .. i
      BY <1>1, <2>1
    <3> QED BY <1>2, <1>4, <2>1, <3>1
  <2>2. CASE ~(j <= i)
    <3>1. j - i \in 1 .. Len(s) - 1 - i /\ i + 1 + (j - i) = j + 1
      BY <1>1, <2>2
    <3> QED BY <1>3, <1>4, <2>2, <3>1
  <2> QED BY <2>1, <2>2
<1> QED BY <1>4, <1>5, <1>6

\* What the definition of a chain says of its places.
LEMMA ChainPlaces ==
  ASSUME NEW h, NEW p, NEW s, IsChain(h, p, s)
  PROVE  /\ s \in Seq(Cells) /\ Len(s) \in Nat /\ p = At(s, 1)
         /\ \A i \in 1 .. Len(s) : /\ s[i] \in Cells /\ s[i] # NULL /\ s[i] \in CellsOf(s)
                                   /\ h[s[i]].next = At(s, i + 1) /\ h[s[i]].data \in ListData
         /\ \A i, j \in 1 .. Len(s) : s[i] = s[j] => i = j
         /\ CellsOf(s) \subseteq Cells
BY SListAssumption DEF IsChain, CellsOf

\* The items of a chain.
LEMMA ItemsFacts ==
  ASSUME NEW h, NEW p, NEW s, IsChain(h, p, s)
  PROVE  /\ Items(h, s) \in Seq(ListData) /\ Len(Items(h, s)) = Len(s)
         /\ \A i \in 1 .. Len(s) : Items(h, s)[i] = h[s[i]].data
<1>1. Len(s) \in Nat /\ \A i \in 1 .. Len(s) : h[s[i]].data \in ListData
  BY DEF IsChain
<1> QED BY <1>1 DEF Items

\* A chain whose cells do not change stays, with its items.
LEMMA ChainStays ==
  ASSUME NEW h, NEW g, NEW p, NEW s, IsChain(h, p, s), \A c \in CellsOf(s) : g[c] = h[c]
  PROVE  IsChain(g, p, s) /\ Items(g, s) = Items(h, s)
<1>1. \A i \in 1 .. Len(s) : g[s[i]] = h[s[i]]
  BY DEF CellsOf
<1> QED BY <1>1 DEF IsChain, Items

\* A new cell goes behind the i-th.
LEMMA PutChain ==
  ASSUME NEW h, NEW g, NEW p, NEW s, IsChain(h, p, s),
         NEW i \in 0 .. Len(s), NEW c \in Cells \ CellsOf(s), NEW d \in ListData,
         g[c] = [data |-> d, next |-> At(s, i + 1)],
         i > 0 => g[s[i]].next = c /\ g[s[i]].data = h[s[i]].data,
         \A b \in CellsOf(s) : (i > 0 => b # s[i]) => g[b] = h[b]
  PROVE  /\ IsChain(g, IF i = 0 THEN c ELSE p, Seqs!Put(s, i, c))
         /\ Items(g, Seqs!Put(s, i, c)) = Seqs!Put(Items(h, s), i, d)
         /\ CellsOf(Seqs!Put(s, i, c)) = CellsOf(s) \cup {c}
<1> DEFINE t == Seqs!Put(s, i, c)
           x == Items(h, s)
           n == Len(s) + 1
<1>1. /\ s \in Seq(Cells) /\ Len(s) \in Nat /\ p = At(s, 1) /\ n \in Nat /\ i \in Nat
      /\ \A k \in 1 .. Len(s) : /\ s[k] \in Cells /\ s[k] # NULL /\ s[k] \in CellsOf(s)
                                /\ h[s[k]].next = At(s, k + 1) /\ h[s[k]].data \in ListData
      /\ \A k, j \in 1 .. Len(s) : s[k] = s[j] => k = j
  BY ChainPlaces
<1>2. /\ t \in Seq(Cells) /\ Len(t) = n
      /\ \A j \in 1 .. n : t[j] = IF j <= i THEN s[j] ELSE IF j = i + 1 THEN c ELSE s[j - 1]
  <2>1. IsPut(Cells, s, i, c, Seqs!Put(s, i, c))
    BY <1>1, PutFacts
  <2> QED BY <2>1 DEF IsPut
<1>3. x \in Seq(ListData) /\ Len(x) = Len(s) /\ \A j \in 1 .. Len(s) : x[j] = h[s[j]].data
  BY ItemsFacts
<1>4. /\ Seqs!Put(x, i, d) \in Seq(ListData) /\ Len(Seqs!Put(x, i, d)) = n
      /\ \A j \in 1 .. n : Seqs!Put(x, i, d)[j] =
           IF j <= i THEN x[j] ELSE IF j = i + 1 THEN d ELSE x[j - 1]
  <2> HIDE DEF x
  <2>1. i \in 0 .. Len(x) /\ Len(x) + 1 = n
    BY <1>3
  <2>2. /\ Seqs!Put(x, i, d) \in Seq(ListData) /\ Len(Seqs!Put(x, i, d)) = Len(x) + 1
        /\ \A j \in 1 .. Len(x) + 1 : Seqs!Put(x, i, d)[j] =
             IF j <= i THEN x[j] ELSE IF j = i + 1 THEN d ELSE x[j - 1]
    <3>1. x \in Seq(ListData) /\ d \in ListData
      BY <1>3
    <3>2. IsPut(ListData, x, i, d, Seqs!Put(x, i, d))
      BY <2>1, <3>1, PutFacts
    <3> QED BY <3>2 DEF IsPut
  <2> HIDE DEF n
  <2> QED BY <2>1, <2>2
<1> HIDE DEF t, x, n
<1>5. \A j \in 1 .. n : \/ j <= i /\ j \in 1 .. Len(s) /\ t[j] = s[j]
                        \/ j = i + 1 /\ t[j] = c
                        \/ j > i + 1 /\ j - 1 \in 1 .. Len(s) /\ t[j] = s[j - 1]
  BY <1>1, <1>2 DEF n
<1>6. \A j \in 1 .. Len(s) : i = 0 \/ j # i => g[s[j]] = h[s[j]]
  <2> SUFFICES ASSUME NEW j \in 1 .. Len(s), i = 0 \/ j # i PROVE g[s[j]] = h[s[j]]
    OBVIOUS
  <2>1. s[j] \in CellsOf(s) /\ (i > 0 => s[j] # s[i])
    BY <1>1
  <2> QED BY <2>1
<1>7. \A j \in 1 .. Len(s) : g[s[j]].data = h[s[j]].data
  BY <1>1, <1>6
<1>8. g[c].data = d /\ g[c].next = At(s, i + 1)
  OBVIOUS
<1>9. ASSUME NEW j \in 1 .. n
      PROVE  g[t[j]].data = Seqs!Put(x, i, d)[j] /\ g[t[j]].data \in ListData
  <2>1. CASE j <= i /\ j \in 1 .. Len(s) /\ t[j] = s[j]
    BY <1>1, <1>3, <1>4, <1>7, <2>1
  <2>2. CASE j = i + 1 /\ t[j] = c
    <3>1. ~(j <= i)
      BY <1>1, <2>2
    <3> QED BY <1>4, <1>8, <2>2, <3>1
  <2>3. CASE j > i + 1 /\ j - 1 \in 1 .. Len(s) /\ t[j] = s[j - 1]
    <3>1. ~(j <= i) /\ j # i + 1
      BY <1>1, <2>3
    <3> QED BY <1>1, <1>3, <1>4, <1>7, <2>3, <3>1
  <2> QED BY <1>5, <2>1, <2>2, <2>3
<1>10. ASSUME NEW j \in 1 .. n PROVE g[t[j]].next = At(t, j + 1)
  <2>1. CASE j < i
    <3>1. j \in 1 .. Len(s) /\ j # i /\ t[j] = s[j] /\ j + 1 \in 1 .. Len(s) /\ j + 1 \in 1 .. n
      BY <1>1, <1>5, <2>1 DEF n
    <3>2. t[j + 1] = s[j + 1]
      BY <1>1, <1>2, <2>1, <3>1
    <3> QED BY <1>1, <1>2, <1>6, <3>1, <3>2 DEF At
  <2>2. CASE j = i
    <3>1. i > 0 /\ t[j] = s[i] /\ j + 1 \in 1 .. n /\ ~(j + 1 <= i) /\ j + 1 = i + 1
      BY <1>1, <1>5, <2>2 DEF n
    <3>2. t[j + 1] = c
      BY <1>2, <3>1
    <3> QED BY <1>2, <3>1, <3>2 DEF At
  <2>3. CASE j = i + 1
    <3>1. t[j] = c /\ ~(j + 1 <= i) /\ j + 1 # i + 1 /\ j + 1 - 1 = i + 1
      BY <1>1, <1>2, <2>3
    <3>2. j + 1 \in 1 .. n <=> i + 1 \in 1 .. Len(s)
      BY <1>1, <2>3 DEF n
    <3>3. At(t, j + 1) = At(s, i + 1)
      BY <1>2, <3>1, <3>2 DEF At
    <3> QED BY <1>8, <3>1, <3>3
  <2>4. CASE j > i + 1
    <3>1. /\ j - 1 \in 1 .. Len(s) /\ j - 1 # i /\ t[j] = s[j - 1] /\ j - 1 + 1 = j
          /\ ~(j + 1 <= i) /\ j + 1 # i + 1 /\ j + 1 - 1 = j
      BY <1>1, <1>5, <2>4 DEF n
    <3>2. g[t[j]].next = At(s, j)
      BY <1>1, <1>6, <3>1
    <3>3. j + 1 \in 1 .. n <=> j \in 1 .. Len(s)
      BY <1>1, <2>4 DEF n
    <3>4. At(t, j + 1) = At(s, j)
      BY <1>2, <3>1, <3>3 DEF At
    <3> QED BY <3>2, <3>4
  <2> QED BY <1>1, <2>1, <2>2, <2>3, <2>4
<1>11. ASSUME NEW j \in 1 .. n, NEW k \in 1 .. n, t[j] = t[k] PROVE j = k
  <2>1. \A m \in 1 .. Len(s) : s[m] # c
    BY <1>1
  <2> QED BY <1>1, <1>5, <1>11, <2>1
<1>12. (IF i = 0 THEN c ELSE p) = At(t, 1)
  <2>1. 1 \in 1 .. n /\ (i # 0 => 1 <= i /\ 1 \in 1 .. Len(s))
    BY <1>1 DEF n
  <2> QED BY <1>1, <1>2, <2>1 DEF At
<1>13. IsChain(g, IF i = 0 THEN c ELSE p, t)
  BY <1>2, <1>9, <1>10, <1>11, <1>12 DEF IsChain
<1>14. Items(g, t) = Seqs!Put(x, i, d)
  <2>1. Items(g, t) \in Seq(ListData) /\ Len(Items(g, t)) = n
    BY <1>2, <1>13, ItemsFacts
  <2>2. \A j \in 1 .. n : Items(g, t)[j] = Seqs!Put(x, i, d)[j]
    BY <1>2, <1>9 DEF Items
  <2> QED BY <1>4, <2>1, <2>2, SeqEqual
<1>15. CellsOf(t) = CellsOf(s) \cup {c}
  <2>1. \A j \in 1 .. n : t[j] \in CellsOf(s) \cup {c}
    BY <1>1, <1>5
  <2>2. c = t[i + 1] /\ i + 1 \in 1 .. n
    BY <1>1, <1>2 DEF n
  <2>3. ASSUME NEW j \in 1 .. Len(s) PROVE \E k \in 1 .. n : s[j] = t[k]
    <3>1. CASE j <= i
      <4>1. j \in 1 .. n
        BY <1>1 DEF n
      <4> QED BY <1>2, <3>1, <4>1
    <3>2. CASE ~(j <= i)
      <4>1. j + 1 \in 1 .. n /\ ~(j + 1 <= i) /\ j + 1 # i + 1 /\ j + 1 - 1 = j
        BY <1>1, <3>2 DEF n
      <4> QED BY <1>2, <4>1
    <3> QED BY <3>1, <3>2
  <2> QED BY <1>2, <2>1, <2>2, <2>3 DEF CellsOf
<1> QED BY <1>13, <1>14, <1>15 DEF t, x

\* The cell behind the i-th leaves a chain.
LEMMA DropChain ==
  ASSUME NEW h, NEW g, NEW p, NEW s, IsChain(h, p, s), NEW i \in 0 .. Len(s) - 1,
         i > 0 => g[s[i]].next = h[s[i + 1]].next /\ g[s[i]].data = h[s[i]].data,
         \A b \in CellsOf(s) : (i > 0 => b # s[i]) => g[b] = h[b]
  PROVE  /\ IsChain(g, IF i = 0 THEN h[s[1]].next ELSE p, Seqs!Drop(s, i))
         /\ Items(g, Seqs!Drop(s, i)) = Seqs!Drop(Items(h, s), i)
         /\ CellsOf(Seqs!Drop(s, i)) = CellsOf(s) \ {s[i + 1]}
<1> DEFINE t == Seqs!Drop(s, i)
           x == Items(h, s)
           n == Len(s) - 1
<1>1. /\ s \in Seq(Cells) /\ Len(s) \in Nat /\ p = At(s, 1) /\ n \in Nat /\ i \in Nat
      /\ \A k \in 1 .. Len(s) : /\ s[k] \in Cells /\ s[k] # NULL /\ s[k] \in CellsOf(s)
                                /\ h[s[k]].next = At(s, k + 1) /\ h[s[k]].data \in ListData
      /\ \A k, j \in 1 .. Len(s) : s[k] = s[j] => k = j
      /\ i + 1 \in 1 .. Len(s)
  <2>1. Len(s) \in Nat /\ n \in Nat /\ i \in Nat /\ i + 1 \in 1 .. Len(s)
    BY ChainPlaces
  <2> QED BY <2>1, ChainPlaces
<1>2. /\ t \in Seq(Cells) /\ Len(t) = n
      /\ \A j \in 1 .. n : t[j] = IF j <= i THEN s[j] ELSE s[j + 1]
  BY <1>1, DropFacts
<1>3. x \in Seq(ListData) /\ Len(x) = Len(s) /\ \A j \in 1 .. Len(s) : x[j] = h[s[j]].data
  BY ItemsFacts
<1>4. /\ Seqs!Drop(x, i) \in Seq(ListData) /\ Len(Seqs!Drop(x, i)) = n
      /\ \A j \in 1 .. n : Seqs!Drop(x, i)[j] = IF j <= i THEN x[j] ELSE x[j + 1]
  <2> HIDE DEF x
  <2>1. i \in 0 .. Len(x) - 1 /\ Len(x) - 1 = n
    BY <1>3
  <2> HIDE DEF n
  <2> QED BY <1>3, <2>1, DropFacts
<1> HIDE DEF t, x, n
<1>5. \A j \in 1 .. n : \/ j <= i /\ j \in 1 .. Len(s) /\ t[j] = s[j]
                        \/ j > i /\ j + 1 \in 1 .. Len(s) /\ t[j] = s[j + 1]
  BY <1>1, <1>2 DEF n
<1>6. \A j \in 1 .. Len(s) : i = 0 \/ j # i => g[s[j]] = h[s[j]]
  <2> SUFFICES ASSUME NEW j \in 1 .. Len(s), i = 0 \/ j # i PROVE g[s[j]] = h[s[j]]
    OBVIOUS
  <2>1. s[j] \in CellsOf(s) /\ (i > 0 => s[j] # s[i])
    BY <1>1
  <2> QED BY <2>1
<1>7. \A j \in 1 .. Len(s) : g[s[j]].data = h[s[j]].data
  BY <1>1, <1>6
<1>8. ASSUME NEW j \in 1 .. n
      PROVE  g[t[j]].data = Seqs!Drop(x, i)[j] /\ g[t[j]].data \in ListData
  <2>1. CASE j <= i /\ j \in 1 .. Len(s) /\ t[j] = s[j]
    BY <1>1, <1>3, <1>4, <1>7, <2>1
  <2>2. CASE j > i /\ j + 1 \in 1 .. Len(s) /\ t[j] = s[j + 1]
    <3>1. ~(j <= i)
      BY <1>1, <2>2
    <3> QED BY <1>1, <1>3, <1>4, <1>7, <2>2, <3>1
  <2> QED BY <1>5, <2>1, <2>2
<1>9. \A k \in Nat : k >= i => At(t, k + 1) = At(s, k + 2)
  <2> SUFFICES ASSUME NEW k \in Nat, k >= i PROVE At(t, k + 1) = At(s, k + 2)
    OBVIOUS
  <2>1. (k + 1 \in 1 .. n <=> k + 2 \in 1 .. Len(s)) /\ ~(k + 1 <= i) /\ k + 1 + 1 = k + 2
    BY <1>1 DEF n
  <2> QED BY <1>2, <2>1 DEF At
<1>10. ASSUME NEW j \in 1 .. n PROVE g[t[j]].next = At(t, j + 1)
  <2>1. CASE j < i
    <3>0. j \in Nat /\ i <= n /\ j >= 1 /\ n < Len(s)
      BY <1>1 DEF n
    <3>1. j \in 1 .. Len(s) /\ j # i /\ t[j] = s[j] /\ j + 1 \in 1 .. Len(s) /\ j + 1 \in 1 .. n
      <4>1. i \in Nat /\ n \in Nat /\ Len(s) \in Nat
        BY <1>1 DEF n
      <4>2. ~(j > i) /\ j # i
        BY <2>1, <3>0, <4>1
      <4>3. j \in 1 .. Len(s) /\ t[j] = s[j]
        BY <1>5, <4>2
      <4>4. j + 1 \in 1 .. Len(s) /\ j + 1 \in 1 .. n
        BY <2>1, <3>0, <4>1
      <4> QED BY <4>2, <4>3, <4>4
    <3>2. t[j + 1] = s[j + 1]
      BY <1>1, <1>2, <2>1, <3>1
    <3> QED BY <1>1, <1>2, <1>6, <3>1, <3>2 DEF At
  <2>2. CASE j = i
    <3>1. i > 0 /\ t[j] = s[i] /\ i + 1 + 1 = i + 2 /\ i >= i
      BY <1>1, <1>5, <2>2
    <3>2. g[t[j]].next = At(s, i + 2)
      BY <1>1, <3>1
    <3> QED BY <1>1, <1>9, <2>2, <3>1, <3>2
  <2>3. CASE j > i
    <3>1. j + 1 \in 1 .. Len(s) /\ j + 1 # i /\ t[j] = s[j + 1] /\ j + 1 + 1 = j + 2 /\ j >= i
          /\ j \in Nat
      BY <1>1, <1>5, <2>3
    <3> QED BY <1>1, <1>6, <1>9, <3>1
  <2> QED BY <1>1, <2>1, <2>2, <2>3
<1>11. ASSUME NEW j \in 1 .. n, NEW k \in 1 .. n, t[j] = t[k] PROVE j = k
  BY <1>1, <1>5, <1>11
<1>12. (IF i = 0 THEN h[s[1]].next ELSE p) = At(t, 1)
  <2>1. CASE i = 0
    <3>1. 1 \in 1 .. Len(s) /\ 0 + 1 = 1 /\ 0 + 2 = 1 + 1 /\ 0 \in Nat /\ 0 >= i
      BY <1>1, <2>1
    <3>2. At(t, 1) = At(s, 1 + 1)
      BY <1>9, <3>1
    <3> QED BY <1>1, <2>1, <3>1, <3>2
  <2>2. CASE i # 0
    <3>1. 1 \in 1 .. n /\ 1 <= i /\ 1 \in 1 .. Len(s)
      BY <1>1, <2>2 DEF n
    <3> QED BY <1>1, <1>2, <2>2, <3>1 DEF At
  <2> QED BY <2>1, <2>2
<1>13. IsChain(g, IF i = 0 THEN h[s[1]].next ELSE p, t)
  BY <1>2, <1>8, <1>10, <1>11, <1>12 DEF IsChain
<1>14. Items(g, t) = Seqs!Drop(x, i)
  <2>1. Items(g, t) \in Seq(ListData) /\ Len(Items(g, t)) = n
    BY <1>2, <1>13, ItemsFacts
  <2>2. \A j \in 1 .. n : Items(g, t)[j] = Seqs!Drop(x, i)[j]
    BY <1>2, <1>8 DEF Items
  <2> QED BY <1>4, <2>1, <2>2, SeqEqual
<1>15. CellsOf(t) = CellsOf(s) \ {s[i + 1]}
  <2>1. ASSUME NEW j \in 1 .. n PROVE t[j] \in CellsOf(s) \ {s[i + 1]}
    <3>1. CASE j <= i /\ j \in 1 .. Len(s) /\ t[j] = s[j]
      <4>1. j # i + 1
        BY <1>1, <3>1
      <4> QED BY <1>1, <3>1, <4>1
    <3>2. CASE j > i /\ j + 1 \in 1 .. Len(s) /\ t[j] = s[j + 1]
      <4>1. j + 1 # i + 1
        BY <1>1, <3>2
      <4> QED BY <1>1, <3>2, <4>1
    <3> QED BY <1>5, <3>1, <3>2
  <2>2. ASSUME NEW j \in 1 .. Len(s), s[j] # s[i + 1] PROVE \E k \in 1 .. n : s[j] = t[k]
    <3>1. CASE j <= i
      <4>1. j \in 1 .. n
        BY <1>1, <3>1 DEF n
      <4> QED BY <1>2, <3>1, <4>1
    <3>2. CASE ~(j <= i)
      <4>0. j # i + 1
        BY <2>2
      <4>1. j - 1 \in 1 .. n /\ ~(j - 1 <= i) /\ j - 1 + 1 = j
        BY <1>1, <3>2, <4>0 DEF n
      <4> QED BY <1>2, <4>1
    <3> QED BY <3>1, <3>2
  <2> QED BY <1>2, <2>1, <2>2 DEF CellsOf
<1> QED BY <1>13, <1>14, <1>15 DEF t, x

\* From h to g, only the last cell of s changes its next, to q.
Linked(h, g, s, q, B) ==
  /\ Len(s) > 0 => g[s[Len(s)]].next = q /\ g[s[Len(s)]].data = h[s[Len(s)]].data
  /\ \A b \in B : (Len(s) > 0 => b # s[Len(s)]) => g[b] = h[b]

\* A chain hangs at the end of another.
LEMMA ConcatChain ==
  ASSUME NEW h, NEW g, NEW p, NEW s, NEW q, NEW t, IsChain(h, p, s), IsChain(h, q, t),
         CellsOf(s) \cap CellsOf(t) = {}, Linked(h, g, s, q, CellsOf(s) \cup CellsOf(t))
  PROVE  /\ IsChain(g, IF Len(s) = 0 THEN q ELSE p, s \o t)
         /\ Items(g, s \o t) = Items(h, s) \o Items(h, t)
         /\ CellsOf(s \o t) = CellsOf(s) \cup CellsOf(t)
<1> DEFINE u == s \o t
           x == Items(h, s)
           y == Items(h, t)
           m == Len(s)
           n == Len(s) + Len(t)
<1>1. /\ s \in Seq(Cells) /\ m \in Nat /\ p = At(s, 1)
      /\ \A k \in 1 .. m : /\ s[k] \in Cells /\ s[k] # NULL /\ s[k] \in CellsOf(s)
                           /\ h[s[k]].next = At(s, k + 1) /\ h[s[k]].data \in ListData
      /\ \A k, j \in 1 .. m : s[k] = s[j] => k = j
  BY ChainPlaces
<1>2. /\ t \in Seq(Cells) /\ Len(t) \in Nat /\ q = At(t, 1)
      /\ \A k \in 1 .. Len(t) : /\ t[k] \in Cells /\ t[k] # NULL /\ t[k] \in CellsOf(t)
                                /\ h[t[k]].next = At(t, k + 1) /\ h[t[k]].data \in ListData
      /\ \A k, j \in 1 .. Len(t) : t[k] = t[j] => k = j
  BY ChainPlaces
<1>3. /\ u \in Seq(Cells) /\ Len(u) = n
      /\ \A j \in 1 .. n : u[j] = IF j <= m THEN s[j] ELSE t[j - m]
  BY <1>1, <1>2, ConcatProperties
<1>4. /\ x \in Seq(ListData) /\ Len(x) = m /\ \A j \in 1 .. m : x[j] = h[s[j]].data
      /\ y \in Seq(ListData) /\ Len(y) = Len(t) /\ \A j \in 1 .. Len(t) : y[j] = h[t[j]].data
  BY ItemsFacts
<1> HIDE DEF x, y, u
<1>5. /\ x \o y \in Seq(ListData) /\ Len(x \o y) = n
      /\ \A j \in 1 .. n : (x \o y)[j] = IF j <= m THEN x[j] ELSE y[j - m]
  <2>1. /\ x \o y \in Seq(ListData) /\ Len(x \o y) = Len(x) + Len(y)
        /\ \A j \in 1 .. Len(x) + Len(y) : (x \o y)[j] = IF j <= Len(x) THEN x[j] ELSE y[j - Len(x)]
    <3>1. x \in Seq(ListData) /\ y \in Seq(ListData)
      BY <1>4
    <3> QED BY <3>1, ConcatProperties
  <2>2. Len(x) = m /\ Len(x) + Len(y) = n
    BY <1>4
  <2> HIDE DEF m, n
  <2> QED BY <2>1, <2>2
<1>6. n = m + Len(t) /\ n \in Nat
  BY <1>1, <1>2
<1>a. /\ m > 0 => g[s[m]].next = q /\ g[s[m]].data = h[s[m]].data
      /\ \A b \in CellsOf(s) \cup CellsOf(t) : (m > 0 => b # s[m]) => g[b] = h[b]
  BY DEF Linked
<1>7. \A j \in 1 .. m : j # m => g[s[j]] = h[s[j]]
  BY <1>1, <1>a
<1>8. \A j \in 1 .. Len(t) : g[t[j]] = h[t[j]]
  <2>1. \A j \in 1 .. Len(t) : t[j] \notin CellsOf(s)
    BY <1>2
  <2>2. m > 0 => s[m] \in CellsOf(s)
    BY <1>1
  <2> QED BY <1>2, <1>a, <2>1, <2>2
<1>9. m > 0 => g[s[m]].next = q /\ g[s[m]].data = h[s[m]].data
  BY <1>a
<1> HIDE DEF m, n
<1>10. \A j \in 1 .. n : \/ j <= m /\ j \in 1 .. m /\ u[j] = s[j]
                         \/ j > m /\ j - m \in 1 .. Len(t) /\ u[j] = t[j - m]
  BY <1>1, <1>2, <1>3, <1>6
<1>11. ASSUME NEW j \in 1 .. n
       PROVE  g[u[j]].data = (x \o y)[j] /\ g[u[j]].data \in ListData
  <2>1. CASE j <= m /\ j \in 1 .. m /\ u[j] = s[j]
    <3>1. g[s[j]].data = h[s[j]].data
      BY <1>1, <1>7, <1>9, <2>1
    <3> QED BY <1>1, <1>4, <1>5, <2>1, <3>1
  <2>2. CASE j > m /\ j - m \in 1 .. Len(t) /\ u[j] = t[j - m]
    <3>1. ~(j <= m)
      BY <1>1, <2>2
    <3> QED BY <1>2, <1>4, <1>5, <1>8, <2>2, <3>1
  <2> QED BY <1>10, <2>1, <2>2
<1>12. \A k \in Nat : At(u, m + k + 1) = At(t, k + 1)
  <2> SUFFICES ASSUME NEW k \in Nat PROVE At(u, m + k + 1) = At(t, k + 1)
    OBVIOUS
  <2>1. /\ (m + k + 1 \in 1 .. n <=> k + 1 \in 1 .. Len(t))
        /\ ~(m + k + 1 <= m) /\ (m + k + 1) - m = k + 1
    BY <1>1, <1>2, <1>6
  <2> DEFINE j == m + k + 1
  <2>2. (j \in 1 .. n <=> k + 1 \in 1 .. Len(t)) /\ ~(j <= m) /\ j - m = k + 1
    BY <2>1
  <2> HIDE DEF j
  <2>3. At(u, j) = At(t, k + 1)
    BY <1>3, <2>2 DEF At
  <2> QED BY <2>3 DEF j
<1>13. ASSUME NEW j \in 1 .. n PROVE g[u[j]].next = At(u, j + 1)
  <2>1. CASE j < m
    <3>1. j \in 1 .. m /\ j # m /\ u[j] = s[j] /\ j + 1 \in 1 .. m /\ j + 1 \in 1 .. n /\ j + 1 <= m
      BY <1>1, <1>2, <1>6, <1>10, <2>1
    <3>2. u[j + 1] = s[j + 1]
      BY <1>3, <3>1
    <3> QED BY <1>1, <1>3, <1>7, <3>1, <3>2 DEF At, m
  <2>2. CASE j = m
    <3>1. m > 0 /\ u[j] = s[m] /\ m + 0 + 1 = j + 1 /\ 0 + 1 = 1
      BY <1>1, <1>10, <2>2
    <3> QED BY <1>2, <1>9, <1>12, <3>1
  <2>3. CASE j > m
    <3>1. j - m \in 1 .. Len(t) /\ u[j] = t[j - m] /\ j - m \in Nat /\ m + (j - m) + 1 = j + 1
      BY <1>1, <1>2, <1>6, <1>10, <2>3
    <3>2. At(u, m + (j - m) + 1) = At(t, j - m + 1)
      BY <1>12, <3>1
    <3> QED BY <1>2, <1>8, <3>1, <3>2
  <2> QED BY <1>1, <2>1, <2>2, <2>3
<1>14. ASSUME NEW j \in 1 .. n, NEW k \in 1 .. n, u[j] = u[k] PROVE j = k
  <2>1. \A a \in 1 .. m, b \in 1 .. Len(t) : s[a] # t[b]
    BY <1>1, <1>2
  <2>2. CASE j <= m /\ k <= m
    BY <1>1, <1>10, <1>14, <2>2
  <2>3. CASE j > m /\ k > m
    <3>1. j - m = k - m
      BY <1>1, <1>2, <1>10, <1>14, <2>3
    <3> QED BY <1>1, <3>1
  <2>4. CASE (j <= m /\ k > m) \/ (j > m /\ k <= m)
    BY <1>1, <1>10, <1>14, <2>1, <2>4
  <2> QED BY <1>1, <2>2, <2>3, <2>4
<1>15. (IF m = 0 THEN q ELSE p) = At(u, 1)
  <2>1. CASE m = 0
    <3>1. m + 0 + 1 = 1 /\ 0 + 1 = 1
      BY <2>1
    <3>2. At(u, 1) = At(t, 1)
      BY <1>12, <3>1
    <3> QED BY <1>2, <2>1, <3>2
  <2>2. CASE m # 0
    <3>1. 1 \in 1 .. m /\ 1 \in 1 .. n /\ 1 <= m
      BY <1>1, <1>2, <1>6, <2>2
    <3> QED BY <1>1, <1>3, <2>2, <3>1 DEF At, m
  <2> QED BY <2>1, <2>2
<1>16. IsChain(g, IF m = 0 THEN q ELSE p, u)
  BY <1>3, <1>11, <1>13, <1>14, <1>15 DEF IsChain
<1>17. Items(g, u) = x \o y
  <2>1. Items(g, u) \in Seq(ListData) /\ Len(Items(g, u)) = n
    BY <1>3, <1>16, ItemsFacts
  <2>2. \A j \in 1 .. n : Items(g, u)[j] = (x \o y)[j]
    BY <1>3, <1>11 DEF Items
  <2> QED BY <1>5, <2>1, <2>2, SeqEqual
<1>18. CellsOf(u) = CellsOf(s) \cup CellsOf(t)
  <2>1. \A j \in 1 .. n : u[j] \in CellsOf(s) \cup CellsOf(t)
    BY <1>1, <1>2, <1>10
  <2>2. ASSUME NEW j \in 1 .. m PROVE \E k \in 1 .. n : s[j] = u[k]
    <3>1. j \in 1 .. n /\ j <= m
      BY <1>1, <1>2, <1>6
    <3> QED BY <1>3, <3>1
  <2>3. ASSUME NEW j \in 1 .. Len(t) PROVE \E k \in 1 .. n : t[j] = u[k]
    <3>1. m + j \in 1 .. n /\ ~(m + j <= m) /\ (m + j) - m = j
      BY <1>1, <1>2, <1>6
    <3> DEFINE k == m + j
    <3>2. k \in 1 .. n /\ ~(k <= m) /\ k - m = j
      BY <3>1
    <3> HIDE DEF k
    <3> QED BY <1>3, <3>2
  <2>4. CellsOf(u) = {u[k] : k \in 1 .. n}
    BY <1>3 DEF CellsOf
  <2>5. CellsOf(s) = {s[j] : j \in 1 .. m} /\ CellsOf(t) = {t[j] : j \in 1 .. Len(t)}
    BY DEF CellsOf, m
  <2>6. CellsOf(u) \subseteq CellsOf(s) \cup CellsOf(t)
    BY <2>1, <2>4
  <2>7. CellsOf(s) \subseteq CellsOf(u)
    BY <2>2, <2>4, <2>5
  <2>8. CellsOf(t) \subseteq CellsOf(u)
    BY <2>3, <2>4, <2>5
  <2> QED BY <2>6, <2>7, <2>8
<1> QED BY <1>16, <1>17, <1>18 DEF u, x, y, m

\* The lists of the caller are the chains cs, and no cell is in two of them or in none.
ListsAre(cs) ==
  /\ cell \in Heaps /\ list \in [Lists -> Pointers] /\ cs \in [Lists -> Seq(Cells)]
  /\ \A l \in Lists : IsChain(cell, list[l], cs[l])
  /\ malloced = UNION {CellsOf(cs[l]) : l \in Lists}
  /\ \A l, m \in Lists : l # m => CellsOf(cs[l]) \cap CellsOf(cs[m]) = {}

AllItems(h, cs) == [l \in Lists |-> Items(h, cs[l])]

\* Steps of ItemList on sequences q that become r.
Answers(q, r, c) ==
  /\ \/ c.op = "concat" /\ r = [q EXCEPT ![c.l] = @ \o q[c.m], ![c.m] = <<>>]
     \/ c.op = "sort" /\ \E t \in Seqs!Orders(q[c.l]) : r = [q EXCEPT ![c.l] = t]
     \/ c.op \notin {"concat", "sort"} /\ r = [q EXCEPT ![c.l] = Seqs!After(@, c)]
  /\ listRet' = Seqs!Result(q[c.l], c) /\ listEnded' = FALSE

Refuses(q, r, c) ==
  /\ c.op \in {"append", "prepend", "insert", "insert_index"}
  /\ listRet' = <<>> /\ r = q
  /\ listEnded' = (c.op = "prepend" \/ (c.op = "insert_index" /\ c.i = 0))

\* What a call does to the chains cs: they are other chains afterwards, and ItemList allows it.
CallDone(cs) ==
  \E ds : /\ ListsAre(ds)' /\ listCall'.op # "none"
          /\ \/ Answers(AllItems(cell, cs), AllItems(cell', ds), listCall')
             \/ Refuses(AllItems(cell, cs), AllItems(cell', ds), listCall')

\* The sequences that the refinement speaks of.
LEMMA WorkIsItems ==
  \A cs : ListsAre(cs) => [l \in Lists |-> slist_work(list[l])] = AllItems(cell, cs)
<1> SUFFICES ASSUME NEW cs, ListsAre(cs)
             PROVE  \A l \in Lists : slist_work(list[l]) = Items(cell, cs[l])
  BY DEF AllItems
<1> QED BY ChainReads DEF ListsAre

\* The cells of the lists.
LEMMA CellsTogether ==
  \A cs : ListsAre(cs) =>
    /\ malloced = UNION {CellSet(list[l]) : l \in Lists}
    /\ \A l, m \in Lists : l # m => CellSet(list[l]) \cap CellSet(list[m]) = {}
<1> SUFFICES ASSUME NEW cs, ListsAre(cs)
             PROVE  \A l \in Lists : CellSet(list[l]) = CellsOf(cs[l])
  BY DEF ListsAre
<1> QED BY ChainReads DEF ListsAre

\* A list becomes another chain, and the cells of the others do not change.
LEMMA OneChain ==
  ASSUME NEW cs, ListsAre(cs), NEW l \in Lists, NEW p, NEW t,
         list' = [list EXCEPT ![l] = p], cell' \in Heaps, IsChain(cell', p, t),
         \A c \in malloced \ CellsOf(cs[l]) : cell'[c] = cell[c],
         CellsOf(t) \cap (malloced \ CellsOf(cs[l])) = {},
         malloced' = (malloced \ CellsOf(cs[l])) \cup CellsOf(t)
  PROVE  /\ ListsAre([cs EXCEPT ![l] = t])'
         /\ AllItems(cell', [cs EXCEPT ![l] = t]) =
              [AllItems(cell, cs) EXCEPT ![l] = Items(cell', t)]
<1> DEFINE ds == [cs EXCEPT ![l] = t]
<1>1. /\ t \in Seq(Cells) /\ p \in Pointers
      /\ cs \in [Lists -> Seq(Cells)] /\ list \in [Lists -> Pointers]
  BY DEF IsChain, At, Pointers, ListsAre
<1>2. ds \in [Lists -> Seq(Cells)] /\ ds[l] = t /\ \A m \in Lists : m # l => ds[m] = cs[m]
  BY <1>1
<1>3. list' \in [Lists -> Pointers] /\ list'[l] = p /\ \A m \in Lists : m # l => list'[m] = list[m]
  BY <1>1
<1>4. \A m \in Lists : m # l => CellsOf(cs[m]) \subseteq malloced \ CellsOf(cs[l])
  BY DEF ListsAre
<1>5. malloced \ CellsOf(cs[l]) = UNION {CellsOf(cs[m]) : m \in Lists \ {l}}
  BY DEF ListsAre
<1> HIDE DEF ds
<1>6. ASSUME NEW m \in Lists, m # l
      PROVE  IsChain(cell', list'[m], ds[m]) /\ Items(cell', ds[m]) = Items(cell, cs[m])
  <2>1. IsChain(cell, list[m], cs[m]) /\ \A c \in CellsOf(cs[m]) : cell'[c] = cell[c]
    BY <1>4, <1>6 DEF ListsAre
  <2>2. IsChain(cell', list[m], cs[m]) /\ Items(cell', cs[m]) = Items(cell, cs[m])
    BY <2>1, ChainStays
  <2> QED BY <1>2, <1>3, <1>6, <2>2
<1>7. \A m \in Lists : IsChain(cell', list'[m], ds[m])
  BY <1>2, <1>3, <1>6
<1>8. malloced' = UNION {CellsOf(ds[m]) : m \in Lists}
  <2>1. UNION {CellsOf(ds[m]) : m \in Lists} =
          CellsOf(ds[l]) \cup UNION {CellsOf(ds[m]) : m \in Lists \ {l}}
    OBVIOUS
  <2>2. \A m \in Lists \ {l} : CellsOf(ds[m]) = CellsOf(cs[m])
    BY <1>2
  <2> QED BY <1>2, <1>5, <2>1, <2>2
<1>9. \A m, k \in Lists : m # k => CellsOf(ds[m]) \cap CellsOf(ds[k]) = {}
  BY <1>2, <1>4 DEF ListsAre
<1>10. ListsAre(ds)'
  BY <1>2, <1>3, <1>7, <1>8, <1>9 DEF ListsAre
<1>11. AllItems(cell', ds) = [AllItems(cell, cs) EXCEPT ![l] = Items(cell', t)]
  BY <1>2, <1>6 DEF AllItems
<1> QED BY <1>10, <1>11 DEF ds

\* The cell that malloc gives belongs to no list.
LEMMA NewCellFree ==
  ASSUME malloced \subseteq Cells, malloced # Cells
  PROVE  NewCell \in Cells /\ NewCell \notin malloced
<1>1. \E c \in Cells \ malloced : \A b \in Cells \ malloced : c <= b
  <2>1. Cells \ malloced \subseteq Nat /\ Cells \ malloced # {}
    BY SListAssumption
  <2> QED BY <2>1, LeastNat
<1> QED BY <1>1 DEF NewCell

\* A cell is added behind the i-th of a list.
LEMMA PutStep1 ==
  ASSUME NEW cs, ListsAre(cs), NEW l \in Lists, NEW i \in 0 .. Len(cs[l]), NEW d \in ListData,
         Malloc, Behind(l, At(cs[l], i), d)
  PROVE  \E ds : /\ ListsAre(ds)'
                 /\ AllItems(cell', ds) = [AllItems(cell, cs) EXCEPT ![l] = Seqs!Put(@, i, d)]
<1>a. PICK c, p : c = NewCell /\ p = list[l]
  OBVIOUS
<1> DEFINE s == cs[l]
           t == Seqs!Put(s, i, c)
           prev == At(s, i)
           first == IF i = 0 THEN c ELSE p
<1>1. /\ IsChain(cell, p, s) /\ CellsOf(s) \subseteq malloced /\ malloced \subseteq Cells
      /\ cell \in Heaps /\ list \in [Lists -> Pointers] /\ p \in Pointers
      /\ cs \in [Lists -> Seq(Cells)]
  BY <1>a DEF ListsAre, IsChain, CellsOf
<1>2. c \in Cells /\ c \notin malloced /\ malloced' = malloced \cup {c}
  BY <1>a, <1>1, NewCellFree DEF Malloc
<1> HIDE DEF s, t
<1>3. /\ s \in Seq(Cells) /\ Len(s) \in Nat /\ p = At(s, 1)
      /\ \A k \in 1 .. Len(s) : /\ s[k] \in Cells /\ s[k] # NULL /\ s[k] \in CellsOf(s)
                                /\ cell[s[k]].next = At(s, k + 1)
  BY <1>1, ChainPlaces
<1>4. i \in 0 .. Len(s) /\ Behind(l, prev, d)
  BY DEF s
<1>5. At(s, i + 1) \in Pointers
  BY <1>3 DEF At, Pointers
<1>6. /\ cell' \in Heaps /\ cell'[c] = [data |-> d, next |-> At(s, i + 1)]
      /\ i > 0 => cell'[s[i]].next = c /\ cell'[s[i]].data = cell[s[i]].data
      /\ \A b \in Cells : b # c /\ (i > 0 => b # s[i]) => cell'[b] = cell[b]
      /\ list' = [list EXCEPT ![l] = first]
  <2>1. CASE i = 0
    <3>1. prev = NULL /\ cell' = [cell EXCEPT ![c] = [data |-> d, next |-> p]]
          /\ list' = [list EXCEPT ![l] = c]
      BY <1>a, <1>3, <1>4, <2>1 DEF At, Behind, FillCell
    <3> QED BY <1>1, <1>2, <1>3, <2>1, <3>1 DEF Heaps, Pointers
  <2>2. CASE i # 0
    <3>1. i \in 1 .. Len(s) /\ prev = s[i] /\ s[i] \in Cells /\ s[i] # NULL /\ s[i] # c
          /\ cell[s[i]].next = At(s, i + 1)
      BY <1>1, <1>2, <1>3, <1>4, <2>2 DEF At
    <3>2. cell' = [[cell EXCEPT ![c] = [data |-> d, next |-> At(s, i + 1)]]
                     EXCEPT ![s[i]].next = c]
          /\ list' = list
      BY <1>a, <1>4, <3>1 DEF Behind, FillCell
    <3>3. list' = [list EXCEPT ![l] = p]
      BY <1>a, <1>1, <3>2
    <3>4. c \in Pointers
      BY <1>2 DEF Pointers
    <3>5. [cell EXCEPT ![c] = [data |-> d, next |-> At(s, i + 1)]] \in Heaps
      BY <1>1, <1>2, <1>5 DEF Heaps
    <3>6. cell' \in Heaps
      BY <3>1, <3>2, <3>4, <3>5 DEF Heaps
    <3>7. \A b \in Cells : cell'[b] = IF b = s[i] THEN [cell[b] EXCEPT !.next = c]
                            ELSE IF b = c THEN [data |-> d, next |-> At(s, i + 1)] ELSE cell[b]
      BY <1>1, <1>2, <3>1, <3>2 DEF Heaps
    <3>8. cell[s[i]] \in [data : ListData \cup {NULL}, next : Pointers]
      BY <1>1, <3>1 DEF Heaps
    <3>9. cell'[s[i]] = [cell[s[i]] EXCEPT !.next = c]
          /\ cell'[c] = [data |-> d, next |-> At(s, i + 1)]
      BY <1>2, <3>1, <3>7
    <3>10. cell'[s[i]].next = c /\ cell'[s[i]].data = cell[s[i]].data
      BY <3>8, <3>9
    <3>11. \A b \in Cells : b # c /\ b # s[i] => cell'[b] = cell[b]
      BY <3>7
    <3> QED BY <2>2, <3>1, <3>3, <3>6, <3>9, <3>10, <3>11
  <2> QED BY <2>1, <2>2
<1>7. /\ IsChain(cell', first, t)
      /\ Items(cell', t) = Seqs!Put(Items(cell, s), i, d)
      /\ CellsOf(t) = CellsOf(s) \cup {c}
  <2>1. \A b \in CellsOf(s) : (i > 0 => b # s[i]) => cell'[b] = cell[b]
    BY <1>1, <1>2, <1>6
  <2>2. c \in Cells \ CellsOf(s)
    BY <1>1, <1>2
  <2>3. i > 0 => cell'[s[i]].next = c /\ cell'[s[i]].data = cell[s[i]].data
    BY <1>6
  <2>4. IsChain(cell, p, s) /\ i \in 0 .. Len(s) /\ d \in ListData
        /\ cell'[c] = [data |-> d, next |-> At(s, i + 1)]
    BY <1>1, <1>4, <1>6
  <2> QED BY <2>1, <2>2, <2>3, <2>4, PutChain DEF t
<1>8. \A b \in malloced \ CellsOf(s) : cell'[b] = cell[b]
  BY <1>1, <1>2, <1>3, <1>6, <1>4
<1>9. CellsOf(t) \cap (malloced \ CellsOf(s)) = {}
      /\ malloced' = (malloced \ CellsOf(s)) \cup CellsOf(t)
  BY <1>1, <1>2, <1>7
<1>10. /\ ListsAre([cs EXCEPT ![l] = t])'
       /\ AllItems(cell', [cs EXCEPT ![l] = t]) = [AllItems(cell, cs) EXCEPT ![l] = Items(cell', t)]
  <2>1. /\ \A b \in malloced \ CellsOf(cs[l]) : cell'[b] = cell[b]
        /\ CellsOf(t) \cap (malloced \ CellsOf(cs[l])) = {}
        /\ malloced' = (malloced \ CellsOf(cs[l])) \cup CellsOf(t)
    BY <1>8, <1>9 DEF s
  <2>2. IsChain(cell', first, t) /\ cell' \in Heaps /\ list' = [list EXCEPT ![l] = first]
    BY <1>6, <1>7
  <2> HIDE DEF first, s, t
  <2> QED BY <2>1, <2>2, OneChain
<1>11. AllItems(cell, cs)[l] = Items(cell, s)
  BY DEF AllItems, s
<1>12. AllItems(cell', [cs EXCEPT ![l] = t]) = [AllItems(cell, cs) EXCEPT ![l] = Seqs!Put(@, i, d)]
  BY <1>7, <1>10, <1>11
<1> QED BY <1>10, <1>12

\* An item put at an end of a sequence.
LEMMA PutAtEnds ==
  ASSUME NEW x \in Seq(ListData), NEW d \in ListData
  PROVE  Seqs!Put(x, Len(x), d) = Append(x, d) /\ Seqs!Put(x, 0, d) = <<d>> \o x
<1>1. Len(x) \in Nat /\ 0 \in 0 .. Len(x) /\ Len(x) \in 0 .. Len(x)
  OBVIOUS
<1>2. Seqs!Put(x, Len(x), d) = Append(x, d)
  <2>a. PICK i : i = Len(x)
    OBVIOUS
  <2> DEFINE y == Seqs!Put(x, i, d)
             z == Append(x, d)
             n == Len(x) + 1
  <2>1. /\ y \in Seq(ListData) /\ Len(y) = n
        /\ \A j \in 1 .. n : y[j] = IF j <= i THEN x[j] ELSE IF j = i + 1 THEN d ELSE x[j - 1]
    <3>1. i \in 0 .. Len(x)
      BY <1>1, <2>a
    <3>2. IsPut(ListData, x, i, d, Seqs!Put(x, i, d))
      BY <3>1, PutFacts
    <3> QED BY <3>2 DEF IsPut
  <2>2. z \in Seq(ListData) /\ Len(z) = n /\ z[n] = d /\ \A j \in 1 .. Len(x) : z[j] = x[j]
    BY AppendProperties
  <2> HIDE DEF y, z
  <2>3. \A j \in 1 .. n : y[j] = z[j]
    BY <1>1, <2>a, <2>1, <2>2
  <2>4. y = z
    BY <2>1, <2>2, <2>3, SeqEqual
  <2> QED BY <2>a, <2>4 DEF y, z
<1>3. Seqs!Put(x, 0, d) = <<d>> \o x
  <2> DEFINE y == Seqs!Put(x, 0, d)
             z == <<d>> \o x
             n == Len(x) + 1
  <2>1. /\ y \in Seq(ListData) /\ Len(y) = n
        /\ \A j \in 1 .. n : y[j] = IF j <= 0 THEN x[j]
                                    ELSE IF j = 0 + 1 THEN d ELSE x[j - 1]
    <3>1. IsPut(ListData, x, 0, d, Seqs!Put(x, 0, d))
      BY <1>1, PutFacts
    <3> QED BY <3>1 DEF IsPut
  <2>2. /\ z \in Seq(ListData) /\ Len(z) = n
        /\ \A j \in 1 .. n : z[j] = IF j <= 1 THEN d ELSE x[j - 1]
    <3>1. <<d>> \in Seq(ListData) /\ Len(<<d>>) = 1 /\ <<d>>[1] = d
      OBVIOUS
    <3>2. /\ z \in Seq(ListData) /\ Len(z) = 1 + Len(x)
          /\ \A j \in 1 .. 1 + Len(x) : z[j] = IF j <= 1 THEN <<d>>[j] ELSE x[j - 1]
      BY <3>1, ConcatProperties
    <3>3. 1 + Len(x) = n /\ \A j \in 1 .. n : j <= 1 => j = 1
      BY <1>1
    <3> HIDE DEF n, z
    <3> QED BY <3>1, <3>2, <3>3
  <2> HIDE DEF y, z
  <2>3. \A j \in 1 .. n : y[j] = z[j]
    <3>1. \A j \in 1 .. n : ~(j <= 0) /\ (j <= 1 <=> j = 0 + 1)
      BY <1>1
    <3> QED BY <2>1, <2>2, <3>1
  <2> QED BY <2>1, <2>2, <2>3, SeqEqual DEF y, z
<1> QED BY <1>2, <1>3

\* What the chains give for the calls on the list l.
LEMMA ListHere ==
  ASSUME NEW cs, ListsAre(cs), NEW l \in Lists
  PROVE  /\ IsChain(cell, list[l], cs[l]) /\ cell \in Heaps
         /\ cs[l] \in Seq(Cells) /\ Len(cs[l]) \in Nat
         /\ AllItems(cell, cs)[l] = Items(cell, cs[l])
         /\ Items(cell, cs[l]) \in Seq(ListData) /\ Len(Items(cell, cs[l])) = Len(cs[l])
         /\ \A i \in 1 .. Len(cs[l]) : Items(cell, cs[l])[i] = cell[cs[l][i]].data
<1>1. IsChain(cell, list[l], cs[l]) /\ cell \in Heaps
  BY DEF ListsAre
<1> QED BY <1>1, ChainPlaces, ItemsFacts DEF AllItems

\* A call that changes nothing.
LEMMA NothingChanges ==
  ASSUME NEW cs, ListsAre(cs), UNCHANGED <<cell, malloced, list>>
  PROVE  ListsAre(cs)' /\ AllItems(cell', cs) = AllItems(cell, cs)
         /\ AllItems(cell, cs) = [l \in Lists |-> AllItems(cell, cs)[l]]
BY DEF ListsAre, AllItems

\* A list that becomes what it was.
LEMMA SameList ==
  ASSUME NEW q, q = [l \in Lists |-> q[l]], NEW l \in Lists
  PROVE  [q EXCEPT ![l] = q[l]] = q
OBVIOUS

\* An append, or an insertion that appends.
LEMMA AppendCellStep ==
  ASSUME NEW cs, ListsAre(cs), NEW l \in Lists, NEW d \in ListData, AppendCell(l, d)
  PROVE  \E ds : /\ ListsAre(ds)'
                 /\ \/ AllItems(cell', ds) =
                         [AllItems(cell, cs) EXCEPT ![l] = Seqs!Put(@, Len(@), d)]
                    \/ AllItems(cell', ds) = AllItems(cell, cs)
<1>1. CASE OutOfMemory
  BY <1>1, NothingChanges DEF OutOfMemory
<1>2. CASE Malloc /\ Behind(l, slist_last(list[l]), d)
  <2>1. IsChain(cell, list[l], cs[l]) /\ cell \in Heaps /\ Len(cs[l]) \in Nat
        /\ Len(AllItems(cell, cs)[l]) = Len(cs[l])
    BY ListHere
  <2>2. slist_last(list[l]) = At(cs[l], Len(cs[l]))
    BY <2>1, ChainReads
  <2>5. Len(cs[l]) \in 0 .. Len(cs[l])
    BY <2>1
  <2>3. Malloc /\ Behind(l, At(cs[l], Len(cs[l])), d)
    BY <1>2, <2>2
  <2>4. \E ds : /\ ListsAre(ds)'
                /\ AllItems(cell', ds) =
                     [AllItems(cell, cs) EXCEPT ![l] = Seqs!Put(@, Len(cs[l]), d)]
    BY <2>3, <2>5, PutStep1
  <2> QED BY <2>1, <2>4
<1> QED BY <1>1, <1>2 DEF AppendCell

\* slist_append: a cell more behind the last one, or none when malloc fails.
LEMMA AppendDone ==
  ASSUME NEW cs, ListsAre(cs), NEW l \in Lists, NEW d \in ListData, slist_append(l, d)
  PROVE  CallDone(cs)
<1> DEFINE q == AllItems(cell, cs)
           c == [op |-> "append", l |-> l, d |-> d]
<1>1. listCall' = c /\ listRet' = <<>> /\ listEnded' = FALSE /\ AppendCell(l, d)
  BY DEF slist_append, Returns
<1>2. PICK ds : /\ ListsAre(ds)'
                /\ \/ AllItems(cell', ds) = [q EXCEPT ![l] = Seqs!Put(@, Len(@), d)]
                   \/ AllItems(cell', ds) = q
  BY <1>1, AppendCellStep
<1>3. q[l] \in Seq(ListData)
  BY ListHere
<1>4. Seqs!Put(q[l], Len(q[l]), d) = Append(q[l], d)
  BY <1>3, PutAtEnds
<1> HIDE DEF q
<1>5. Seqs!After(q[l], c) = Append(q[l], d) /\ Seqs!Result(q[l], c) = <<>>
  BY DEF Seqs!After, Seqs!Result
<1>6. CASE AllItems(cell', ds) = [q EXCEPT ![l] = Seqs!Put(@, Len(@), d)]
  <2>1. Answers(q, AllItems(cell', ds), c)
    BY <1>1, <1>4, <1>5, <1>6 DEF Answers
  <2> QED BY <1>1, <1>2, <2>1 DEF CallDone, q
<1>7. CASE AllItems(cell', ds) = q
  <2>1. Refuses(q, AllItems(cell', ds), c)
    BY <1>1, <1>7 DEF Refuses
  <2> QED BY <1>1, <1>2, <2>1 DEF CallDone, q
<1> QED BY <1>2, <1>6, <1>7

\* A cell in front of a list; without memory the program ends.
LEMMA PrependStep ==
  ASSUME NEW cs, ListsAre(cs), NEW l \in Lists, NEW d \in ListData, NEW c, Prepend(l, d, c)
  PROVE  /\ listCall' = c /\ listRet' = <<>>
         /\ \E ds : /\ ListsAre(ds)'
                    /\ \/ AllItems(cell', ds) =
                            [AllItems(cell, cs) EXCEPT ![l] = Seqs!Put(@, 0, d)]
                          /\ listEnded' = FALSE
                       \/ AllItems(cell', ds) = AllItems(cell, cs) /\ listEnded' = TRUE
<1>1. CASE Malloc /\ Behind(l, NULL, d) /\ Returns(c, <<>>)
  <2>1. Len(cs[l]) \in Nat /\ At(cs[l], 0) = NULL
    BY ListHere DEF At
  <2>2. Behind(l, At(cs[l], 0), d) /\ 0 \in 0 .. Len(cs[l])
    BY <1>1, <2>1
  <2>3. \E ds : /\ ListsAre(ds)'
                /\ AllItems(cell', ds) = [AllItems(cell, cs) EXCEPT ![l] = Seqs!Put(@, 0, d)]
    BY <1>1, <2>2, PutStep1
  <2> QED BY <1>1, <2>3 DEF Returns
<1>2. CASE OutOfMemory /\ listEnded' = TRUE /\ listCall' = c /\ listRet' = <<>>
  <2>1. ListsAre(cs)' /\ AllItems(cell', cs) = AllItems(cell, cs)
    BY <1>2, NothingChanges DEF OutOfMemory
  <2> QED BY <1>2, <2>1
<1> QED BY <1>1, <1>2 DEF Prepend

\* slist_prepend, the same in front.
LEMMA PrependDone ==
  ASSUME NEW cs, ListsAre(cs), NEW l \in Lists, NEW d \in ListData, slist_prepend(l, d)
  PROVE  CallDone(cs)
<1> DEFINE q == AllItems(cell, cs)
           c == [op |-> "prepend", l |-> l, d |-> d]
<1>1. Prepend(l, d, c)
  BY DEF slist_prepend
<1>2. listCall' = c /\ listRet' = <<>>
  BY <1>1, PrependStep
<1>3. PICK ds : /\ ListsAre(ds)'
                /\ \/ /\ AllItems(cell', ds) = [q EXCEPT ![l] = Seqs!Put(@, 0, d)]
                      /\ listEnded' = FALSE
                   \/ AllItems(cell', ds) = q /\ listEnded' = TRUE
  BY <1>1, PrependStep
<1>4. q[l] \in Seq(ListData)
  BY ListHere
<1>5. Seqs!Put(q[l], 0, d) = <<d>> \o q[l]
  BY <1>4, PutAtEnds
<1> HIDE DEF q
<1>6. Seqs!After(q[l], c) = <<d>> \o q[l] /\ Seqs!Result(q[l], c) = <<>>
  BY DEF Seqs!After, Seqs!Result
<1>7. CASE AllItems(cell', ds) = [q EXCEPT ![l] = Seqs!Put(@, 0, d)] /\ listEnded' = FALSE
  <2>1. Answers(q, AllItems(cell', ds), c)
    BY <1>2, <1>5, <1>6, <1>7 DEF Answers
  <2> QED BY <1>2, <1>3, <2>1 DEF CallDone, q
<1>8. CASE AllItems(cell', ds) = q /\ listEnded' = TRUE
  <2>1. Refuses(q, AllItems(cell', ds), c)
    BY <1>2, <1>8 DEF Refuses
  <2> QED BY <1>2, <1>3, <2>1 DEF CallDone, q
<1> QED BY <1>3, <1>7, <1>8

\* Where the loop of slist_insert_index ends.
LEMMA WalkEnds ==
  \A cs : ListsAre(cs) => \A l \in Lists, n \in Int : n > 0 =>
    LET i == IF n \in 0 .. Len(cs[l]) THEN n ELSE Len(cs[l]) IN
    i \in 0 .. Len(cs[l]) /\ Walk(list[l], n) = At(cs[l], i)
<1> SUFFICES ASSUME NEW cs, ListsAre(cs), NEW l \in Lists, NEW n \in Int, n > 0
             PROVE  LET i == IF n \in 0 .. Len(cs[l]) THEN n ELSE Len(cs[l]) IN
                    i \in 0 .. Len(cs[l]) /\ Walk(list[l], n) = At(cs[l], i)
  OBVIOUS
<1> DEFINE s == cs[l]
           p == list[l]
           i == IF n \in 0 .. Len(s) THEN n ELSE Len(s)
<1>1. IsChain(cell, p, s) /\ cell \in Heaps /\ Len(s) \in Nat
  BY ListHere
<1>2. slist_size(p) = Len(s) /\ \A k \in Nat : Follow(p)[k] = At(s, k + 1)
  BY <1>1, ChainReads
<1>3. p = At(s, 1) /\ \A k \in 1 .. Len(s) : At(s, k) # NULL
  BY <1>1, ChainPlaces DEF At
<1> HIDE DEF s, p
<1>4. i \in 0 .. Len(s)
  BY <1>1
<1>5. Walk(p, n) = At(s, i)
  <2>1. CASE Len(s) = 0
    <3>1. p = NULL /\ i = 0 /\ At(s, 0) = NULL
      BY <1>1, <1>3, <2>1 DEF At
    <3> QED BY <3>1 DEF Walk
  <2>2. CASE Len(s) # 0
    <3>1. p # NULL
      BY <1>1, <1>3, <2>2
    <3>2. CASE n < Len(s)
      <4>1. n - 1 \in Nat /\ n - 1 + 1 = n /\ i = n
        BY <1>1, <3>2
      <4> QED BY <1>2, <3>1, <3>2, <4>1 DEF Walk
    <3>3. CASE ~(n < Len(s))
      <4>1. Len(s) - 1 \in Nat /\ Len(s) - 1 + 1 = Len(s) /\ i = Len(s)
        BY <1>1, <2>2, <3>3
      <4> QED BY <1>2, <3>1, <3>3, <4>1 DEF Walk
    <3> QED BY <3>2, <3>3
  <2> QED BY <2>1, <2>2
<1> QED BY <1>4, <1>5 DEF s, p

\* slist_insert with an index in the list.
LEMMA InsertIndexDone ==
  ASSUME NEW cs, ListsAre(cs), NEW l \in Lists, NEW d \in ListData, NEW n \in Int,
         slist_insert_index(l, d, n)
  PROVE  CallDone(cs)
<1> DEFINE q == AllItems(cell, cs)
           c == [op |-> "insert_index", l |-> l, d |-> d, i |-> n]
           i == IF n \in 0 .. Len(q[l]) THEN n ELSE Len(q[l])
<1>1. Len(q[l]) = Len(cs[l]) /\ Len(cs[l]) \in Nat
  BY ListHere
<1>2. /\ listCall' = c /\ listRet' = <<>>
      /\ \E ds : /\ ListsAre(ds)'
                 /\ \/ AllItems(cell', ds) = [q EXCEPT ![l] = Seqs!Put(@, i, d)]
                       /\ listEnded' = FALSE
                    \/ AllItems(cell', ds) = q /\ listEnded' = (n = 0)
  <2>1. CASE n < 0 /\ AppendCell(l, d) /\ Returns(c, <<>>)
    <3>1. i = Len(q[l])
      BY <1>1, <2>1
    <3>2. PICK ds : /\ ListsAre(ds)'
                    /\ \/ AllItems(cell', ds) = [q EXCEPT ![l] = Seqs!Put(@, Len(@), d)]
                       \/ AllItems(cell', ds) = q
      BY <2>1, AppendCellStep
    <3>b. n # 0
      BY <2>1
    <3>3. listCall' = c /\ listRet' = <<>> /\ listEnded' = FALSE /\ listEnded' = (n = 0)
      <4>1. listCall' = c /\ listRet' = <<>> /\ listEnded' = FALSE
        BY <2>1 DEF Returns
      <4> HIDE DEF c
      <4> QED BY <3>b, <4>1
    <3> HIDE DEF i, q, c
    <3>4. \/ AllItems(cell', ds) = [q EXCEPT ![l] = Seqs!Put(@, i, d)] /\ listEnded' = FALSE
          \/ AllItems(cell', ds) = q /\ listEnded' = (n = 0)
      BY <3>1, <3>2, <3>3
    <3> QED BY <3>2, <3>3, <3>4
  <2>2. CASE n = 0 /\ Prepend(l, d, c)
    <3>1. i = 0
      BY <1>1, <2>2
    <3>2. listCall' = c /\ listRet' = <<>>
      BY <2>2, PrependStep
    <3>3. \E ds : /\ ListsAre(ds)'
                  /\ \/ AllItems(cell', ds) = [q EXCEPT ![l] = Seqs!Put(@, 0, d)]
                        /\ listEnded' = FALSE
                     \/ AllItems(cell', ds) = q /\ listEnded' = TRUE
      BY <2>2, PrependStep
    <3> HIDE DEF i, q
    <3> QED BY <2>2, <3>1, <3>2, <3>3
  <2>3. CASE n > 0 /\ Returns(c, <<>>) /\ Malloc /\ Behind(l, Walk(list[l], n), d)
    <3> DEFINE k == IF n \in 0 .. Len(cs[l]) THEN n ELSE Len(cs[l])
    <3>1. k \in 0 .. Len(cs[l]) /\ Behind(l, At(cs[l], k), d)
      BY <2>3, WalkEnds
    <3>2. k = i
      BY <1>1
    <3>3. \E ds : /\ ListsAre(ds)'
                  /\ AllItems(cell', ds) = [q EXCEPT ![l] = Seqs!Put(@, k, d)]
      <4> HIDE DEF k
      <4> QED BY <2>3, <3>1, PutStep1
    <3> HIDE DEF i, k, q
    <3> QED BY <2>3, <3>2, <3>3 DEF Returns
  <2>4. CASE n > 0 /\ Returns(c, <<>>) /\ OutOfMemory
    <3>1. ListsAre(cs)' /\ AllItems(cell', cs) = AllItems(cell, cs)
      BY <2>4, NothingChanges DEF OutOfMemory
    <3>2. listEnded' = FALSE /\ n # 0
      BY <2>4 DEF Returns
    <3> QED BY <2>4, <3>1, <3>2 DEF Returns
  <2>5. \/ n < 0 /\ AppendCell(l, d) /\ Returns(c, <<>>)
        \/ n = 0 /\ Prepend(l, d, c)
        \/ n > 0 /\ Returns(c, <<>>) /\ ((Malloc /\ Behind(l, Walk(list[l], n), d)) \/ OutOfMemory)
    BY DEF slist_insert_index
  <2> HIDE DEF q, i, c
  <2> QED BY <2>1, <2>2, <2>3, <2>4, <2>5
<1>3. PICK ds : /\ ListsAre(ds)'
                /\ \/ AllItems(cell', ds) = [q EXCEPT ![l] = Seqs!Put(@, i, d)]
                      /\ listEnded' = FALSE
                   \/ AllItems(cell', ds) = q /\ listEnded' = (n = 0)
  BY <1>2
<1> HIDE DEF q
<1>4. Seqs!After(q[l], c) = Seqs!Put(q[l], i, d) /\ Seqs!Result(q[l], c) = <<>>
  BY DEF Seqs!After, Seqs!Result
<1> HIDE DEF i
<1>5. CASE AllItems(cell', ds) = [q EXCEPT ![l] = Seqs!Put(@, i, d)] /\ listEnded' = FALSE
  <2>1. Answers(q, AllItems(cell', ds), c)
    BY <1>2, <1>4, <1>5 DEF Answers
  <2> QED BY <1>2, <1>3, <2>1 DEF CallDone, q
<1>6. CASE AllItems(cell', ds) = q /\ listEnded' = (n = 0)
  <2>1. Refuses(q, AllItems(cell', ds), c)
    BY <1>2, <1>6 DEF Refuses
  <2> QED BY <1>2, <1>3, <2>1 DEF CallDone, q
<1> QED BY <1>3, <1>5, <1>6

\* slist_insert, the clamped indices included.
LEMMA InsertDone ==
  ASSUME NEW cs, ListsAre(cs), NEW l \in Lists, NEW d \in ListData, NEW at \in ListData,
         slist_insert(l, d, at)
  PROVE  CallDone(cs)
<1> DEFINE q == AllItems(cell, cs)
           s == cs[l]
           p == slist_find(list[l], at)
           c == [op |-> "insert", l |-> l, d |-> d, at |-> at]
           f == Seqs!First(q[l], at)
<1>1. /\ IsChain(cell, list[l], s) /\ cell \in Heaps /\ q[l] = Items(cell, s)
      /\ q = [m \in Lists |-> q[m]]
  BY ListHere DEF AllItems
<1>2. IF Seqs!Has(q[l], at) THEN f \in 1 .. Len(s) /\ p = s[f] ELSE p = NULL
  <2> HIDE DEF q
  <2> QED BY <1>1, ChainFinds
<1>3. \A i \in 1 .. Len(s) : s[i] # NULL /\ At(s, i) = s[i]
  BY <1>1, ChainPlaces DEF At
<1>4. /\ listCall' = c /\ listRet' = <<>> /\ listEnded' = FALSE
      /\ \/ p = NULL /\ UNCHANGED <<cell, malloced, list>>
         \/ p # NULL /\ ((Malloc /\ Behind(l, p, d)) \/ OutOfMemory)
  BY DEF slist_insert, Returns
<1> HIDE DEF q, p
<1>5. Seqs!Result(q[l], c) = <<>>
      /\ Seqs!After(q[l], c) = IF Seqs!Has(q[l], at) THEN Seqs!Put(q[l], f, d) ELSE q[l]
  BY DEF Seqs!After, Seqs!Result
<1>6. CASE ~Seqs!Has(q[l], at)
  <2>1. ListsAre(cs)' /\ AllItems(cell', cs) = q
    BY <1>2, <1>4, <1>6, NothingChanges DEF q
  <2>2. [q EXCEPT ![l] = Seqs!After(@, c)] = q
    BY <1>1, <1>5, <1>6, SameList
  <2>3. Answers(q, AllItems(cell', cs), c)
    BY <1>4, <1>5, <2>1, <2>2 DEF Answers
  <2> QED BY <1>4, <2>1, <2>3 DEF CallDone, q
<1>7. CASE Seqs!Has(q[l], at) /\ Malloc /\ Behind(l, p, d)
  <2>1. f \in 0 .. Len(s) /\ Behind(l, At(s, f), d)
    BY <1>2, <1>3, <1>7
  <2>2. PICK ds : ListsAre(ds)' /\ AllItems(cell', ds) = [q EXCEPT ![l] = Seqs!Put(@, f, d)]
    <3> HIDE DEF f
    <3> QED BY <1>7, <2>1, PutStep1 DEF q
  <2>3. Answers(q, AllItems(cell', ds), c)
    BY <1>4, <1>5, <1>7, <2>2 DEF Answers
  <2> QED BY <1>4, <2>2, <2>3 DEF CallDone, q
<1>8. CASE OutOfMemory
  <2>1. ListsAre(cs)' /\ AllItems(cell', cs) = q
    BY <1>8, NothingChanges DEF OutOfMemory, q
  <2>2. Refuses(q, AllItems(cell', cs), c)
    BY <1>4, <2>1 DEF Refuses
  <2> QED BY <1>4, <2>1, <2>2 DEF CallDone, q
<1>9. Seqs!Has(q[l], at) => p # NULL
  BY <1>2, <1>3
<1> QED BY <1>4, <1>6, <1>7, <1>8, <1>9

\* slist_remove_by_index: the cell it unlinks is freed.
LEMMA RemoveByIndexDone ==
  ASSUME NEW cs, ListsAre(cs), NEW l \in Lists, NEW n \in Int, slist_remove_by_index_x(l, n)
  PROVE  CallDone(cs)
<1>a. PICK p : p = list[l]
  OBVIOUS
<1> DEFINE q == AllItems(cell, cs)
           s == cs[l]
           c == [op |-> "remove_by_index", l |-> l, i |-> n]
<1>1. /\ IsChain(cell, p, s) /\ cell \in Heaps /\ q[l] = Items(cell, s) /\ Len(q[l]) = Len(s)
      /\ Len(s) \in Nat /\ q = [m \in Lists |-> q[m]] /\ CellsOf(s) \subseteq malloced
      /\ \A i \in 1 .. Len(s) : q[l][i] = cell[s[i]].data
      /\ list \in [Lists -> Pointers] /\ p \in Pointers
  BY <1>a, ListHere DEF AllItems, ListsAre
<1>2. Steps(p) = 0 .. Len(s) - 1 /\ \A k \in Nat : Follow(p)[k] = At(s, k + 1)
  BY <1>1, ChainReads
<1> HIDE DEF q
<1>3. /\ Seqs!Result(q[l], c) = IF n \in 0 .. Len(s) - 1 THEN <<q[l][n + 1]>> ELSE <<>>
      /\ Seqs!After(q[l], c) = IF n \in 0 .. Len(s) - 1 THEN Seqs!Drop(q[l], n) ELSE q[l]
  BY <1>1 DEF Seqs!After, Seqs!Result
<1>4. CASE n \notin 0 .. Len(s) - 1
  <2>1. /\ UNCHANGED <<cell, malloced, list>> /\ Returns(c, <<>>)
    BY <1>a, <1>2, <1>4 DEF slist_remove_by_index_x
  <2>2. ListsAre(cs)' /\ AllItems(cell', cs) = q
    BY <2>1, NothingChanges DEF q
  <2>3. [q EXCEPT ![l] = Seqs!After(@, c)] = q
    BY <1>1, <1>3, <1>4, SameList
  <2>4. Answers(q, AllItems(cell', cs), c)
    BY <1>3, <1>4, <2>1, <2>2, <2>3 DEF Answers, Returns
  <2> QED BY <2>1, <2>2, <2>4 DEF CallDone, q, Returns
<1>5. CASE n \in 0 .. Len(s) - 1
  <2> DEFINE t == Seqs!Drop(s, n)
             first == IF n = 0 THEN cell[s[1]].next ELSE p
  <2>1. /\ n \in Nat /\ n + 1 \in 1 .. Len(s) /\ Follow(p)[n] = s[n + 1]
        /\ n > 0 => n \in 1 .. Len(s) /\ Follow(p)[n - 1] = s[n]
    <3>1. n \in Nat /\ n + 1 \in 1 .. Len(s) /\ (n > 0 => n \in 1 .. Len(s))
      BY <1>1, <1>5
    <3>2. n > 0 => n - 1 \in Nat /\ n - 1 + 1 = n
      BY <3>1
    <3>3. At(s, n + 1) = s[n + 1] /\ (n > 0 => At(s, n) = s[n])
      BY <3>1 DEF At
    <3>4. Follow(p)[n] = At(s, n + 1)
      BY <1>2, <3>1
    <3>5. n > 0 => Follow(p)[n - 1] = At(s, n)
      BY <1>2, <3>2
    <3> QED BY <3>1, <3>3, <3>4, <3>5
  <2>2. /\ IF n = 0 THEN list' = [list EXCEPT ![l] = cell[s[n + 1]].next] /\ UNCHANGED cell
           ELSE cell' = [cell EXCEPT ![s[n]].next = cell[s[n + 1]].next] /\ UNCHANGED list
        /\ malloced' = malloced \ {s[n + 1]}
        /\ Returns(c, <<cell[s[n + 1]].data>>)
    <3> DEFINE walk == Follow(p)[n]
               tmp == Follow(p)[n - 1]
    <3>1. /\ IF n = 0 THEN list' = [list EXCEPT ![l] = cell[walk].next] /\ UNCHANGED cell
             ELSE cell' = [cell EXCEPT ![tmp].next = cell[walk].next] /\ UNCHANGED list
          /\ malloced' = malloced \ {walk} /\ Returns(c, <<cell[walk].data>>)
      BY <1>a, <1>2, <1>5 DEF slist_remove_by_index_x
    <3>2. walk = s[n + 1] /\ (n # 0 => tmp = s[n])
      BY <2>1
    <3> HIDE DEF walk, tmp, c
    <3> QED BY <3>1, <3>2
  <2>3. /\ s \in Seq(Cells) /\ CellsOf(s) \subseteq Cells
        /\ \A i \in 1 .. Len(s) :
             s[i] \in Cells /\ s[i] \in CellsOf(s) /\ cell[s[i]].next = At(s, i + 1)
        /\ \A i \in Int : At(s, i) \in Pointers
    <3>1. \A i \in 1 .. Len(s) : s[i] \in Cells
      BY <1>1, ChainPlaces
    <3> QED BY <1>1, <3>1, ChainPlaces DEF At, Pointers
  <2>4. /\ cell' \in Heaps /\ list' = [list EXCEPT ![l] = first]
        /\ n > 0 => cell'[s[n]].next = cell[s[n + 1]].next /\ cell'[s[n]].data = cell[s[n]].data
        /\ \A b \in Cells : (n > 0 => b # s[n]) => cell'[b] = cell[b]
    <3>1. CASE n = 0
      BY <1>1, <2>2, <3>1
    <3>2. CASE n # 0
      <4>1. n > 0 /\ s[n] \in Cells /\ cell[s[n + 1]].next \in Pointers
        BY <2>1, <2>3, <3>2
      <4>2. cell' = [cell EXCEPT ![s[n]].next = cell[s[n + 1]].next] /\ list' = list
        BY <2>2, <3>2
      <4>3. cell[s[n]] \in [data : ListData \cup {NULL}, next : Pointers]
        BY <1>1, <4>1 DEF Heaps
      <4>4. cell' \in Heaps
        BY <1>1, <4>1, <4>2 DEF Heaps
      <4>5. cell'[s[n]] = [cell[s[n]] EXCEPT !.next = cell[s[n + 1]].next]
            /\ \A b \in Cells : b # s[n] => cell'[b] = cell[b]
        BY <1>1, <4>1, <4>2 DEF Heaps
      <4>6. list' = [list EXCEPT ![l] = p]
        BY <1>a, <1>1, <4>2
      <4> QED BY <3>2, <4>1, <4>3, <4>4, <4>5, <4>6
    <3> QED BY <3>1, <3>2
  <2>5. /\ IsChain(cell', first, t) /\ Items(cell', t) = Seqs!Drop(Items(cell, s), n)
        /\ CellsOf(t) = CellsOf(s) \ {s[n + 1]}
    <3>1. \A b \in CellsOf(s) : (n > 0 => b # s[n]) => cell'[b] = cell[b]
      BY <2>3, <2>4
    <3>2. n > 0 => cell'[s[n]].next = cell[s[n + 1]].next /\ cell'[s[n]].data = cell[s[n]].data
      BY <2>4
    <3> HIDE DEF s
    <3> QED BY <1>1, <1>5, <3>1, <3>2, DropChain
  <2>b. PICK head : head = first
    OBVIOUS
  <2>6. /\ ListsAre([cs EXCEPT ![l] = t])'
        /\ AllItems(cell', [cs EXCEPT ![l] = t])
             = [AllItems(cell, cs) EXCEPT ![l] = Items(cell', t)]
    <3>1. \A b \in malloced \ CellsOf(cs[l]) : cell'[b] = cell[b]
      <4>1. malloced \subseteq Cells /\ (n > 0 => s[n] \in CellsOf(s))
        <5>1. \A m \in Lists : CellsOf(cs[m]) \subseteq Cells
          BY ChainPlaces DEF ListsAre
        <5> QED BY <2>1, <2>3, <5>1 DEF ListsAre
      <4> QED BY <2>4, <4>1
    <3>2. CellsOf(t) \cap (malloced \ CellsOf(cs[l])) = {}
          /\ malloced' = (malloced \ CellsOf(cs[l])) \cup CellsOf(t)
      BY <1>1, <2>1, <2>2, <2>3, <2>5
    <3>3. IsChain(cell', head, t) /\ cell' \in Heaps /\ list' = [list EXCEPT ![l] = head]
      BY <2>4, <2>5, <2>b
    <3> HIDE DEF t, first, s
    <3> QED BY <3>1, <3>2, <3>3, OneChain
  <2>7. Answers(q, AllItems(cell', [cs EXCEPT ![l] = t]), c)
    <3>1. AllItems(cell', [cs EXCEPT ![l] = t]) = [q EXCEPT ![l] = Seqs!After(@, c)]
      BY <1>1, <1>3, <1>5, <2>5, <2>6 DEF q
    <3>2. listRet' = Seqs!Result(q[l], c) /\ listEnded' = FALSE
      BY <1>1, <1>3, <1>5, <2>1, <2>2 DEF Returns
    <3> QED BY <3>1, <3>2 DEF Answers
  <2> QED BY <2>2, <2>6, <2>7 DEF CallDone, q, Returns
<1> QED BY <1>4, <1>5

\* slist_delete_all frees every cell of the list.
LEMMA DeleteAllDone ==
  ASSUME NEW cs, ListsAre(cs), NEW l \in Lists, slist_delete_all_x(l)
  PROVE  CallDone(cs)
<1> DEFINE q == AllItems(cell, cs)
           s == cs[l]
           c == [op |-> "delete_all", l |-> l]
<1>1. /\ IsChain(cell, list[l], s) /\ cell \in Heaps /\ q[l] = Items(cell, s)
  BY ListHere
<1>2. CellSet(list[l]) = CellsOf(s) /\ slist_work(list[l]) = q[l]
  BY <1>1, ChainReads
<1>3. /\ malloced' = malloced \ CellsOf(s) /\ cell' = cell /\ list' = [list EXCEPT ![l] = NULL]
      /\ listCall' = c /\ listRet' = q[l] /\ listEnded' = FALSE
  <2> HIDE DEF q, s
  <2> QED BY <1>2 DEF slist_delete_all_x, Returns
<1>a. PICK t : t = <<>>
  OBVIOUS
<1>4. IsChain(cell', NULL, t) /\ Items(cell', t) = <<>> /\ CellsOf(t) = {}
  BY <1>a DEF IsChain, Items, CellsOf, At
<1>5. /\ ListsAre([cs EXCEPT ![l] = t])'
      /\ AllItems(cell', [cs EXCEPT ![l] = t]) = [AllItems(cell, cs) EXCEPT ![l] = Items(cell', t)]
  <2>1. \A b \in malloced \ CellsOf(cs[l]) : cell'[b] = cell[b]
    BY <1>3
  <2>2. CellsOf(t) \cap (malloced \ CellsOf(cs[l])) = {}
        /\ malloced' = (malloced \ CellsOf(cs[l])) \cup CellsOf(t)
    BY <1>3, <1>4
  <2>3. IsChain(cell', NULL, t) /\ cell' \in Heaps /\ list' = [list EXCEPT ![l] = NULL]
    BY <1>1, <1>3, <1>4
  <2> HIDE DEF s, q
  <2> QED BY <2>1, <2>2, <2>3, OneChain
<1> HIDE DEF q
<1>6. Seqs!After(q[l], c) = <<>> /\ Seqs!Result(q[l], c) = q[l]
  BY DEF Seqs!After, Seqs!Result
<1>7. Answers(q, AllItems(cell', [cs EXCEPT ![l] = t]), c)
  BY <1>3, <1>4, <1>5, <1>6 DEF Answers, q
<1> QED BY <1>3, <1>5, <1>7 DEF CallDone, q

\* slist_concat: the second list becomes empty, its cells stay allocated.
LEMMA ConcatDone ==
  ASSUME NEW cs, ListsAre(cs), NEW l \in Lists, NEW m \in Lists, slist_concat(l, m)
  PROVE  CallDone(cs)
<1>a. PICK p, r, e : p = list[l] /\ r = list[m] /\ e = <<>>
  OBVIOUS
<1> DEFINE q == AllItems(cell, cs)
           s == cs[l]
           t == cs[m]
           u == s \o t
           n == Len(s)
           c == [op |-> "concat", l |-> l, m |-> m]
           ds == [cs EXCEPT ![l] = u, ![m] = e]
           first == IF n = 0 THEN r ELSE p
<1>1. /\ IsChain(cell, p, s) /\ IsChain(cell, r, t) /\ cell \in Heaps /\ n \in Nat
      /\ q[l] = Items(cell, s) /\ q[m] = Items(cell, t) /\ s \in Seq(Cells) /\ t \in Seq(Cells)
      /\ list \in [Lists -> Pointers] /\ p \in Pointers /\ r \in Pointers
      /\ cs \in [Lists -> Seq(Cells)] /\ NULL \in Pointers
  BY <1>a, ListHere DEF ListsAre, Pointers
<1>2. slist_last(p) = At(s, n) /\ r = At(t, 1)
  BY <1>1, ChainReads DEF IsChain
<1>3. /\ \A i \in 1 .. n : s[i] \in Cells /\ s[i] # NULL /\ s[i] \in CellsOf(s)
      /\ \A k \in Lists : CellsOf(cs[k]) \subseteq Cells
  BY <1>1, ChainPlaces DEF ListsAre
<1>4. /\ l # m /\ malloced' = malloced /\ listCall' = c /\ listRet' = <<>> /\ listEnded' = FALSE
      /\ IF slist_last(p) = NULL
         THEN list' = [list EXCEPT ![l] = r, ![m] = NULL] /\ cell' = cell
         ELSE cell' = [cell EXCEPT ![slist_last(p)].next = r] /\ list' = [list EXCEPT ![m] = NULL]
  BY <1>a DEF slist_concat, Returns
<1> HIDE DEF s, t, q, u, c
<1>5. /\ cell' \in Heaps /\ list' = [list EXCEPT ![l] = first, ![m] = NULL]
      /\ n > 0 => cell'[s[n]].next = r /\ cell'[s[n]].data = cell[s[n]].data
      /\ \A b \in Cells : (n > 0 => b # s[n]) => cell'[b] = cell[b]
  <2>1. CASE n = 0
    <3>1. slist_last(p) = NULL
      BY <1>2, <2>1 DEF At
    <3> QED BY <1>1, <1>4, <2>1, <3>1
  <2>2. CASE n # 0
    <3>1. slist_last(p) = s[n] /\ s[n] # NULL /\ s[n] \in Cells /\ n > 0
      BY <1>1, <1>2, <1>3, <2>2 DEF At
    <3>2. cell' = [cell EXCEPT ![s[n]].next = r] /\ list' = [list EXCEPT ![m] = NULL]
      BY <1>4, <3>1
    <3>3. list' = [list EXCEPT ![l] = p, ![m] = NULL]
      BY <1>a, <1>1, <1>4, <3>2
    <3>4. cell[s[n]] \in [data : ListData \cup {NULL}, next : Pointers]
      BY <1>1, <3>1 DEF Heaps
    <3>5. cell' \in Heaps
      BY <1>1, <3>1, <3>2 DEF Heaps
    <3>6. cell'[s[n]] = [cell[s[n]] EXCEPT !.next = r]
          /\ \A b \in Cells : b # s[n] => cell'[b] = cell[b]
      BY <1>1, <3>1, <3>2 DEF Heaps
    <3> QED BY <2>2, <3>1, <3>3, <3>4, <3>5, <3>6
  <2> QED BY <2>1, <2>2
<1>6. CellsOf(s) \cap CellsOf(t) = {} /\ CellsOf(s) \subseteq Cells /\ CellsOf(t) \subseteq Cells
  BY <1>3, <1>4 DEF s, t, ListsAre
<1>7. /\ IsChain(cell', first, u) /\ Items(cell', u) = Items(cell, s) \o Items(cell, t)
      /\ CellsOf(u) = CellsOf(s) \cup CellsOf(t)
  <2>1. \A b \in CellsOf(s) \cup CellsOf(t) : (n > 0 => b # s[n]) => cell'[b] = cell[b]
    BY <1>5, <1>6
  <2>2. n > 0 => cell'[s[n]].next = r /\ cell'[s[n]].data = cell[s[n]].data
    BY <1>5
  <2>3. IsChain(cell, p, s) /\ IsChain(cell, r, t) /\ CellsOf(s) \cap CellsOf(t) = {}
    BY <1>1, <1>6
  <2>4. /\ IsChain(cell', IF Len(s) = 0 THEN r ELSE p, s \o t)
        /\ Items(cell', s \o t) = Items(cell, s) \o Items(cell, t)
        /\ CellsOf(s \o t) = CellsOf(s) \cup CellsOf(t)
    <3>1. Linked(cell, cell', s, r, CellsOf(s) \cup CellsOf(t))
      BY <2>1, <2>2 DEF Linked
    <3> QED BY <2>3, <3>1, ConcatChain
  <2> QED BY <2>4 DEF u
<1>8. IsChain(cell', NULL, e) /\ Items(cell', e) = <<>> /\ CellsOf(e) = {}
  BY <1>a DEF IsChain, Items, CellsOf, At
<1>9. /\ ds \in [Lists -> Seq(Cells)] /\ ds[l] = u /\ ds[m] = e
      /\ \A k \in Lists : k # l /\ k # m => ds[k] = cs[k]
  <2>1. u \in Seq(Cells) /\ e \in Seq(Cells)
    BY <1>7, <1>8 DEF IsChain
  <2> QED BY <1>1, <1>4, <2>1
<1>10. /\ list' \in [Lists -> Pointers] /\ list'[l] = first /\ list'[m] = NULL
       /\ \A k \in Lists : k # l /\ k # m => list'[k] = list[k]
  <2>1. first \in Pointers
    BY <1>1
  <2> HIDE DEF first
  <2> QED BY <1>1, <1>4, <1>5, <2>1
<1> HIDE DEF ds, first
<1>11. ASSUME NEW k \in Lists, k # l, k # m
       PROVE  IsChain(cell', list'[k], ds[k]) /\ Items(cell', ds[k]) = Items(cell, cs[k])
  <2>1. CellsOf(cs[k]) \cap CellsOf(s) = {} /\ CellsOf(cs[k]) \subseteq Cells
    BY <1>3, <1>11 DEF ListsAre, s
  <2>2. IsChain(cell, list[k], cs[k]) /\ \A b \in CellsOf(cs[k]) : cell'[b] = cell[b]
    BY <1>1, <1>3, <1>5, <2>1 DEF ListsAre
  <2>3. IsChain(cell', list[k], cs[k]) /\ Items(cell', cs[k]) = Items(cell, cs[k])
    BY <2>2, ChainStays
  <2> QED BY <1>9, <1>10, <1>11, <2>3
<1>12. \A k \in Lists : IsChain(cell', list'[k], ds[k])
  BY <1>7, <1>8, <1>9, <1>10, <1>11
<1>13. \A k, j \in Lists : k # j => CellsOf(ds[k]) \cap CellsOf(ds[j]) = {}
  <2>1. \A k, j \in Lists : k # j => CellsOf(cs[k]) \cap CellsOf(cs[j]) = {}
    BY DEF ListsAre
  <2>2. \A k \in Lists : k # l /\ k # m => CellsOf(ds[k]) = CellsOf(cs[k])
    BY <1>9
  <2>3. \A k \in Lists : k # l /\ k # m => CellsOf(ds[k]) \cap CellsOf(u) = {}
    BY <1>7, <2>1, <2>2 DEF s, t
  <2>4. CellsOf(ds[l]) = CellsOf(u) /\ CellsOf(ds[m]) = {}
    BY <1>8, <1>9
  <2>5. ASSUME NEW k \in Lists, NEW j \in Lists, k # j
        PROVE  CellsOf(ds[k]) \cap CellsOf(ds[j]) = {}
    <3>1. CASE k = m \/ j = m
      BY <2>4, <3>1
    <3>2. CASE k # m /\ j # m /\ k = l
      BY <2>3, <2>4, <2>5, <3>2
    <3>3. CASE k # m /\ j # m /\ j = l
      BY <2>3, <2>4, <2>5, <3>3
    <3>4. CASE k # m /\ j # m /\ k # l /\ j # l
      BY <2>1, <2>2, <2>5, <3>4
    <3> QED BY <3>1, <3>2, <3>3, <3>4
  <2> QED BY <2>5
<1>14. malloced' = UNION {CellsOf(ds[k]) : k \in Lists}
  <2>1. malloced = UNION {CellsOf(cs[k]) : k \in Lists}
    BY DEF ListsAre
  <2>2. \A k \in Lists : k # l /\ k # m => CellsOf(ds[k]) = CellsOf(cs[k])
    BY <1>9
  <2>3. CellsOf(ds[l]) = CellsOf(cs[l]) \cup CellsOf(cs[m]) /\ CellsOf(ds[m]) = {}
    BY <1>7, <1>8, <1>9 DEF s, t
  <2>4. ASSUME NEW k \in Lists PROVE CellsOf(ds[k]) \subseteq malloced
    BY <2>1, <2>2, <2>3
  <2>5. ASSUME NEW k \in Lists
        PROVE  CellsOf(cs[k]) \subseteq UNION {CellsOf(ds[j]) : j \in Lists}
    BY <2>2, <2>3
  <2> QED BY <1>4, <2>1, <2>4, <2>5
<1>15. ListsAre(ds)'
  BY <1>5, <1>9, <1>10, <1>12, <1>13, <1>14 DEF ListsAre
<1>16. AllItems(cell', ds) = [q EXCEPT ![l] = @ \o q[m], ![m] = <<>>]
  <2>1. q = [k \in Lists |-> Items(cell, cs[k])]
    BY DEF q, AllItems
  <2>2. \A k \in Lists : Items(cell', ds[k]) =
          IF k = m THEN <<>> ELSE IF k = l THEN q[l] \o q[m] ELSE Items(cell, cs[k])
    BY <1>1, <1>7, <1>8, <1>9, <1>11
  <2> QED BY <1>4, <2>1, <2>2 DEF AllItems
<1>17. Seqs!Result(q[l], c) = <<>>
  BY DEF Seqs!Result, c
<1>18. Answers(q, AllItems(cell', ds), c)
  BY <1>4, <1>16, <1>17 DEF Answers, c
<1> QED BY <1>4, <1>15, <1>18 DEF CallDone, q, c

\* The calls that only read return what the sequence says.
LEMMA ReadDone ==
  ASSUME NEW cs, ListsAre(cs), NEW l \in Lists, ReadList(l)
  PROVE  CallDone(cs)
<1> DEFINE q == AllItems(cell, cs)
           s == cs[l]
           p == list[l]
           x == q[l]
<1>1. /\ IsChain(cell, p, s) /\ cell \in Heaps /\ Len(s) \in Nat /\ s \in Seq(Cells)
      /\ x = Items(cell, s) /\ x \in Seq(ListData) /\ Len(x) = Len(s)
      /\ \A i \in 1 .. Len(s) : x[i] = cell[s[i]].data
      /\ q = [m \in Lists |-> q[m]]
  BY ListHere DEF AllItems
<1>2. /\ slist_size(p) = Len(s) /\ slist_work(p) = x /\ slist_last(p) = At(s, Len(s))
      /\ \A i \in Nat : Follow(p)[i] = At(s, i + 1)
  <2> HIDE DEF q, s
  <2> QED BY <1>1, ChainReads
<1>3. \A i \in 1 .. Len(s) : s[i] # NULL /\ At(s, i) = s[i]
  BY <1>1, ChainPlaces DEF At
<1>4. ListsAre(cs)' /\ AllItems(cell', cs) = q
  BY NothingChanges DEF ReadList
<1>5. ASSUME NEW c, c.op \in {"size", "work", "last", "index", "find", "nth_data"}, c.l = l,
             Returns(c, Seqs!Result(x, c))
      PROVE  CallDone(cs)
  <2>1. Seqs!After(x, c) = x
    BY <1>5 DEF Seqs!After
  <2> HIDE DEF q
  <2>2. [q EXCEPT ![l] = Seqs!After(@, c)] = q
    BY <1>1, <2>1, SameList
  <2>3. Answers(q, AllItems(cell', cs), c)
    BY <1>4, <1>5, <2>2 DEF Answers, Returns
  <2> QED BY <1>4, <1>5, <2>3 DEF CallDone, q, Returns
<1> HIDE DEF q, s, p
<1>6. CASE Returns([op |-> "size", l |-> l], <<slist_size(p)>>)
  <2> DEFINE c == [op |-> "size", l |-> l]
  <2>1. Seqs!Result(x, c) = <<Len(x)>> /\ c.op = "size" /\ c.l = l
    BY DEF Seqs!Result
  <2> HIDE DEF c, x
  <2>2. Returns(c, Seqs!Result(x, c))
    BY <1>1, <1>2, <1>6, <2>1 DEF c
  <2> QED BY <1>5, <2>1, <2>2
<1>7. CASE Returns([op |-> "work", l |-> l], slist_work(p))
  <2> DEFINE c == [op |-> "work", l |-> l]
  <2>1. Seqs!Result(x, c) = x /\ c.op = "work" /\ c.l = l
    BY DEF Seqs!Result
  <2> HIDE DEF c, x
  <2>2. Returns(c, Seqs!Result(x, c))
    BY <1>2, <1>7, <2>1 DEF c
  <2> QED BY <1>5, <2>1, <2>2
<1>8. CASE Returns([op |-> "last", l |-> l],
                   LET z == slist_last(p) IN IF z = NULL THEN <<>> ELSE <<cell[z].data>>)
  <2> DEFINE c == [op |-> "last", l |-> l]
             z == slist_last(p)
  <2>1. Seqs!Result(x, c) = (IF x = <<>> THEN <<>> ELSE <<x[Len(x)]>>) /\ c.op = "last" /\ c.l = l
    BY DEF Seqs!Result
  <2>2. Seqs!Result(x, c) = IF z = NULL THEN <<>> ELSE <<cell[z].data>>
    <3>1. CASE Len(s) = 0
      <4>1. x = <<>> /\ z = NULL
        BY <1>1, <1>2, <3>1, EmptySeq DEF At
      <4> QED BY <2>1, <4>1
    <3>2. CASE Len(s) # 0
      <4>1. Len(s) \in 1 .. Len(s) /\ x # <<>>
        BY <1>1, <3>2
      <4>2. z = s[Len(s)] /\ z # NULL /\ x[Len(x)] = cell[z].data
        BY <1>1, <1>2, <1>3, <4>1
      <4> QED BY <2>1, <4>1, <4>2
    <3> QED BY <3>1, <3>2
  <2>3. Returns(c, IF z = NULL THEN <<>> ELSE <<cell[z].data>>)
    BY <1>8
  <2> HIDE DEF c, x, z
  <2>4. Returns(c, Seqs!Result(x, c))
    BY <2>2, <2>3
  <2> QED BY <1>5, <2>1, <2>4
<1>9. ASSUME NEW d \in ListData
      PROVE  /\ IF Seqs!Has(x, d)
                THEN /\ StepsWith(p, d) # {} /\ Seqs!First(x, d) \in 1 .. Len(s)
                     /\ FirstStep(p, d) = Seqs!First(x, d) - 1
                     /\ slist_find(p, d) = s[Seqs!First(x, d)]
                ELSE StepsWith(p, d) = {} /\ slist_find(p, d) = NULL
             /\ \A i \in 1 .. Len(s) : StepOf(p, s[i]) = i - 1
  <2> HIDE DEF x
  <2> QED BY <1>1, ChainFinds, ChainStep
<1>10. ASSUME NEW d \in ListData, Returns([op |-> "index", l |-> l, d |-> d], <<slist_index(p, d)>>)
       PROVE  CallDone(cs)
  <2> DEFINE c == [op |-> "index", l |-> l, d |-> d]
  <2>1. Seqs!Result(x, c) = <<IF Seqs!Has(x, d) THEN Seqs!First(x, d) - 1 ELSE -1>>
        /\ c.op = "index" /\ c.l = l
    BY DEF Seqs!Result
  <2> HIDE DEF c, x
  <2>2. slist_index(p, d) = IF Seqs!Has(x, d) THEN Seqs!First(x, d) - 1 ELSE -1
    BY <1>9 DEF slist_index
  <2>3. Returns(c, Seqs!Result(x, c))
    BY <1>10, <2>1, <2>2 DEF c
  <2> QED BY <1>5, <2>1, <2>3
<1>11. ASSUME NEW d \in ListData,
              Returns([op |-> "find", l |-> l, d |-> d],
                      LET z == slist_find(p, d) IN IF z = NULL THEN <<>> ELSE <<StepOf(p, z)>>)
       PROVE  CallDone(cs)
  <2> DEFINE c == [op |-> "find", l |-> l, d |-> d]
             z == slist_find(p, d)
  <2>1. Seqs!Result(x, c) = (IF Seqs!Has(x, d) THEN <<Seqs!First(x, d) - 1>> ELSE <<>>)
        /\ c.op = "find" /\ c.l = l
    BY DEF Seqs!Result
  <2>3. Returns(c, IF z = NULL THEN <<>> ELSE <<StepOf(p, z)>>)
    BY <1>11
  <2> HIDE DEF c, x
  <2>2. Seqs!Result(x, c) = IF z = NULL THEN <<>> ELSE <<StepOf(p, z)>>
    BY <1>3, <1>9, <2>1
  <2>4. Returns(c, Seqs!Result(x, c))
    <3> HIDE DEF z
    <3> QED BY <2>2, <2>3
  <2> QED BY <1>5, <2>1, <2>4
<1>12. ASSUME NEW i \in Int,
              Returns([op |-> "nth_data", l |-> l, i |-> i], slist_nth_data(p, i))
       PROVE  CallDone(cs)
  <2> DEFINE c == [op |-> "nth_data", l |-> l, i |-> i]
             k == IF i < 0 THEN 1 ELSE i + 1
             j == IF i > 0 THEN i ELSE 0
  <2>1. Seqs!Result(x, c) = (IF k <= Len(x) THEN <<x[k]>> ELSE <<>>)
        /\ c.op = "nth_data" /\ c.l = l
    BY DEF Seqs!Result
  <2>2. j \in Nat /\ j + 1 = k /\ k >= 1
    OBVIOUS
  <2>3. slist_nth(p, i) = At(s, k)
    <3>1. slist_nth(p, i) = Follow(p)[j]
      BY DEF slist_nth
    <3> HIDE DEF j, k
    <3> QED BY <1>2, <2>2, <3>1
  <2> HIDE DEF c, x, k
  <2>4. slist_nth_data(p, i) = IF k <= Len(x) THEN <<x[k]>> ELSE <<>>
    <3>1. CASE k <= Len(x)
      <4>1. k \in 1 .. Len(s)
        BY <1>1, <2>2, <3>1
      <4> QED BY <1>1, <1>3, <2>3, <3>1, <4>1 DEF slist_nth_data
    <3>2. CASE ~(k <= Len(x))
      <4>1. At(s, k) = NULL
        BY <1>1, <2>2, <3>2 DEF At
      <4> QED BY <2>3, <3>2, <4>1 DEF slist_nth_data
    <3> QED BY <3>1, <3>2
  <2>5. Returns(c, Seqs!Result(x, c))
    BY <1>12, <2>1, <2>4 DEF c
  <2> QED BY <1>5, <2>1, <2>5
<1>13. \/ Returns([op |-> "size", l |-> l], <<slist_size(p)>>)
       \/ Returns([op |-> "work", l |-> l], slist_work(p))
       \/ Returns([op |-> "last", l |-> l],
                  LET z == slist_last(p) IN IF z = NULL THEN <<>> ELSE <<cell[z].data>>)
       \/ \E d \in ListData :
            \/ Returns([op |-> "index", l |-> l, d |-> d], <<slist_index(p, d)>>)
            \/ Returns([op |-> "find", l |-> l, d |-> d],
                       LET z == slist_find(p, d) IN IF z = NULL THEN <<>> ELSE <<StepOf(p, z)>>)
       \/ \E i \in Positions :
            Returns([op |-> "nth_data", l |-> l, i |-> i], slist_nth_data(p, i))
  BY DEF ReadList, p
<1>14. Positions \subseteq Int
  BY SListAssumption
<1> QED BY <1>6, <1>7, <1>8, <1>10, <1>11, <1>12, <1>13, <1>14

\* f goes over the items of x and keeps those that are in S.
OnlyRun(x, S, f) ==
  /\ f[0] = <<>> /\ Seqs!Only(x, S) = f[Len(x)]
  /\ \A i \in Nat : f[i] \in Seq(ListData)
  /\ \A i \in Nat : i # 0 => f[i] = IF x[i] \in S THEN Append(f[i - 1], x[i]) ELSE f[i - 1]

\* The loop over the items of a sequence: what is kept before each of them.
LEMMA OnlySteps ==
  \A x \in Seq(ListData) : \A S \in SUBSET ListData : \E f : OnlyRun(x, S, f)
<1> SUFFICES ASSUME NEW x \in Seq(ListData), NEW S, S \subseteq ListData
             PROVE  \E f : OnlyRun(x, S, f)
  OBVIOUS
<1> DEFINE U == Seq(ListData)
           F == [i \in Nat |-> [u \in U |-> IF x[i] \in S THEN Append(u, x[i]) ELSE u]]
           Is(g) == g = [i \in Nat |-> IF i = 0 THEN <<>>
                                       ELSE IF x[i] \in S THEN Append(g[i - 1], x[i]) ELSE g[i - 1]]
<1>a. PICK e : e = <<>>
  OBVIOUS
<1>1. \A i \in Nat : \A u \in U : F[i][u] \in U
  OBVIOUS
<1>2. PICK f : IsLoop(f, e, F, U)
  <2>1. e \in U
    BY <1>a
  <2> HIDE DEF F, U
  <2> QED BY <1>1, <2>1, LoopExists
<1>3. \A i \in Nat : f[i] \in U
  BY <1>2 DEF IsLoop
<1>4. Is(f)
  <2>1. \A i \in Nat : i # 0 =>
          F[i][f[i - 1]] = IF x[i] \in S THEN Append(f[i - 1], x[i]) ELSE f[i - 1]
    BY <1>3
  <2> HIDE DEF F
  <2> QED BY <1>2, <1>a, <2>1 DEF IsLoop
<1> DEFINE upTo == CHOOSE g : Is(g)
<1>5. Is(upTo)
  <2> HIDE DEF Is
  <2> QED BY <1>4
<1>6. Seqs!Only(x, S) = upTo[Len(x)]
  BY DEF Seqs!Only
<1> HIDE DEF upTo
<1>7. upTo[0] = <<>> /\ \A i \in Nat : i # 0 =>
        upTo[i] = IF x[i] \in S THEN Append(upTo[i - 1], x[i]) ELSE upTo[i - 1]
  BY <1>5
<1> DEFINE good == {i \in Nat : upTo[i] \in U}
<1>8. \A i \in Nat : i \in good
  <2>1. 0 \in good
    <3>1. upTo[0] \in U
      BY <1>a, <1>7
    <3> QED BY <3>1
  <2>2. ASSUME NEW n \in Nat, n \in good PROVE n + 1 \in good
    <3>1. n + 1 # 0 /\ n + 1 \in Nat /\ n + 1 - 1 = n /\ upTo[n] \in U
      BY <2>2
    <3>2. upTo[n + 1] = IF x[n + 1] \in S THEN Append(upTo[n], x[n + 1]) ELSE upTo[n]
      BY <1>7, <3>1
    <3>3. upTo[n + 1] \in U
      BY <3>1, <3>2
    <3> QED BY <3>1, <3>3
  <2> HIDE DEF good
  <2> QED BY <2>1, <2>2, AllNats
<1>9. OnlyRun(x, S, upTo)
  BY <1>6, <1>7, <1>8 DEF OnlyRun
<1> QED BY <1>9

\* What the variables of the loop of slist_remove_by_data_x can hold.
Removals == [cell : Heaps, walk : Pointers, tmp : Pointers, out : Pointers,
             gone : SUBSET Cells, given : Seq(ListData)]

\* A turn of slist_remove_by_data keeps the types of its variables.
LEMMA RemoveTurnType ==
  ASSUME NEW u \in Removals, NEW d \in ListData
  PROVE  RemoveTurn(u, d) \in Removals
<1> DEFINE nxt == u.cell[u.walk].next
           freed == [u EXCEPT !.walk = nxt, !.gone = @ \cup {u.walk}, !.given = Append(@, d)]
<1>1. /\ u = [cell |-> u.cell, walk |-> u.walk, tmp |-> u.tmp, out |-> u.out, gone |-> u.gone,
              given |-> u.given]
      /\ u.cell \in Heaps /\ u.walk \in Pointers /\ u.tmp \in Pointers /\ u.out \in Pointers
      /\ u.gone \subseteq Cells /\ u.given \in Seq(ListData)
  BY DEF Removals
<1>2. CASE u.walk = NULL
  BY <1>2 DEF RemoveTurn
<1>3. CASE u.walk # NULL
  <2>1. u.walk \in Cells /\ nxt \in Pointers
    BY <1>1, <1>3 DEF Pointers, Heaps
  <2>2. freed \in Removals
    <3>1. Append(u.given, d) \in Seq(ListData)
      BY <1>1
    <3> HIDE DEF nxt
    <3> QED BY <1>1, <2>1, <3>1 DEF Removals
  <2>3. [u EXCEPT !.tmp = u.walk, !.walk = nxt] \in Removals
    BY <1>1, <2>1 DEF Removals
  <2>4. [freed EXCEPT !.out = nxt, !.tmp = nxt] \in Removals
    <3> HIDE DEF nxt, freed
    <3> QED BY <2>1, <2>2 DEF Removals
  <2>5. [freed EXCEPT !.cell[u.tmp].next = nxt] \in Removals
    <3>1. freed.cell \in Heaps
      BY <2>2 DEF Removals
    <3> HIDE DEF nxt, freed
    <3>2. [freed.cell EXCEPT ![u.tmp].next = nxt] \in Heaps
      BY <2>1, <3>1 DEF Heaps
    <3> QED BY <2>2, <3>2 DEF Removals
  <2>6. RemoveTurn(u, d) =
          IF u.cell[u.walk].data # d THEN [u EXCEPT !.tmp = u.walk, !.walk = nxt]
          ELSE IF u.tmp = u.walk THEN [freed EXCEPT !.out = nxt, !.tmp = nxt]
          ELSE [freed EXCEPT !.cell[u.tmp].next = nxt]
    BY <1>3 DEF RemoveTurn
  <2> HIDE DEF nxt, freed
  <2> QED BY <2>3, <2>4, <2>5, <2>6
<1> QED BY <1>2, <1>3

\* The states of that loop.
LEMMA RemovalLoop ==
  \A p, d : cell \in Heaps /\ p \in Pointers /\ d \in ListData =>
    \E f : /\ f[0] = [cell |-> cell, walk |-> p, tmp |-> p, out |-> p, gone |-> {}, given |-> <<>>]
           /\ \A i \in Nat : f[i] \in Removals
           /\ \A i \in Nat : i # 0 => f[i] = RemoveTurn(f[i - 1], d)
           /\ Removed(p, d) = f[slist_size(p)]
<1> SUFFICES ASSUME NEW p \in Pointers, NEW d \in ListData, cell \in Heaps
    PROVE
    \E f : /\ f[0] = [cell |-> cell, walk |-> p, tmp |-> p, out |-> p, gone |-> {}, given |-> <<>>]
           /\ \A i \in Nat : f[i] \in Removals
           /\ \A i \in Nat : i # 0 => f[i] = RemoveTurn(f[i - 1], d)
           /\ Removed(p, d) = f[slist_size(p)]
  OBVIOUS
<1> DEFINE F == [i \in Nat |-> [u \in Removals |-> RemoveTurn(u, d)]]
           x == [cell |-> cell, walk |-> p, tmp |-> p, out |-> p, gone |-> {}, given |-> <<>>]
           Is(g) == g = [i \in Nat |-> IF i = 0 THEN x ELSE RemoveTurn(g[i - 1], d)]
           after == CHOOSE g : Is(g)
<1>1. \A i \in Nat : \A u \in Removals : F[i][u] \in Removals
  BY RemoveTurnType
<1>2. x \in Removals
  BY DEF Removals
<1>3. PICK f : IsLoop(f, x, F, Removals)
  <2> HIDE DEF F, x
  <2> QED BY <1>1, <1>2, LoopExists
<1>4. Is(f)
  <2>1. \A i \in Nat : i # 0 => F[i][f[i - 1]] = RemoveTurn(f[i - 1], d)
    <3>1. \A i \in Nat : i # 0 => i - 1 \in Nat
      OBVIOUS
    <3>2. \A i \in Nat : f[i] \in Removals
      BY <1>3 DEF IsLoop
    <3> HIDE DEF x, after
    <3> QED BY <3>1, <3>2
  <2> HIDE DEF F, x
  <2> QED BY <1>3, <2>1 DEF IsLoop
<1>5. Is(after)
  <2> HIDE DEF Is
  <2> QED BY <1>4
<1>6. Removed(p, d) = after[slist_size(p)]
  BY DEF Removed
<1> HIDE DEF after, x
<1>7. after[0] = x /\ \A i \in Nat : i # 0 => after[i] = RemoveTurn(after[i - 1], d)
  BY <1>5
<1> DEFINE good == {i \in Nat : after[i] \in Removals}
<1>8. \A i \in Nat : i \in good
  <2>1. 0 \in good
    BY <1>2, <1>7
  <2>2. ASSUME NEW n \in Nat, n \in good PROVE n + 1 \in good
    <3>1. n + 1 # 0 /\ n + 1 \in Nat /\ n + 1 - 1 = n /\ after[n] \in Removals
      BY <2>2
    <3> QED BY <1>7, <3>1, RemoveTurnType
  <2> HIDE DEF good
  <2> QED BY <2>1, <2>2, AllNats
<1> QED BY <1>6, <1>7, <1>8 DEF x

\* After i turns of that loop over the chain s in h: w is what is left of it, the cells that were
\* kept, m of them, and those that are still to come.
Remains(h, s, i, u, kept, given, w, m) ==
  /\ w \in Seq(Cells) /\ m \in Nat
  /\ IsChain(u.cell, u.out, w) /\ Len(w) = m + (Len(s) - i)
  /\ \A j \in 1 .. Len(s) - i : w[m + j] = s[i + j]
  /\ u.walk = At(s, i + 1) /\ u.tmp = (IF m = 0 THEN u.walk ELSE w[m])
  /\ Len(kept) = m /\ \A j \in 1 .. m : kept[j] = h[w[j]].data
  /\ u.given = given
  /\ CellsOf(w) \cup u.gone = CellsOf(s) /\ CellsOf(w) \cap u.gone = {}
  /\ \A c \in Cells : u.cell[c].data = h[c].data /\ (c \notin CellsOf(s) => u.cell[c] = h[c])

\* A turn that keeps the cell.
LEMMA KeepTurn ==
  ASSUME NEW h, NEW p, NEW s, IsChain(h, p, s), NEW d \in ListData, NEW i \in 0 .. Len(s) - 1,
         NEW u \in Removals, NEW kept \in Seq(ListData), NEW given, NEW w, NEW m,
         Remains(h, s, i, u, kept, given, w, m), h[s[i + 1]].data # d
  PROVE  Remains(h, s, i + 1, RemoveTurn(u, d), Append(kept, h[s[i + 1]].data), given, w, m + 1)
<1> DEFINE c == s[i + 1]
           v == [u EXCEPT !.tmp = u.walk, !.walk = u.cell[u.walk].next]
<1>1. /\ Len(s) \in Nat /\ i \in Nat /\ i + 1 \in 1 .. Len(s) /\ c \in Cells /\ c # NULL
      /\ h[c].data \in ListData
  <2>1. Len(s) \in Nat
    BY ChainPlaces
  <2>2. i + 1 \in 1 .. Len(s) /\ i \in Nat
    BY <2>1
  <2> QED BY <2>1, <2>2, ChainPlaces
<1>2. /\ w \in Seq(Cells) /\ m \in Nat
      /\ IsChain(u.cell, u.out, w) /\ Len(w) = m + (Len(s) - i)
      /\ \A j \in 1 .. Len(s) - i : w[m + j] = s[i + j]
      /\ u.walk = c /\ Len(kept) = m /\ \A j \in 1 .. m : kept[j] = h[w[j]].data
      /\ u.given = given
      /\ CellsOf(w) \cup u.gone = CellsOf(s) /\ CellsOf(w) \cap u.gone = {}
      /\ \A b \in Cells : u.cell[b].data = h[b].data /\ (b \notin CellsOf(s) => u.cell[b] = h[b])
  BY <1>1 DEF Remains, At
<1>3. RemoveTurn(u, d) = v
  BY <1>1, <1>2 DEF RemoveTurn
<1>4. /\ v.cell = u.cell /\ v.out = u.out /\ v.gone = u.gone /\ v.given = u.given
      /\ v.tmp = c /\ v.walk = u.cell[c].next
  BY <1>2 DEF Removals
<1> HIDE DEF v, c
<1>5. w[m + 1] = c /\ m + 1 \in 1 .. Len(w)
  <2>1. 1 \in 1 .. Len(s) - i
    BY <1>1
  <2>2. w[m + 1] = s[i + 1]
    BY <1>2, <2>1
  <2>3. m + 1 \in 1 .. Len(w)
    <3>1. Len(s) - i \in Nat /\ Len(s) - i >= 1
      BY <1>1
    <3>2. Len(w) = m + (Len(s) - i) /\ m \in Nat
      BY <1>2
    <3> QED BY <3>1, <3>2
  <2> QED BY <2>2, <2>3 DEF c
<1>6. v.walk = At(s, i + 1 + 1)
  <2>1. u.cell[c].next = At(w, m + 1 + 1)
    BY <1>2, <1>5, ChainPlaces
  <2>2. CASE i + 2 \in 1 .. Len(s)
    <3>1. 2 \in 1 .. Len(s) - i /\ m + 2 \in 1 .. Len(w) /\ m + 1 + 1 = m + 2 /\ i + 1 + 1 = i + 2
      BY <1>1, <1>2, <2>2
    <3>2. w[m + 2] = s[i + 2]
      BY <1>2, <3>1
    <3> QED BY <1>4, <2>1, <2>2, <3>1, <3>2 DEF At
  <2>3. CASE i + 2 \notin 1 .. Len(s)
    <3>1. m + 1 + 1 \notin 1 .. Len(w) /\ i + 1 + 1 \notin 1 .. Len(s)
      BY <1>1, <1>2, <2>3
    <3> QED BY <1>4, <2>1, <3>1 DEF At
  <2> QED BY <2>2, <2>3
<1>7. Len(w) = m + 1 + (Len(s) - (i + 1))
  BY <1>1, <1>2
<1>8. ASSUME NEW j \in 1 .. Len(s) - (i + 1) PROVE w[m + 1 + j] = s[i + 1 + j]
  <2>1. j + 1 \in 1 .. Len(s) - i /\ m + (j + 1) = m + 1 + j /\ i + (j + 1) = i + 1 + j
    BY <1>1, <1>2
  <2>2. w[m + (j + 1)] = s[i + (j + 1)]
    BY <1>2, <2>1
  <2> QED BY <2>1, <2>2
<1> DEFINE k == Append(kept, h[c].data)
<1>9. Len(k) = m + 1 /\ \A j \in 1 .. m + 1 : k[j] = h[w[j]].data
  <2>1. Len(k) = m + 1 /\ k[m + 1] = h[c].data /\ \A j \in 1 .. m : k[j] = kept[j]
    BY <1>1, <1>2, AppendProperties
  <2> HIDE DEF k
  <2> QED BY <1>2, <1>5, <2>1
<1>10. v.tmp = (IF m + 1 = 0 THEN v.walk ELSE w[m + 1]) /\ m + 1 \in Nat
  BY <1>2, <1>4, <1>5
<1>11. Remains(h, s, i + 1, v, k, given, w, m + 1)
  <2> HIDE DEF k
  <2> QED BY <1>2, <1>4, <1>6, <1>7, <1>8, <1>9, <1>10 DEF Remains
<1> QED BY <1>3, <1>11 DEF c

\* In g the cell before the place i of s points behind that place; the others are as in h.
Unlinked(h, g, s, i) ==
  /\ i > 0 => g[s[i]].next = h[s[i + 1]].next /\ g[s[i]].data = h[s[i]].data
  /\ \A b \in CellsOf(s) : (i > 0 => b # s[i]) => g[b] = h[b]

\* The chain of which one cell was unlinked.
LEMMA DropUnlinked ==
  \A h, g, p, s, i, q :
     IsChain(h, p, s) /\ i \in 0 .. Len(s) - 1 /\ Unlinked(h, g, s, i)
     /\ q = (IF i = 0 THEN h[s[1]].next ELSE p) =>
       /\ IsChain(g, q, Seqs!Drop(s, i))
       /\ CellsOf(Seqs!Drop(s, i)) = CellsOf(s) \ {s[i + 1]}
BY DropChain DEF Unlinked

\* A turn that frees the cell.
LEMMA FreeTurn ==
  ASSUME NEW h, NEW p, NEW s, IsChain(h, p, s), NEW d \in ListData, NEW i \in 0 .. Len(s) - 1,
         NEW u \in Removals, NEW kept, NEW given, NEW w, NEW m,
         Remains(h, s, i, u, kept, given, w, m), h[s[i + 1]].data = d
  PROVE  Remains(h, s, i + 1, RemoveTurn(u, d), kept, Append(given, d), Seqs!Drop(w, m), m)
<1> DEFINE c == s[i + 1]
           v == RemoveTurn(u, d)
           t == Seqs!Drop(w, m)
           nxt == u.cell[c].next
<1>1. /\ Len(s) \in Nat /\ i \in Nat /\ i + 1 \in 1 .. Len(s) /\ c \in Cells /\ c # NULL
      /\ c \in CellsOf(s) /\ CellsOf(s) \subseteq Cells
      /\ \A j, k \in 1 .. Len(s) : s[j] = s[k] => j = k
  <2>1. Len(s) \in Nat
    BY ChainPlaces
  <2>2. i + 1 \in 1 .. Len(s) /\ i \in Nat
    BY <2>1
  <2> QED BY <2>1, <2>2, ChainPlaces
<1>2. /\ w \in Seq(Cells) /\ m \in Nat
      /\ IsChain(u.cell, u.out, w) /\ Len(w) = m + (Len(s) - i)
      /\ \A j \in 1 .. Len(s) - i : w[m + j] = s[i + j]
      /\ u.walk = c /\ Len(kept) = m /\ \A j \in 1 .. m : kept[j] = h[w[j]].data
      /\ u.tmp = (IF m = 0 THEN c ELSE w[m])
      /\ u.given = given
      /\ CellsOf(w) \cup u.gone = CellsOf(s) /\ CellsOf(w) \cap u.gone = {}
      /\ \A b \in Cells : u.cell[b].data = h[b].data /\ (b \notin CellsOf(s) => u.cell[b] = h[b])
  BY <1>1 DEF Remains, At
<1> HIDE DEF c
<1>3. w[m + 1] = c /\ m + 1 \in 1 .. Len(w) /\ m \in 0 .. Len(w) - 1
  <2>1. 1 \in 1 .. Len(s) - i
    BY <1>1
  <2>2. w[m + 1] = s[i + 1]
    BY <1>2, <2>1
  <2>3. m + 1 \in 1 .. Len(w) /\ m \in 0 .. Len(w) - 1
    <3>1. Len(s) - i \in Nat /\ Len(s) - i >= 1
      BY <1>1
    <3>2. Len(w) = m + (Len(s) - i) /\ m \in Nat
      BY <1>2
    <3> QED BY <3>1, <3>2
  <2> QED BY <2>2, <2>3 DEF c
<1>4. /\ \A j \in 1 .. Len(w) : w[j] \in Cells /\ w[j] # NULL
      /\ \A j, k \in 1 .. Len(w) : w[j] = w[k] => j = k
      /\ nxt = At(w, m + 1 + 1)
  <2>1. IsChain(u.cell, u.out, w)
    BY <1>2
  <2> HIDE DEF nxt
  <2>2. /\ \A j \in 1 .. Len(w) : w[j] \in Cells /\ w[j] # NULL
        /\ \A j, k \in 1 .. Len(w) : w[j] = w[k] => j = k
        /\ \A j \in 1 .. Len(w) : u.cell[w[j]].next = At(w, j + 1)
    BY <2>1, ChainPlaces
  <2>3. u.cell[w[m + 1]].next = At(w, m + 1 + 1)
    BY <1>3, <2>2
  <2> QED BY <1>3, <2>2, <2>3 DEF nxt
<1>5. m > 0 => m \in 1 .. Len(w) /\ w[m] # c
  <2>1. m > 0 => m \in 1 .. Len(w) /\ m # m + 1
    BY <1>2, <1>3
  <2> QED BY <1>3, <1>4, <2>1
<1>6. u.cell \in Heaps /\ u.cell[c] \in [data : ListData \cup {NULL}, next : Pointers]
      /\ u.cell[c].data = d
  BY <1>1, <1>2 DEF Removals, Heaps, c
<1>7. /\ v.walk = nxt /\ v.gone = u.gone \cup {c} /\ v.given = Append(given, d)
      /\ v.tmp = (IF m = 0 THEN nxt ELSE w[m])
      /\ v.out = (IF m = 0 THEN nxt ELSE u.out)
      /\ v.cell = (IF m = 0 THEN u.cell ELSE [u.cell EXCEPT ![w[m]].next = nxt])
  <2> DEFINE freed == [u EXCEPT !.walk = nxt, !.gone = @ \cup {u.walk}, !.given = Append(@, d)]
  <2>1. v = IF u.tmp = c THEN [freed EXCEPT !.out = nxt, !.tmp = nxt]
            ELSE [freed EXCEPT !.cell[u.tmp].next = nxt]
    BY <1>1, <1>2, <1>6 DEF RemoveTurn
  <2>2. u.tmp = c <=> m = 0
    BY <1>2, <1>5
  <2> HIDE DEF nxt
  <2>3. /\ freed.walk = nxt /\ freed.gone = u.gone \cup {c} /\ freed.given = Append(given, d)
        /\ freed.tmp = u.tmp /\ freed.out = u.out /\ freed.cell = u.cell
        /\ freed = [cell |-> freed.cell, walk |-> freed.walk, tmp |-> freed.tmp, out |-> freed.out,
                    gone |-> freed.gone, given |-> freed.given]
    <3>1. PICK uc, uw, ut, uo, ug, uv :
            u = [cell |-> uc, walk |-> uw, tmp |-> ut, out |-> uo, gone |-> ug, given |-> uv]
      BY DEF Removals
    <3>2. uw = c /\ uv = given
      BY <1>2, <3>1
    <3>3. freed = [cell |-> uc, walk |-> nxt, tmp |-> ut, out |-> uo,
                   gone |-> ug \cup {uw}, given |-> Append(uv, d)]
      <4> HIDE <1>1, <1>2
      <4>1. /\ u.gone = ug /\ u.walk = uw /\ u.given = uv
        BY <3>1
      <4>2. freed = [u EXCEPT !.walk = nxt, !.gone = ug \cup {uw}, !.given = Append(uv, d)]
        BY <4>1
      <4> HIDE DEF freed
      <4> QED BY <3>1, <4>2
    <3> HIDE DEF freed
    <3> QED BY <3>1, <3>2, <3>3
  <2> HIDE DEF v, freed
  <2>4. CASE m = 0
    <3>1. v = [freed EXCEPT !.out = nxt, !.tmp = nxt]
      BY <2>1, <2>2, <2>4
    <3> QED BY <2>3, <2>4, <3>1
  <2>5. CASE m # 0
    <3>1. v = [freed EXCEPT !.cell[w[m]].next = nxt]
      BY <1>2, <2>1, <2>2, <2>5
    <3> QED BY <1>2, <2>3, <2>5, <3>1
  <2> QED BY <2>4, <2>5
<1> HIDE DEF v
<1>8. /\ m > 0 => v.cell[w[m]].next = nxt /\ v.cell[w[m]].data = u.cell[w[m]].data
      /\ \A b \in Cells : (m > 0 => b # w[m]) => v.cell[b] = u.cell[b]
      /\ \A b \in Cells : v.cell[b].data = u.cell[b].data
  <2>1. CASE m = 0
    BY <1>7, <2>1
  <2>2. CASE m # 0
    <3>1. w[m] \in Cells /\ m > 0 /\ nxt \in Pointers
      BY <1>2, <1>4, <1>5, <1>6, <2>2
    <3> HIDE DEF nxt
    <3>2. \A b \in Cells : u.cell[b] \in [data : ListData \cup {NULL}, next : Pointers]
      BY <1>6 DEF Heaps
    <3>3. \A b \in Cells :
            v.cell[b] = IF b = w[m] THEN [u.cell[b] EXCEPT !.next = nxt] ELSE u.cell[b]
      BY <1>6, <1>7, <2>2 DEF Heaps
    <3> QED BY <3>1, <3>2, <3>3
  <2> QED BY <2>1, <2>2
<1>9. /\ IsChain(v.cell, IF m = 0 THEN u.cell[w[1]].next ELSE u.out, t)
      /\ CellsOf(t) = CellsOf(w) \ {c}
  <2>1. \A b \in CellsOf(w) : (m > 0 => b # w[m]) => v.cell[b] = u.cell[b]
    BY <1>4, <1>8 DEF CellsOf
  <2>2. m > 0 => v.cell[w[m]].next = u.cell[w[m + 1]].next /\ v.cell[w[m]].data = u.cell[w[m]].data
    BY <1>3, <1>8
  <2>3. IsChain(u.cell, u.out, w) /\ m \in 0 .. Len(w) - 1
    BY <1>2, <1>3
  <2> HIDE DEF t, nxt
  <2>4. /\ IsChain(v.cell, IF m = 0 THEN u.cell[w[1]].next ELSE u.out, Seqs!Drop(w, m))
        /\ CellsOf(Seqs!Drop(w, m)) = CellsOf(w) \ {w[m + 1]}
    <3>1. PICK a, b, q : a = u.cell /\ b = v.cell /\ q = u.out
      OBVIOUS
    <3>2. IsChain(a, q, w) /\ m \in 0 .. Len(w) - 1
      BY <2>3, <3>1
    <3>3. m > 0 => b[w[m]].next = a[w[m + 1]].next /\ b[w[m]].data = a[w[m]].data
      BY <2>2, <3>1
    <3>4. \A k \in CellsOf(w) : (m > 0 => k # w[m]) => b[k] = a[k]
      BY <2>1, <3>1
    <3>5. /\ IsChain(b, IF m = 0 THEN a[w[1]].next ELSE q, Seqs!Drop(w, m))
          /\ CellsOf(Seqs!Drop(w, m)) = CellsOf(w) \ {w[m + 1]}
      <4>1. Unlinked(a, b, w, m)
        BY <3>3, <3>4 DEF Unlinked
      <4>2. PICK r : r = IF m = 0 THEN a[w[1]].next ELSE q
        OBVIOUS
      <4>3. /\ IsChain(b, r, Seqs!Drop(w, m))
            /\ CellsOf(Seqs!Drop(w, m)) = CellsOf(w) \ {w[m + 1]}
        BY <3>2, <4>1, <4>2, DropUnlinked
      <4> QED BY <4>2, <4>3
    <3> QED BY <3>1, <3>5
  <2> QED BY <1>3, <2>4 DEF t
<1>10. IsChain(v.cell, v.out, t)
  <2>1. m = 0 => w[1] = c
    BY <1>3
  <2> QED BY <1>7, <1>9, <2>1
<1>11. /\ t \in Seq(Cells) /\ Len(t) = Len(w) - 1
       /\ \A j \in 1 .. Len(w) - 1 : t[j] = IF j <= m THEN w[j] ELSE w[j + 1]
  <2>1. w \in Seq(Cells) /\ m \in 0 .. Len(w) - 1
    BY <1>2, <1>3
  <2>2. /\ Seqs!Drop(w, m) \in Seq(Cells) /\ Len(Seqs!Drop(w, m)) = Len(w) - 1
        /\ \A j \in 1 .. Len(w) - 1 : Seqs!Drop(w, m)[j] = IF j <= m THEN w[j] ELSE w[j + 1]
    BY <2>1, DropFacts
  <2> QED BY <2>2
<1> HIDE DEF t
<1>12. Len(t) = m + (Len(s) - (i + 1))
  BY <1>1, <1>2, <1>11
<1>13. ASSUME NEW j \in 1 .. Len(s) - (i + 1) PROVE t[m + j] = s[i + 1 + j]
  <2>1. /\ j + 1 \in 1 .. Len(s) - i /\ m + (j + 1) = m + j + 1 /\ i + (j + 1) = i + 1 + j
        /\ m + j \in 1 .. Len(w) - 1 /\ ~(m + j <= m)
    BY <1>1, <1>2
  <2>2. w[m + (j + 1)] = s[i + (j + 1)]
    BY <1>2, <2>1
  <2>3. t[m + j] = w[m + j + 1]
    BY <1>11, <2>1
  <2> QED BY <2>1, <2>2, <2>3
<1>14. v.walk = At(s, i + 1 + 1)
  <2>1. CASE i + 2 \in 1 .. Len(s)
    <3>1. 2 \in 1 .. Len(s) - i /\ m + 2 \in 1 .. Len(w) /\ m + 1 + 1 = m + 2 /\ i + 1 + 1 = i + 2
      BY <1>1, <1>2, <2>1
    <3>2. w[m + 2] = s[i + 2]
      BY <1>2, <3>1
    <3> QED BY <1>4, <1>7, <2>1, <3>1, <3>2 DEF At
  <2>2. CASE i + 2 \notin 1 .. Len(s)
    <3>1. m + 1 + 1 \notin 1 .. Len(w) /\ i + 1 + 1 \notin 1 .. Len(s)
      BY <1>1, <1>2, <2>2
    <3> QED BY <1>4, <1>7, <3>1 DEF At
  <2> QED BY <2>1, <2>2
<1>15. v.tmp = IF m = 0 THEN v.walk ELSE t[m]
  <2>1. m # 0 => m \in 1 .. Len(w) - 1 /\ m <= m
    BY <1>2, <1>3
  <2> QED BY <1>7, <1>11, <2>1
<1>16. \A j \in 1 .. m : kept[j] = h[t[j]].data
  <2>1. \A j \in 1 .. m : j \in 1 .. Len(w) - 1 /\ j <= m
    BY <1>2, <1>3
  <2> QED BY <1>2, <1>11, <2>1
<1>17. CellsOf(t) \cup v.gone = CellsOf(s) /\ CellsOf(t) \cap v.gone = {}
  <2>1. c \in CellsOf(w)
    BY <1>3 DEF CellsOf
  <2> QED BY <1>1, <1>2, <1>7, <1>9, <2>1
<1>18. \A b \in Cells : v.cell[b].data = h[b].data /\ (b \notin CellsOf(s) => v.cell[b] = h[b])
  <2>1. m > 0 => w[m] \in CellsOf(s)
    <3>1. m > 0 => w[m] \in CellsOf(w)
      BY <1>5 DEF CellsOf
    <3> QED BY <1>2, <3>1
  <2> QED BY <1>2, <1>8, <2>1
<1>19. Remains(h, s, i + 1, v, kept, Append(given, d), t, m)
  <2> HIDE DEF nxt
  <2> QED BY <1>2, <1>7, <1>10, <1>11, <1>12, <1>13, <1>14, <1>15, <1>16, <1>17, <1>18 DEF Remains
<1> QED BY <1>19 DEF v, t

\* Before the first turn nothing is removed.
LEMMA RemovalStarts ==
  ASSUME NEW h \in Heaps, NEW p, NEW s, IsChain(h, p, s), NEW e, e = <<>>,
         NEW u, u = [cell |-> h, walk |-> p, tmp |-> p, out |-> p, gone |-> {}, given |-> e]
  PROVE  Remains(h, s, 0, u, e, e, s, 0)
<1>1. s \in Seq(Cells) /\ Len(s) \in Nat /\ p = At(s, 1)
  BY ChainPlaces
<1>2. /\ u.cell = h /\ u.walk = p /\ u.tmp = p /\ u.out = p /\ u.gone = {} /\ u.given = e
  OBVIOUS
<1>3. Len(e) = 0 /\ \A j \in 1 .. 0 : e[j] = h[s[j]].data
  OBVIOUS
<1>4. Len(s) = 0 + (Len(s) - 0) /\ \A j \in 1 .. Len(s) - 0 : s[0 + j] = s[0 + j]
  BY <1>1
<1>5. p = At(s, 0 + 1)
  BY <1>1
<1> QED BY <1>1, <1>2, <1>3, <1>4, <1>5 DEF Remains

\* In end the cells of s that hold d are gone, and a chain of the others is left.
RemovedFrom(h, s, x, d, end) ==
  /\ end.given = Seqs!Only(x, {d})
  /\ \E w : /\ IsChain(end.cell, end.out, w)
            /\ Items(end.cell, w) = Seqs!Only(x, Seqs!Values(x) \ {d})
            /\ CellsOf(w) \cup end.gone = CellsOf(s) /\ CellsOf(w) \cap end.gone = {}
            /\ \A c \in Cells \ CellsOf(s) : end.cell[c] = h[c]

\* What slist_remove_by_data_x makes of a chain.
LEMMA RemovalEnds ==
  \A p, s, d : cell \in Heaps /\ IsChain(cell, p, s) /\ d \in ListData =>
    Removed(p, d) \in Removals /\ RemovedFrom(cell, s, Items(cell, s), d, Removed(p, d))
<1> SUFFICES ASSUME NEW p, NEW s, NEW d, cell \in Heaps, IsChain(cell, p, s), d \in ListData
             PROVE  /\ Removed(p, d) \in Removals
                    /\ RemovedFrom(cell, s, Items(cell, s), d, Removed(p, d))
  OBVIOUS
<1>a. PICK x : x = Items(cell, s)
  OBVIOUS
<1>b. PICK S : S = Seqs!Values(x) \ {d}
  OBVIOUS
<1>c. PICK h : h = cell
  OBVIOUS
<1>1. /\ x \in Seq(ListData) /\ Len(x) = Len(s) /\ s \in Seq(Cells) /\ Len(s) \in Nat
      /\ \A i \in 1 .. Len(s) : x[i] = h[s[i]].data
      /\ p \in Pointers /\ slist_size(p) = Len(s) /\ IsChain(h, p, s) /\ h \in Heaps
  <2>1. x \in Seq(ListData) /\ Len(x) = Len(s) /\ \A i \in 1 .. Len(s) : x[i] = h[s[i]].data
    BY <1>a, <1>c, ItemsFacts
  <2>2. s \in Seq(Cells) /\ Len(s) \in Nat
    BY ChainPlaces
  <2>3. p \in Pointers
    BY DEF IsChain, At, Pointers
  <2>4. slist_size(p) = Len(s)
    BY ChainReads
  <2> QED BY <1>c, <2>1, <2>2, <2>3, <2>4
<1>2. S \subseteq ListData /\ \A i \in 1 .. Len(s) : x[i] \in S <=> x[i] # d
  BY <1>1, <1>b DEF Seqs!Values
<1>f. PICK One : One = {d}
  OBVIOUS
<1>3. PICK K, R : OnlyRun(x, S, K) /\ OnlyRun(x, One, R)
  <2>1. x \in Seq(ListData) /\ S \in SUBSET ListData /\ One \in SUBSET ListData
    BY <1>1, <1>2, <1>f
  <2> QED BY <2>1, OnlySteps
<1>g. /\ K[0] = <<>> /\ Seqs!Only(x, S) = K[Len(x)]
      /\ \A i \in Nat : K[i] \in Seq(ListData)
      /\ \A i \in Nat : i # 0 =>
           K[i] = IF x[i] \in S THEN Append(K[i - 1], x[i]) ELSE K[i - 1]
  BY <1>3 DEF OnlyRun
<1>4. /\ R[0] = <<>> /\ Seqs!Only(x, One) = R[Len(x)]
      /\ \A i \in Nat : R[i] \in Seq(ListData)
      /\ \A i \in Nat : i # 0 =>
           R[i] = IF x[i] \in One THEN Append(R[i - 1], x[i]) ELSE R[i - 1]
  BY <1>3 DEF OnlyRun
<1>5. PICK f :
        /\ f[0] = [cell |-> cell, walk |-> p, tmp |-> p, out |-> p, gone |-> {}, given |-> <<>>]
        /\ \A i \in Nat : f[i] \in Removals
        /\ \A i \in Nat : i # 0 => f[i] = RemoveTurn(f[i - 1], d)
        /\ Removed(p, d) = f[slist_size(p)]
  BY <1>1, RemovalLoop
<1> DEFINE good == {i \in Nat : i <= Len(s) =>
                      \E w, m : Remains(h, s, i, f[i], K[i], R[i], w, m)}
<1>6. 0 \in good
  <2>1. PICK e : e = <<>>
    OBVIOUS
  <2>2. PICK u : u = f[0]
    OBVIOUS
  <2>3. u = [cell |-> h, walk |-> p, tmp |-> p, out |-> p, gone |-> {}, given |-> e]
    BY <1>5, <1>c, <2>1, <2>2
  <2>4. Remains(h, s, 0, u, e, e, s, 0)
    BY <1>1, <2>1, <2>3, RemovalStarts
  <2> QED BY <1>g, <1>4, <2>1, <2>2, <2>4
<1>7. ASSUME NEW n \in Nat, n \in good PROVE n + 1 \in good
  <2> SUFFICES ASSUME n + 1 <= Len(s)
               PROVE  \E w, m : Remains(h, s, n + 1, f[n + 1], K[n + 1], R[n + 1], w, m)
    OBVIOUS
  <2>1. n \in 0 .. Len(s) - 1 /\ n + 1 \in 1 .. Len(s) /\ n <= Len(s)
    BY <1>1
  <2>2. n + 1 # 0 /\ n + 1 \in Nat /\ n + 1 - 1 = n
    OBVIOUS
  <2>3. PICK w, m : Remains(h, s, n, f[n], K[n], R[n], w, m)
    BY <1>7, <2>1
  <2>4. f[n] \in Removals /\ K[n] \in Seq(ListData) /\ f[n + 1] = RemoveTurn(f[n], d)
    <3>1. \A i \in Nat : i # 0 => f[i] = RemoveTurn(f[i - 1], d)
      BY <1>5
    <3>2. f[n + 1] = RemoveTurn(f[n + 1 - 1], d)
      BY <2>2, <3>1
    <3> QED BY <1>g, <1>5, <2>2, <3>2
  <2>5. PICK y : y = h[s[n + 1]].data
    OBVIOUS
  <2>6. x[n + 1] = y
    BY <1>1, <2>1, <2>5
  <2>9. K[n + 1] = IF x[n + 1] \in S THEN Append(K[n], x[n + 1]) ELSE K[n]
    <3>1. \A i \in Nat : i # 0 =>
            K[i] = IF x[i] \in S THEN Append(K[i - 1], x[i]) ELSE K[i - 1]
      BY <1>g
    <3>2. K[n + 1] = IF x[n + 1] \in S THEN Append(K[n + 1 - 1], x[n + 1]) ELSE K[n + 1 - 1]
      BY <2>2, <3>1
    <3> QED BY <2>2, <3>2
  <2>10. R[n + 1] = IF x[n + 1] \in One THEN Append(R[n], x[n + 1]) ELSE R[n]
    <3>1. \A i \in Nat : i # 0 =>
            R[i] = IF x[i] \in One THEN Append(R[i - 1], x[i]) ELSE R[i - 1]
      BY <1>4
    <3>2. R[n + 1] = IF x[n + 1] \in One THEN Append(R[n + 1 - 1], x[n + 1]) ELSE R[n + 1 - 1]
      BY <2>2, <3>1
    <3> QED BY <2>2, <3>2
  <2>11. (x[n + 1] \in S <=> y # d) /\ (x[n + 1] \in One <=> y = d)
    BY <1>2, <1>f, <2>1, <2>6
  <2>7. CASE y # d
    <3>1. K[n + 1] = Append(K[n], y) /\ R[n + 1] = R[n]
      BY <2>6, <2>7, <2>9, <2>10, <2>11
    <3>2. Remains(h, s, n + 1, RemoveTurn(f[n], d), Append(K[n], h[s[n + 1]].data), R[n], w, m + 1)
      BY <1>1, <2>1, <2>3, <2>4, <2>5, <2>7, KeepTurn
    <3> QED BY <2>4, <2>5, <3>1, <3>2
  <2>8. CASE y = d
    <3>1. R[n + 1] = Append(R[n], d) /\ K[n + 1] = K[n]
      BY <2>6, <2>8, <2>9, <2>10, <2>11
    <3>2. Remains(h, s, n + 1, RemoveTurn(f[n], d), K[n], Append(R[n], d), Seqs!Drop(w, m), m)
      BY <1>1, <2>1, <2>3, <2>4, <2>5, <2>8, FreeTurn
    <3> QED BY <2>4, <3>1, <3>2
  <2> QED BY <2>7, <2>8
<1>8. Len(s) \in good
  <2> HIDE DEF good
  <2>1. \A n \in Nat : n \in good
    BY <1>6, <1>7, AllNats
  <2> QED BY <1>1, <2>1
<1>d. PICK end : end = Removed(p, d)
  OBVIOUS
<1>e. PICK kept, given : kept = K[Len(s)] /\ given = R[Len(s)]
  OBVIOUS
<1>9. PICK w, m : Remains(h, s, Len(s), end, kept, given, w, m)
  BY <1>1, <1>5, <1>8, <1>d, <1>e
<1>10. /\ end \in Removals /\ kept = Seqs!Only(x, S) /\ given = Seqs!Only(x, One)
       /\ kept \in Seq(ListData)
  BY <1>1, <1>g, <1>4, <1>5, <1>d, <1>e
<1>11. /\ w \in Seq(Cells) /\ m \in Nat
       /\ IsChain(end.cell, end.out, w) /\ Len(w) = m + (Len(s) - Len(s))
       /\ Len(kept) = m /\ \A j \in 1 .. m : kept[j] = h[w[j]].data
       /\ end.given = given
       /\ CellsOf(w) \cup end.gone = CellsOf(s) /\ CellsOf(w) \cap end.gone = {}
       /\ \A c \in Cells :
            end.cell[c].data = h[c].data /\ (c \notin CellsOf(s) => end.cell[c] = h[c])
  BY <1>9 DEF Remains
<1>12. Len(w) = m
  BY <1>1, <1>11
<1>13. Items(end.cell, w) = kept
  <2>1. kept = [j \in 1 .. m |-> kept[j]]
    BY <1>10, <1>11
  <2>2. \A j \in 1 .. m : kept[j] = end.cell[w[j]].data
    <3>1. \A j \in 1 .. m : w[j] \in Cells
      BY <1>11, <1>12
    <3> QED BY <1>11, <3>1
  <2> QED BY <1>12, <2>1, <2>2 DEF Items
<1>14. RemovedFrom(h, s, x, d, end)
  <2>1. end.given = Seqs!Only(x, {d}) /\ kept = Seqs!Only(x, Seqs!Values(x) \ {d})
    BY <1>10, <1>11, <1>b, <1>f
  <2> QED BY <1>11, <1>13, <2>1 DEF RemovedFrom
<1> QED BY <1>10, <1>14, <1>a, <1>c, <1>d

\* slist_remove_by_data removes every cell with the item.
LEMMA RemoveByDataDone ==
  ASSUME NEW cs, ListsAre(cs), NEW l \in Lists, NEW d \in ListData, slist_remove_by_data_x(l, d)
  PROVE  CallDone(cs)
<1> DEFINE q == AllItems(cell, cs)
           c == [op |-> "remove_by_data", l |-> l, d |-> d]
<1>a. PICK s, p : s = cs[l] /\ p = list[l]
  OBVIOUS
<1>1. IsChain(cell, p, s) /\ cell \in Heaps /\ q[l] = Items(cell, s)
  BY ListHere, <1>a
<1>b. PICK end, x : end = Removed(p, d) /\ x = q[l]
  OBVIOUS
<1>2. end \in Removals /\ end.given = Seqs!Only(x, {d}) /\ RemovedFrom(cell, s, x, d, end)
  <2>1. end \in Removals /\ RemovedFrom(cell, s, x, d, end)
    <3>1. x = Items(cell, s)
      BY <1>1, <1>b
    <3> HIDE DEF q
    <3> QED BY <1>1, <1>b, <3>1, RemovalEnds
  <2> QED BY <2>1 DEF RemovedFrom
<1>3. PICK t : /\ IsChain(end.cell, end.out, t)
               /\ Items(end.cell, t) = Seqs!Only(x, Seqs!Values(x) \ {d})
               /\ CellsOf(t) \cup end.gone = CellsOf(s) /\ CellsOf(t) \cap end.gone = {}
               /\ \A b \in Cells \ CellsOf(s) : end.cell[b] = cell[b]
  BY <1>2 DEF RemovedFrom
<1>4. /\ cell' = end.cell /\ list' = [list EXCEPT ![l] = end.out] /\ malloced' = malloced \ end.gone
      /\ listCall' = c /\ listRet' = end.given /\ listEnded' = FALSE
  BY <1>a, <1>b DEF slist_remove_by_data_x, Returns
<1>c. PICK out : out = end.out
  OBVIOUS
<1>5. /\ ListsAre([cs EXCEPT ![l] = t])'
      /\ AllItems(cell', [cs EXCEPT ![l] = t]) = [AllItems(cell, cs) EXCEPT ![l] = Items(cell', t)]
  <2>1. malloced \subseteq Cells /\ CellsOf(s) \subseteq malloced
    <3>1. \A m \in Lists : CellsOf(cs[m]) \subseteq Cells
      BY ChainPlaces DEF ListsAre
    <3> QED BY <1>a, <3>1 DEF ListsAre
  <2>2. \A b \in malloced \ CellsOf(cs[l]) : cell'[b] = cell[b]
    BY <1>3, <1>4, <1>a, <2>1
  <2>3. CellsOf(t) \cap (malloced \ CellsOf(cs[l])) = {}
        /\ malloced' = (malloced \ CellsOf(cs[l])) \cup CellsOf(t)
    BY <1>3, <1>4, <1>a, <2>1
  <2>4. IsChain(cell', out, t) /\ cell' \in Heaps /\ list' = [list EXCEPT ![l] = out]
    BY <1>2, <1>3, <1>4, <1>c DEF Removals
  <2> QED BY <2>2, <2>3, <2>4, OneChain
<1> HIDE DEF q
<1>6. /\ Seqs!After(x, c) = Seqs!Only(x, Seqs!Values(x) \ {d})
      /\ Seqs!Result(x, c) = Seqs!Only(x, {d})
  BY DEF Seqs!After, Seqs!Result
<1>7. Answers(q, AllItems(cell', [cs EXCEPT ![l] = t]), c)
  <2>1. AllItems(cell', [cs EXCEPT ![l] = t]) = [q EXCEPT ![l] = Seqs!After(@, c)]
    BY <1>3, <1>4, <1>5, <1>6, <1>b DEF q
  <2>2. listRet' = Seqs!Result(q[l], c) /\ listEnded' = FALSE
    BY <1>2, <1>4, <1>6, <1>b
  <2> QED BY <2>1, <2>2 DEF Answers
<1> QED BY <1>4, <1>5, <1>7 DEF CallDone, q

\* A loop with n turns.
IsBounded(f, x, n, turn, U) ==
  /\ f = [i \in 0 .. n |-> IF i = 0 THEN x ELSE turn[i][f[i - 1]]]
  /\ \A i \in 0 .. n : f[i] \in U

\* Such a loop has a function.
LEMMA BoundedLoop ==
  ASSUME NEW U, NEW x \in U, NEW n \in Nat, NEW turn,
         \A i \in 1 .. n : \A u \in U : turn[i][u] \in U
  PROVE  \E f : IsBounded(f, x, n, turn, U)
<1> DEFINE F == [i \in Nat |-> IF i \in 1 .. n THEN turn[i] ELSE [u \in U |-> x]]
<1>1. \A i \in Nat : \A u \in U : F[i][u] \in U
  OBVIOUS
<1>2. PICK g : IsLoop(g, x, F, U)
  <2> HIDE DEF F
  <2> QED BY <1>1, LoopExists
<1>3. g[0] = x /\ \A i \in 1 .. n : g[i] = turn[i][g[i - 1]]
  <2>1. \A i \in 1 .. n : i \in Nat /\ i # 0 /\ F[i] = turn[i]
    OBVIOUS
  <2> HIDE DEF F
  <2>2. g = [i \in Nat |-> IF i = 0 THEN x ELSE F[i][g[i - 1]]]
    BY <1>2 DEF IsLoop
  <2>3. g[0] = x /\ \A i \in Nat : i # 0 => g[i] = F[i][g[i - 1]]
    BY <2>2
  <2> QED BY <2>1, <2>3
<1>4. \A i \in 0 .. n : g[i] \in U
  BY <1>2 DEF IsLoop
<1> DEFINE f == [i \in 0 .. n |-> g[i]]
<1>5. \A i \in 0 .. n : f[i] = g[i]
  OBVIOUS
<1>6. \A i \in 0 .. n : f[i] = IF i = 0 THEN x ELSE turn[i][f[i - 1]]
  <2>1. \A i \in 0 .. n : i # 0 => i \in 1 .. n /\ i - 1 \in 0 .. n
    OBVIOUS
  <2> HIDE DEF f
  <2> QED BY <1>3, <1>5, <2>1
<1>7. f = [i \in 0 .. n |-> f[i]]
  OBVIOUS
<1> HIDE DEF f
<1>8. f = [i \in 0 .. n |-> IF i = 0 THEN x ELSE turn[i][f[i - 1]]]
  BY <1>6, <1>7
<1>9. \A i \in 0 .. n : f[i] \in U
  BY <1>4, <1>5
<1>10. IsBounded(f, x, n, turn, U)
  BY <1>8, <1>9 DEF IsBounded
<1> QED BY <1>10

\* Heaps like h in which only the items of the chain s were exchanged.
Moves(h, s, g, p) ==
  /\ p \in [1 .. Len(s) -> 1 .. Len(s)]
  /\ \A i, j \in 1 .. Len(s) : i # j => p[i] # p[j]
  /\ \A i \in 1 .. Len(s) : g[s[i]].data = h[s[p[i]]].data

Shuffles(h, s) ==
  {g \in Heaps : /\ \A c \in Cells : g[c].next = h[c].next /\ (c \notin CellsOf(s) => g[c] = h[c])
                 /\ \E p : Moves(h, s, g, p)}

\* The first n places have the least items, in order.
InOrder(g, s, n) ==
  \A i \in 1 .. n, j \in 1 .. Len(s) : i <= j => g[s[i]].data <= g[s[j]].data

\* Of the places from a to b the first one has the least item.
LeastFrom(g, s, a, b) == \A i \in a .. b : g[s[a]].data <= g[s[i]].data

\* The items stay integers however they are exchanged.
LEMMA ItemsInt ==
  ASSUME NEW h, NEW q, NEW s, IsChain(h, q, s), NEW g \in Shuffles(h, s)
  PROVE  \A i \in 1 .. Len(s) : g[s[i]].data \in ListData /\ g[s[i]].data \in Int
<1>1. \A i \in 1 .. Len(s) : h[s[i]].data \in ListData
  BY ChainPlaces
<1>2. PICK p : Moves(h, s, g, p)
  BY DEF Shuffles
<1> QED BY <1>1, <1>2, SListAssumption DEF Moves

\* What one comparison does.
LEMMA ExchangeFacts ==
  ASSUME NEW g \in Heaps, NEW b \in Cells, NEW c \in Cells, b # c,
         g[b].data \in Int, g[c].data \in Int
  PROVE  /\ Exchange(g, b, c) \in Heaps
         /\ \A k \in Cells :
              /\ Exchange(g, b, c)[k].next = g[k].next
              /\ k \notin {b, c} => Exchange(g, b, c)[k] = g[k]
         /\ IF g[b].data > g[c].data
            THEN Exchange(g, b, c)[b].data = g[c].data /\ Exchange(g, b, c)[c].data = g[b].data
            ELSE Exchange(g, b, c) = g
<1>1. CASE ~(g[b].data > g[c].data)
  BY <1>1 DEF Exchange
<1>2. CASE g[b].data > g[c].data
  <2> DEFINE x == [g EXCEPT ![b].data = g[c].data, ![c].data = g[b].data]
  <2>1. Exchange(g, b, c) = x
    BY <1>2 DEF Exchange
  <2>2. \A k \in Cells : g[k] \in [data : ListData \cup {NULL}, next : Pointers]
    BY DEF Heaps
  <2>3. \A k \in Cells : x[k] = IF k = b THEN [g[b] EXCEPT !.data = g[c].data]
                                ELSE IF k = c THEN [g[c] EXCEPT !.data = g[b].data] ELSE g[k]
    BY DEF Heaps
  <2>4. x = [k \in Cells |-> x[k]]
    BY DEF Heaps
  <2> HIDE DEF x
  <2>5. \A k \in Cells : x[k] \in [data : ListData \cup {NULL}, next : Pointers]
    BY <2>2, <2>3
  <2>6. x \in Heaps
    BY <2>4, <2>5 DEF Heaps
  <2> QED BY <1>2, <2>1, <2>2, <2>3, <2>6
<1> QED BY <1>1, <1>2

\* A comparison leaves the cells where they are.
LEMMA ExchangeShuffles ==
  ASSUME NEW h, NEW q, NEW s, IsChain(h, q, s), NEW g \in Shuffles(h, s),
         NEW a \in 1 .. Len(s), NEW b \in 1 .. Len(s), a # b
  PROVE  Exchange(g, s[a], s[b]) \in Shuffles(h, s)
<1>a. PICK x : x = Exchange(g, s[a], s[b])
  OBVIOUS
<1>1. /\ s[a] \in Cells /\ s[b] \in Cells /\ s[a] # s[b]
      /\ s[a] \in CellsOf(s) /\ s[b] \in CellsOf(s)
      /\ \A i \in 1 .. Len(s) : s[i] \in Cells
      /\ \A i, j \in 1 .. Len(s) : s[i] = s[j] => i = j
  BY ChainPlaces
<1>2. \A i \in 1 .. Len(s) : g[s[i]].data \in Int
  BY ItemsInt
<1>3. g \in Heaps /\ \A c \in Cells : g[c].next = h[c].next /\ (c \notin CellsOf(s) => g[c] = h[c])
  BY DEF Shuffles
<1>4. /\ x \in Heaps
      /\ \A k \in Cells : /\ x[k].next = g[k].next
                          /\ k \notin {s[a], s[b]} => x[k] = g[k]
      /\ IF g[s[a]].data > g[s[b]].data
         THEN x[s[a]].data = g[s[b]].data /\ x[s[b]].data = g[s[a]].data
         ELSE x = g
  BY <1>1, <1>2, <1>3, <1>a, ExchangeFacts
<1>5. CASE ~(g[s[a]].data > g[s[b]].data)
  BY <1>4, <1>5, <1>a
<1>6. CASE g[s[a]].data > g[s[b]].data
  <2>1. PICK p : Moves(h, s, g, p)
    BY DEF Shuffles
  <2> DEFINE r == [i \in 1 .. Len(s) |-> IF i = a THEN p[b] ELSE IF i = b THEN p[a] ELSE p[i]]
  <2>2. r \in [1 .. Len(s) -> 1 .. Len(s)] /\ \A i, j \in 1 .. Len(s) : i # j => r[i] # r[j]
    BY <2>1 DEF Moves
  <2>3. ASSUME NEW i \in 1 .. Len(s) PROVE x[s[i]].data = h[s[r[i]]].data
    <3>1. CASE i = a
      BY <1>4, <1>6, <2>1, <3>1 DEF Moves
    <3>2. CASE i = b
      BY <1>4, <1>6, <2>1, <3>2 DEF Moves
    <3>3. CASE i # a /\ i # b
      BY <1>1, <1>4, <2>1, <3>3 DEF Moves
    <3> QED BY <3>1, <3>2, <3>3
  <2> HIDE DEF r
  <2>4. Moves(h, s, x, r)
    BY <2>2, <2>3 DEF Moves
  <2>5. \A c \in Cells : x[c].next = h[c].next /\ (c \notin CellsOf(s) => x[c] = h[c])
    BY <1>1, <1>3, <1>4
  <2> QED BY <1>4, <1>a, <2>4, <2>5 DEF Shuffles
<1> QED BY <1>5, <1>6

\* It keeps what is in order, and finds the least item so far.
LEMMA ExchangeOrders ==
  ASSUME NEW h, NEW q, NEW s, IsChain(h, q, s), NEW g \in Shuffles(h, s),
         NEW n \in Nat, NEW b \in n + 2 .. Len(s), InOrder(g, s, n), LeastFrom(g, s, n + 1, b - 1)
  PROVE  /\ InOrder(Exchange(g, s[n + 1], s[b]), s, n)
         /\ LeastFrom(Exchange(g, s[n + 1], s[b]), s, n + 1, b)
<1>a. PICK a : a = n + 1
  OBVIOUS
<1>b. PICK x : x = Exchange(g, s[a], s[b])
  OBVIOUS
<1>0. Len(s) \in Nat
  BY ChainPlaces
<1>1. a \in 1 .. Len(s) /\ b \in 1 .. Len(s) /\ a < b
  BY <1>0, <1>a
<1>2. /\ \A i \in 1 .. Len(s) : s[i] \in Cells
      /\ \A i, j \in 1 .. Len(s) : s[i] = s[j] => i = j
  BY ChainPlaces
<1>3. \A i \in 1 .. Len(s) : g[s[i]].data \in Int
  BY ItemsInt
<1>4. /\ \A k \in Cells : k \notin {s[a], s[b]} => x[k] = g[k]
      /\ IF g[s[a]].data > g[s[b]].data
         THEN x[s[a]].data = g[s[b]].data /\ x[s[b]].data = g[s[a]].data
         ELSE x = g
  <2>1. g \in Heaps /\ s[a] # s[b]
    BY <1>1, <1>2 DEF Shuffles
  <2> QED BY <1>1, <1>2, <1>3, <1>b, <2>1, ExchangeFacts
<1>c. PICK y : y = [i \in 1 .. Len(s) |-> g[s[i]].data]
  OBVIOUS
<1>d. PICK z : z = [i \in 1 .. Len(s) |-> x[s[i]].data]
  OBVIOUS
<1>5. /\ \A i \in 1 .. Len(s) : y[i] \in Int /\ y[i] = g[s[i]].data /\ z[i] = x[s[i]].data
      /\ IF y[a] > y[b] THEN z[a] = y[b] /\ z[b] = y[a] ELSE z[a] = y[a] /\ z[b] = y[b]
      /\ \A i \in 1 .. Len(s) : i # a /\ i # b => z[i] = y[i]
  <2>1. \A i \in 1 .. Len(s) : y[i] \in Int /\ y[i] = g[s[i]].data /\ z[i] = x[s[i]].data
    BY <1>3, <1>c, <1>d
  <2>2. IF y[a] > y[b] THEN z[a] = y[b] /\ z[b] = y[a] ELSE z[a] = y[a] /\ z[b] = y[b]
    BY <1>1, <1>4, <2>1
  <2>3. \A i \in 1 .. Len(s) : i # a /\ i # b => z[i] = y[i]
    BY <1>1, <1>2, <1>4, <2>1
  <2> QED BY <2>1, <2>2, <2>3
<1>6. /\ \A i \in 1 .. n, j \in 1 .. Len(s) : i <= j => y[i] <= y[j]
      /\ \A i \in a .. b - 1 : y[a] <= y[i]
  <2>1. \A i \in 1 .. n : i \in 1 .. Len(s)
    BY <1>1, <1>a
  <2>2. \A i \in a .. b - 1 : i \in 1 .. Len(s)
    BY <1>0, <1>1
  <2>3. \A i \in 1 .. n, j \in 1 .. Len(s) : i <= j => y[i] <= y[j]
    BY <1>5, <2>1 DEF InOrder
  <2>4. \A i \in a .. b - 1 : y[a] <= y[i]
    BY <1>1, <1>5, <1>a, <2>2 DEF LeastFrom
  <2> QED BY <2>3, <2>4
<1>7. \A i \in 1 .. n, j \in 1 .. Len(s) : i <= j => z[i] <= z[j]
  <2> SUFFICES ASSUME NEW i \in 1 .. n, NEW j \in 1 .. Len(s), i <= j PROVE z[i] <= z[j]
    OBVIOUS
  <2>1. i \in 1 .. Len(s) /\ i # a /\ i # b /\ i <= a /\ i <= b
    BY <1>0, <1>1, <1>a
  <2>2. z[i] = y[i] /\ y[i] <= y[a] /\ y[i] <= y[b] /\ y[i] <= y[j]
    BY <1>1, <1>5, <1>6, <2>1
  <2>3. z[j] \in {y[a], y[b], y[j]}
    BY <1>5
  <2> QED BY <2>2, <2>3
<1>8. \A i \in a .. b : z[a] <= z[i]
  <2> SUFFICES ASSUME NEW i \in a .. b PROVE z[a] <= z[i]
    OBVIOUS
  <2>1. i \in 1 .. Len(s) /\ (i # b => i \in a .. b - 1)
    BY <1>0, <1>1
  <2>2. y[a] \in Int /\ y[b] \in Int /\ y[i] \in Int /\ (i # b => y[a] <= y[i])
    BY <1>1, <1>5, <1>6, <2>1
  <2>3. z[a] <= y[a] /\ z[a] \in Int /\ z[a] <= z[b]
    BY <1>5, <2>2
  <2>4. CASE i = b
    BY <2>3, <2>4
  <2>5. CASE i = a
    BY <2>3, <2>5
  <2>6. CASE i # a /\ i # b
    <3>1. z[i] = y[i]
      BY <1>5, <2>1, <2>6
    <3> QED BY <2>2, <2>3, <2>6, <3>1
  <2> QED BY <2>4, <2>5, <2>6
<1>9. InOrder(x, s, n)
  <2>1. \A i \in 1 .. n : i \in 1 .. Len(s)
    BY <1>1, <1>a
  <2> QED BY <1>5, <1>7, <2>1 DEF InOrder
<1>10. LeastFrom(x, s, a, b)
  <2>1. \A i \in a .. b : i \in 1 .. Len(s)
    BY <1>0, <1>1
  <2> QED BY <1>1, <1>5, <1>8, <2>1 DEF LeastFrom
<1> QED BY <1>9, <1>10, <1>a, <1>b

\* The inner loop of slist_sort: the heaps g after each turn, from h to end.
InnerRun(k, s, h, i, g, end) ==
  /\ g[i] = h /\ \A j \in 0 .. Len(s) - 1 : g[j] \in Shuffles(k, s)
  /\ \A j \in i + 1 .. Len(s) - 1 : g[j] = Exchange(g[j - 1], s[i + 1], s[j + 1])
  /\ end = g[Len(s) - 1]

\* The inner loop of slist_sort leaves the least item in front.
LEMMA InnerLoop ==
  \A p, s, h, i :
    cell \in Heaps /\ IsChain(cell, p, s) /\ h \in Shuffles(cell, s) /\ i \in 0 .. Len(s) - 1 =>
      \E g : InnerRun(cell, s, h, i, g, ExchangeFrom(h, p, i))
<1> SUFFICES ASSUME NEW p, NEW s, NEW h, NEW i, cell \in Heaps, IsChain(cell, p, s),
                    h \in Shuffles(cell, s), i \in 0 .. Len(s) - 1
             PROVE  \E g : InnerRun(cell, s, h, i, g, ExchangeFrom(h, p, i))
  OBVIOUS
<1>a. PICK U, F, S, n :
        U = Shuffles(cell, s) /\ F = Follow(p) /\ S = Steps(p) /\ n = Len(s) - 1
  OBVIOUS
<1>1. /\ Len(s) \in Nat /\ n \in Nat /\ i \in 0 .. n /\ S = 0 .. n /\ slist_size(p) - 1 = n
      /\ \A j \in 0 .. n : F[j] = s[j + 1]
  <2>1. Len(s) \in Nat
    BY ChainPlaces
  <2>2. slist_size(p) = Len(s) /\ S = 0 .. Len(s) - 1 /\ \A j \in Nat : F[j] = At(s, j + 1)
    BY <1>a, ChainReads
  <2>3. n \in Nat /\ i \in 0 .. n /\ slist_size(p) - 1 = n
    BY <1>a, <2>1, <2>2
  <2>4. \A j \in 0 .. n : F[j] = s[j + 1]
    <3>1. \A j \in 0 .. n : j \in Nat /\ j + 1 \in 1 .. Len(s)
      BY <1>a, <2>1, <2>3
    <3> QED BY <2>2, <3>1 DEF At
  <2> QED BY <1>a, <2>1, <2>2, <2>3, <2>4
<1> DEFINE turn == [j \in 1 .. n |-> [u \in U |-> IF j <= i THEN h ELSE Exchange(u, F[i], F[j])]]
<1>2. \A j \in 1 .. n : \A u \in U : turn[j][u] \in U
  <2> SUFFICES ASSUME NEW j \in 1 .. n, NEW u \in U, ~(j <= i)
               PROVE  Exchange(u, F[i], F[j]) \in U
    BY <1>a
  <2>1. i + 1 \in 1 .. Len(s) /\ j + 1 \in 1 .. Len(s) /\ i + 1 # j + 1 /\ j \in 0 .. n
    BY <1>1, <1>a
  <2>2. F[i] = s[i + 1] /\ F[j] = s[j + 1]
    BY <1>1, <2>1
  <2>3. PICK c : c = cell
    OBVIOUS
  <2>4. Exchange(u, s[i + 1], s[j + 1]) \in Shuffles(c, s)
    BY <1>a, <2>1, <2>3, ExchangeShuffles
  <2> QED BY <1>a, <2>2, <2>3, <2>4
<1>b. PICK f : IsBounded(f, h, n, turn, U)
  <2>1. h \in U
    BY <1>a
  <2> HIDE DEF turn
  <2> QED BY <1>1, <1>2, <2>1, BoundedLoop
<1>3. /\ f = [j \in 0 .. n |-> IF j = 0 THEN h ELSE turn[j][f[j - 1]]]
      /\ \A j \in 0 .. n : f[j] \in U
  <2> HIDE DEF turn
  <2> QED BY <1>b DEF IsBounded
<1> DEFINE Is(g) == g = [j \in S |-> IF j <= i THEN h ELSE Exchange(g[j - 1], F[i], F[j])]
           after == CHOOSE g : Is(g)
<1>4. Is(f)
  <2>1. \A j \in 0 .. n : j # 0 => j \in 1 .. n /\ j - 1 \in 0 .. n
    BY <1>1
  <2>2. \A j \in 0 .. n : f[j] = IF j <= i THEN h ELSE Exchange(f[j - 1], F[i], F[j])
    <3> SUFFICES ASSUME NEW j \in 0 .. n
                 PROVE  f[j] = IF j <= i THEN h ELSE Exchange(f[j - 1], F[i], F[j])
      OBVIOUS
    <3>1. CASE j = 0
      <4>1. j <= i
        BY <1>1, <3>1
      <4> HIDE DEF turn
      <4> QED BY <1>3, <3>1, <4>1
    <3>2. CASE j # 0
      <4>1. f[j] = turn[j][f[j - 1]]
        <5> HIDE DEF turn
        <5> QED BY <1>3, <3>2
      <4> QED BY <1>3, <2>1, <3>2, <4>1
    <3> QED BY <3>1, <3>2
  <2>3. f = [j \in 0 .. n |-> f[j]]
    <3> HIDE DEF turn
    <3> QED BY <1>3
  <2> HIDE DEF turn
  <2> QED BY <1>1, <2>2, <2>3
<1>5. Is(after)
  <2> HIDE DEF Is
  <2> QED BY <1>4
<1>6. ExchangeFrom(h, p, i) = after[slist_size(p) - 1]
  BY <1>a DEF ExchangeFrom
<1> HIDE DEF after, turn
<1>7. \A j \in 0 .. n : after[j] = IF j <= i THEN h ELSE Exchange(after[j - 1], F[i], F[j])
  BY <1>1, <1>5
<1> DEFINE good == {j \in Nat : j <= n => after[j] \in U}
<1>8. \A j \in Nat : j \in good
  <2>1. 0 \in good
    <3>1. 0 <= i /\ 0 \in 0 .. n
      BY <1>1
    <3> QED BY <1>7, <1>a, <3>1
  <2>2. ASSUME NEW j \in Nat, j \in good PROVE j + 1 \in good
    <3> SUFFICES ASSUME j + 1 <= n PROVE after[j + 1] \in U
      OBVIOUS
    <3>1. j + 1 \in 1 .. n /\ j + 1 \in 0 .. n /\ j + 1 - 1 = j /\ after[j] \in U
      BY <1>1, <2>2
    <3>2. after[j + 1] = IF j + 1 <= i THEN h ELSE Exchange(after[j], F[i], F[j + 1])
      BY <1>7, <3>1
    <3>3. turn[j + 1][after[j]] \in U
      BY <1>2, <3>1
    <3>4. turn[j + 1][after[j]] = IF j + 1 <= i THEN h ELSE Exchange(after[j], F[i], F[j + 1])
      BY <3>1 DEF turn
    <3> QED BY <3>2, <3>3, <3>4
  <2> HIDE DEF good
  <2> QED BY <2>1, <2>2, AllNats
<1>9. \A j \in 0 .. n : after[j] \in U
  BY <1>1, <1>8
<1>10. \A j \in i + 1 .. n : after[j] = Exchange(after[j - 1], s[i + 1], s[j + 1])
  <2>1. \A j \in i + 1 .. n : j \in 0 .. n /\ ~(j <= i)
    BY <1>1
  <2> QED BY <1>1, <1>7, <2>1
<1>11. after[i] = h
  BY <1>1, <1>7
<1>12. InnerRun(cell, s, h, i, after, ExchangeFrom(h, p, i))
  BY <1>1, <1>6, <1>9, <1>10, <1>11, <1>a DEF InnerRun
<1> QED BY <1>12

\* It brings the least of the items from i on to the place behind the i first ones.
LEMMA InnerOrders ==
  \A p, s, h, i :
    cell \in Heaps /\ IsChain(cell, p, s) /\ h \in Shuffles(cell, s) /\ i \in 0 .. Len(s) - 1 =>
      /\ ExchangeFrom(h, p, i) \in Shuffles(cell, s)
      /\ InOrder(h, s, i) => InOrder(ExchangeFrom(h, p, i), s, i + 1)
<1> SUFFICES ASSUME NEW p, NEW s, NEW h, NEW i, cell \in Heaps, IsChain(cell, p, s),
                    h \in Shuffles(cell, s), i \in 0 .. Len(s) - 1
    PROVE  /\ ExchangeFrom(h, p, i) \in Shuffles(cell, s)
           /\ InOrder(h, s, i) => InOrder(ExchangeFrom(h, p, i), s, i + 1)
  OBVIOUS
<1>a. PICK c, U : c = cell /\ U = Shuffles(cell, s)
  OBVIOUS
<1>b. PICK g : InnerRun(cell, s, h, i, g, ExchangeFrom(h, p, i))
  BY InnerLoop
<1>1. /\ g[i] = h /\ \A j \in 0 .. Len(s) - 1 : g[j] \in U
      /\ \A j \in i + 1 .. Len(s) - 1 : g[j] = Exchange(g[j - 1], s[i + 1], s[j + 1])
      /\ ExchangeFrom(h, p, i) = g[Len(s) - 1]
  BY <1>a, <1>b DEF InnerRun
<1>2. Len(s) \in Nat /\ i \in Nat /\ i + 1 \in 1 .. Len(s) /\ Len(s) - 1 \in 0 .. Len(s) - 1
  <2>1. Len(s) \in Nat
    BY ChainPlaces
  <2> QED BY <2>1
<1>3. ExchangeFrom(h, p, i) \in U
  BY <1>1, <1>2
<1>4. ASSUME InOrder(h, s, i) PROVE InOrder(g[Len(s) - 1], s, i + 1)
  <2> DEFINE good == {j \in Nat : i <= j /\ j <= Len(s) - 1 =>
                        InOrder(g[j], s, i) /\ LeastFrom(g[j], s, i + 1, j + 1)}
  <2>1. ASSUME NEW j \in Nat, j = 0 \/ j - 1 \in good PROVE j \in good
    <3> SUFFICES ASSUME i <= j, j <= Len(s) - 1
                 PROVE  InOrder(g[j], s, i) /\ LeastFrom(g[j], s, i + 1, j + 1)
      OBVIOUS
    <3>1. CASE j = i
      <4>1. LeastFrom(h, s, i + 1, i + 1)
        <5>1. h[s[i + 1]].data \in Int
          BY <1>2, <1>a, ItemsInt
        <5>2. \A k \in i + 1 .. i + 1 : k = i + 1
          BY <1>2
        <5> QED BY <5>1, <5>2 DEF LeastFrom
      <4> QED BY <1>1, <1>4, <3>1, <4>1
    <3>2. CASE j # i
      <4>1. /\ j - 1 \in Nat /\ i <= j - 1 /\ j - 1 <= Len(s) - 1 /\ j \in i + 1 .. Len(s) - 1
            /\ j + 1 \in i + 2 .. Len(s) /\ j - 1 \in 0 .. Len(s) - 1 /\ j - 1 + 1 = j + 1 - 1
        BY <1>2, <3>2
      <4>2. InOrder(g[j - 1], s, i) /\ LeastFrom(g[j - 1], s, i + 1, j + 1 - 1)
        BY <1>2, <2>1, <3>2, <4>1
      <4>3. PICK x : x = g[j - 1]
        OBVIOUS
      <4>4. x \in Shuffles(c, s) /\ IsChain(c, p, s)
        BY <1>1, <1>a, <4>1, <4>3
      <4>5. InOrder(x, s, i) /\ LeastFrom(x, s, i + 1, j + 1 - 1)
        BY <4>2, <4>3
      <4> HIDE DEF good
      <4>6. /\ InOrder(Exchange(x, s[i + 1], s[j + 1]), s, i)
            /\ LeastFrom(Exchange(x, s[i + 1], s[j + 1]), s, i + 1, j + 1)
        BY <1>2, <4>1, <4>4, <4>5, ExchangeOrders
      <4>7. g[j] = Exchange(x, s[i + 1], s[j + 1])
        BY <1>1, <4>1, <4>3
      <4> QED BY <4>6, <4>7
    <3> QED BY <3>1, <3>2
  <2>2. \A j \in Nat : j \in good
    <3>1. 0 \in good
      BY <2>1
    <3>2. ASSUME NEW j \in Nat, j \in good PROVE j + 1 \in good
      <4>1. j + 1 \in Nat /\ j + 1 - 1 = j
        OBVIOUS
      <4> HIDE DEF good
      <4> QED BY <2>1, <3>2, <4>1
    <3> HIDE DEF good
    <3> QED BY <3>1, <3>2, AllNats
  <2>3. PICK n : n = Len(s) - 1
    OBVIOUS
  <2>4. n \in Nat /\ i <= n /\ n <= Len(s) - 1 /\ n + 1 = Len(s)
    BY <1>2, <2>3
  <2>5. InOrder(g[n], s, i) /\ LeastFrom(g[n], s, i + 1, Len(s))
    BY <2>2, <2>4
  <2>6. InOrder(g[n], s, i + 1)
    <3> SUFFICES ASSUME NEW a \in 1 .. i + 1, NEW b \in 1 .. Len(s), a <= b
                 PROVE  g[n][s[a]].data <= g[n][s[b]].data
      BY DEF InOrder
    <3>1. CASE a = i + 1
      <4>1. b \in i + 1 .. Len(s)
        BY <1>2, <3>1
      <4> QED BY <2>5, <3>1, <4>1 DEF LeastFrom
    <3>2. CASE a # i + 1
      <4>1. a \in 1 .. i
        BY <1>2, <3>2
      <4> QED BY <2>5, <4>1 DEF InOrder
    <3> QED BY <3>1, <3>2
  <2> QED BY <2>3, <2>6
<1> QED BY <1>1, <1>3, <1>4, <1>a

\* The heap is its own shuffle.
LEMMA ShuffleOfItself ==
  ASSUME NEW h \in Heaps, NEW s
  PROVE  h \in Shuffles(h, s)
<1> DEFINE p == [i \in 1 .. Len(s) |-> i]
<1>1. Moves(h, s, h, p)
  BY DEF Moves
<1> HIDE DEF p
<1> QED BY <1>1 DEF Shuffles

\* The outer loop: the heaps g after each turn.
OuterRun(h, s, g, end) ==
  /\ g[0] = h /\ \A i \in 0 .. Len(s) : g[i] \in Shuffles(h, s)
  /\ \A i \in 1 .. Len(s) : InOrder(g[i - 1], s, i - 1) => InOrder(g[i], s, i)
  /\ end = g[Len(s)]

\* The outer loop orders one place more in each turn.
LEMMA OuterLoop ==
  \A p, s : cell \in Heaps /\ IsChain(cell, p, s) => \E g : OuterRun(cell, s, g, Sorted(p))
<1> SUFFICES ASSUME NEW p, NEW s, cell \in Heaps, IsChain(cell, p, s)
             PROVE  \E g : OuterRun(cell, s, g, Sorted(p))
  OBVIOUS
<1>a. PICK c, U, n : c = cell /\ U = Shuffles(cell, s) /\ n = Len(s)
  OBVIOUS
<1>1. n \in Nat /\ slist_size(p) = n /\ c \in U
  <2>1. n \in Nat
    BY <1>a, ChainPlaces
  <2>2. slist_size(p) = n
    BY <1>a, ChainReads
  <2>3. c \in U
    BY <1>a, ShuffleOfItself
  <2> QED BY <2>1, <2>2, <2>3
<1>2. \A h \in U, i \in 1 .. n :
        ExchangeFrom(h, p, i - 1) \in U
        /\ (InOrder(h, s, i - 1) => InOrder(ExchangeFrom(h, p, i - 1), s, i))
  <2> SUFFICES ASSUME NEW h \in U, NEW i \in 1 .. n
        PROVE  ExchangeFrom(h, p, i - 1) \in U
               /\ (InOrder(h, s, i - 1) => InOrder(ExchangeFrom(h, p, i - 1), s, i))
    OBVIOUS
  <2>1. i - 1 \in 0 .. Len(s) - 1 /\ i - 1 + 1 = i
    BY <1>1, <1>a
  <2>2. /\ ExchangeFrom(h, p, i - 1) \in U
        /\ InOrder(h, s, i - 1) => InOrder(ExchangeFrom(h, p, i - 1), s, i - 1 + 1)
    BY <1>a, <2>1, InnerOrders
  <2> QED BY <2>1, <2>2
<1> DEFINE turn == [i \in 1 .. n |-> [h \in U |-> ExchangeFrom(h, p, i - 1)]]
<1>3. \A i \in 1 .. n : \A u \in U : turn[i][u] \in U
  BY <1>2
<1>b. PICK f : IsBounded(f, c, n, turn, U)
  <2> HIDE DEF turn
  <2> QED BY <1>1, <1>3, BoundedLoop
<1>4. /\ f = [i \in 0 .. n |-> IF i = 0 THEN c ELSE turn[i][f[i - 1]]]
      /\ \A i \in 0 .. n : f[i] \in U
  <2> HIDE DEF turn
  <2> QED BY <1>b DEF IsBounded
<1> DEFINE Is(g) == g = [i \in 0 .. slist_size(p) |->
                           IF i = 0 THEN cell ELSE ExchangeFrom(g[i - 1], p, i - 1)]
           after == CHOOSE g : Is(g)
<1>5. Is(f)
  <2>1. \A i \in 0 .. n : f[i] = IF i = 0 THEN c ELSE ExchangeFrom(f[i - 1], p, i - 1)
    <3> SUFFICES ASSUME NEW i \in 0 .. n
                 PROVE  f[i] = IF i = 0 THEN c ELSE ExchangeFrom(f[i - 1], p, i - 1)
      OBVIOUS
    <3>1. f[i] = IF i = 0 THEN c ELSE turn[i][f[i - 1]]
      <4> HIDE DEF turn
      <4> QED BY <1>4
    <3>2. i # 0 => i \in 1 .. n /\ i - 1 \in 0 .. n
      BY <1>1
    <3>3. i # 0 => f[i - 1] \in U
      <4> HIDE DEF turn
      <4> QED BY <1>4, <3>2
    <3> QED BY <3>1, <3>2, <3>3
  <2>2. f = [i \in 0 .. n |-> f[i]]
    <3> HIDE DEF turn
    <3> QED BY <1>4
  <2> HIDE DEF turn
  <2> QED BY <1>1, <1>a, <2>1, <2>2
<1>6. Is(after)
  <2> HIDE DEF Is
  <2> QED BY <1>5
<1>7. Sorted(p) = after[slist_size(p)]
  BY DEF Sorted
<1> HIDE DEF after, turn
<1>8. after[0] = c /\ \A i \in 1 .. n : after[i] = ExchangeFrom(after[i - 1], p, i - 1)
  BY <1>1, <1>6, <1>a
<1> DEFINE good == {i \in Nat : i <= n => after[i] \in U}
<1>9. \A i \in Nat : i \in good
  <2>1. 0 \in good
    BY <1>1, <1>8
  <2>2. ASSUME NEW i \in Nat, i \in good PROVE i + 1 \in good
    <3> SUFFICES ASSUME i + 1 <= n PROVE after[i + 1] \in U
      OBVIOUS
    <3>1. i + 1 \in 1 .. n /\ i + 1 - 1 = i /\ after[i] \in U
      BY <1>1, <2>2
    <3>2. after[i + 1] = ExchangeFrom(after[i], p, i + 1 - 1)
      BY <1>8, <3>1
    <3> QED BY <1>2, <3>1, <3>2
  <2> HIDE DEF good
  <2> QED BY <2>1, <2>2, AllNats
<1>10. \A i \in 0 .. n : after[i] \in U
  BY <1>1, <1>9
<1>11. \A i \in 1 .. n : InOrder(after[i - 1], s, i - 1) => InOrder(after[i], s, i)
  <2> SUFFICES ASSUME NEW i \in 1 .. n, InOrder(after[i - 1], s, i - 1)
               PROVE  InOrder(after[i], s, i)
    OBVIOUS
  <2>1. i - 1 \in 0 .. n
    BY <1>1
  <2>2. after[i - 1] \in U /\ after[i] = ExchangeFrom(after[i - 1], p, i - 1)
    BY <1>8, <1>10, <2>1
  <2> QED BY <1>2, <2>2
<1>12. OuterRun(cell, s, after, Sorted(p))
  BY <1>1, <1>7, <1>8, <1>10, <1>11, <1>a DEF OuterRun
<1> QED BY <1>12

\* The result is a shuffle in order.
LEMMA SortedEnds ==
  \A p, s : cell \in Heaps /\ IsChain(cell, p, s) =>
    Sorted(p) \in Shuffles(cell, s) /\ InOrder(Sorted(p), s, Len(s))
<1> SUFFICES ASSUME NEW p, NEW s, cell \in Heaps, IsChain(cell, p, s)
             PROVE  Sorted(p) \in Shuffles(cell, s) /\ InOrder(Sorted(p), s, Len(s))
  OBVIOUS
<1>1. PICK g : OuterRun(cell, s, g, Sorted(p))
  BY OuterLoop
<1>2. Len(s) \in Nat
  BY ChainPlaces
<1>3. /\ \A i \in 0 .. Len(s) : g[i] \in Shuffles(cell, s)
      /\ \A i \in 1 .. Len(s) : InOrder(g[i - 1], s, i - 1) => InOrder(g[i], s, i)
      /\ Sorted(p) = g[Len(s)]
  BY <1>1 DEF OuterRun
<1> DEFINE good == {i \in Nat : i <= Len(s) => InOrder(g[i], s, i)}
<1>4. 0 \in good
  BY DEF InOrder
<1>5. ASSUME NEW i \in Nat, i \in good PROVE i + 1 \in good
  <2>1. i + 1 <= Len(s) => i + 1 \in 1 .. Len(s) /\ i + 1 - 1 = i /\ i <= Len(s)
    BY <1>2
  <2> QED BY <1>3, <1>5, <2>1
<1>6. \A i \in Nat : i \in good
  <2> HIDE DEF good
  <2> QED BY <1>4, <1>5, AllNats
<1>7. Len(s) \in good /\ Len(s) \in 0 .. Len(s)
  BY <1>2, <1>6
<1> QED BY <1>3, <1>7

\* A shuffle is a chain whose items are an order of the first ones.
LEMMA ShuffledChain ==
  ASSUME NEW h, NEW q, NEW s, IsChain(h, q, s), NEW g \in Shuffles(h, s), InOrder(g, s, Len(s))
  PROVE  IsChain(g, q, s) /\ Items(g, s) \in Seqs!Orders(Items(h, s))
<1>1. /\ s \in Seq(Cells) /\ Len(s) \in Nat /\ q = At(s, 1)
      /\ \A i \in 1 .. Len(s) : s[i] \in Cells /\ h[s[i]].next = At(s, i + 1)
      /\ \A i, j \in 1 .. Len(s) : s[i] = s[j] => i = j
  BY ChainPlaces
<1>2. \A i \in 1 .. Len(s) : g[s[i]].data \in ListData /\ g[s[i]].data \in Int
  BY ItemsInt
<1>3. \A c \in Cells : g[c].next = h[c].next
  BY DEF Shuffles
<1>4. IsChain(g, q, s)
  BY <1>1, <1>2, <1>3 DEF IsChain
<1>5. PICK p : Moves(h, s, g, p)
  BY DEF Shuffles
<1>a. PICK x : x = Items(h, s)
  OBVIOUS
<1>b. PICK D : D = DOMAIN x
  OBVIOUS
<1>6. D = 1 .. Len(s) /\ \A i \in D : x[i] = h[s[i]].data
  BY <1>a, <1>b DEF Items
<1>7. p \in [D -> D] /\ \A i \in D : g[s[i]].data = x[p[i]]
  BY <1>5, <1>6 DEF Moves
<1>8. Seqs!IsOrder(p, x)
  <2>1. \A i, j \in D : i # j => p[i] # p[j]
    BY <1>5, <1>6 DEF Moves
  <2>2. \A i, j \in D : i <= j => x[p[i]] <= x[p[j]]
    BY <1>6, <1>7 DEF InOrder
  <2> QED BY <1>b, <2>1, <2>2 DEF Seqs!IsOrder
<1>9. Items(g, s) = [i \in D |-> x[p[i]]]
  BY <1>6, <1>7 DEF Items
<1>10. Items(g, s) \in Seqs!Orders(x)
  BY <1>7, <1>8, <1>9, <1>b DEF Seqs!Orders
<1> QED BY <1>4, <1>10, <1>a

\* slist_sort orders the items and loses none.
LEMMA SortDone ==
  ASSUME NEW cs, ListsAre(cs), NEW l \in Lists, slist_sort(l)
  PROVE  CallDone(cs)
<1> DEFINE q == AllItems(cell, cs)
           c == [op |-> "sort", l |-> l]
<1>a. PICK s, p : s = cs[l] /\ p = list[l]
  OBVIOUS
<1>1. IsChain(cell, p, s) /\ cell \in Heaps /\ q[l] = Items(cell, s)
  BY ListHere, <1>a
<1>b. PICK h, g : h = cell /\ g = Sorted(p)
  OBVIOUS
<1>2. g \in Shuffles(h, s) /\ InOrder(g, s, Len(s))
  BY <1>1, <1>b, SortedEnds
<1>3. IsChain(g, p, s) /\ Items(g, s) \in Seqs!Orders(Items(h, s))
  BY <1>1, <1>2, <1>b, ShuffledChain
<1>4. /\ cell' = g /\ malloced' = malloced /\ list' = list
      /\ listCall' = c /\ listRet' = <<>> /\ listEnded' = FALSE
  BY <1>a, <1>b DEF slist_sort, Returns
<1>5. /\ g \in Heaps /\ \A k \in Cells \ CellsOf(s) : g[k] = h[k]
  BY <1>2 DEF Shuffles
<1>6. malloced \subseteq Cells /\ CellsOf(s) \subseteq malloced
  <2>1. \A m \in Lists : CellsOf(cs[m]) \subseteq Cells
    BY ChainPlaces DEF ListsAre
  <2> QED BY <1>a, <2>1 DEF ListsAre
<1>7. /\ ListsAre([cs EXCEPT ![l] = s])'
      /\ AllItems(cell', [cs EXCEPT ![l] = s]) = [AllItems(cell, cs) EXCEPT ![l] = Items(cell', s)]
  <2>1. \A k \in malloced \ CellsOf(cs[l]) : cell'[k] = cell[k]
    BY <1>4, <1>5, <1>6, <1>a, <1>b
  <2>2. CellsOf(s) \cap (malloced \ CellsOf(cs[l])) = {}
        /\ malloced' = (malloced \ CellsOf(cs[l])) \cup CellsOf(s)
    BY <1>4, <1>6, <1>a
  <2>3. list' = [list EXCEPT ![l] = p]
    BY <1>4, <1>a DEF ListsAre
  <2>4. IsChain(cell', p, s) /\ cell' \in Heaps
    BY <1>3, <1>4, <1>5
  <2> QED BY <2>1, <2>2, <2>3, <2>4, OneChain
<1>8. Answers(q, AllItems(cell', [cs EXCEPT ![l] = s]), c)
  <2>1. \E t \in Seqs!Orders(q[l]) : AllItems(cell', [cs EXCEPT ![l] = s]) = [q EXCEPT ![l] = t]
    BY <1>1, <1>3, <1>4, <1>7, <1>b
  <2> HIDE DEF q
  <2>2. Seqs!Result(q[l], c) = <<>>
    BY DEF Seqs!Result
  <2> QED BY <1>4, <2>1, <2>2 DEF Answers
<1> QED BY <1>4, <1>7, <1>8 DEF CallDone

\* What the lists of slist.c are: chains of cells.
ListsAreChains == \E cs : ListsAre(cs)

\* Every call keeps that, and does what ItemList says.
LEMMA NextDone ==
  ASSUME NEW cs, ListsAre(cs), SListNext
  PROVE  CallDone(cs)
<1> SUFFICES ASSUME NEW l \in Lists,
                    \/ slist_delete_all_x(l) \/ slist_sort(l) \/ ReadList(l)
                    \/ \E d \in ListData :
                         \/ slist_append(l, d) \/ slist_prepend(l, d)
                         \/ slist_remove_by_data_x(l, d)
                         \/ \E i \in Positions : slist_insert_index(l, d, i)
                         \/ \E at \in ListData : slist_insert(l, d, at)
                    \/ \E i \in Positions : slist_remove_by_index_x(l, i)
                    \/ \E m \in Lists : slist_concat(l, m)
             PROVE  CallDone(cs)
  BY DEF SListNext
<1>1. CASE slist_delete_all_x(l)
  BY <1>1, DeleteAllDone
<1>2. CASE slist_sort(l)
  BY <1>2, SortDone
<1>3. CASE ReadList(l)
  BY <1>3, ReadDone
<1>4. ASSUME NEW d \in ListData, slist_append(l, d) PROVE CallDone(cs)
  BY <1>4, AppendDone
<1>5. ASSUME NEW d \in ListData, slist_prepend(l, d) PROVE CallDone(cs)
  BY <1>5, PrependDone
<1>6. ASSUME NEW d \in ListData, slist_remove_by_data_x(l, d) PROVE CallDone(cs)
  BY <1>6, RemoveByDataDone
<1>7. ASSUME NEW d \in ListData, NEW i \in Positions, slist_insert_index(l, d, i)
      PROVE  CallDone(cs)
  <2>1. i \in Int
    BY SListAssumption
  <2> QED BY <1>7, <2>1, InsertIndexDone
<1>8. ASSUME NEW d \in ListData, NEW at \in ListData, slist_insert(l, d, at)
      PROVE  CallDone(cs)
  BY <1>8, InsertDone
<1>9. ASSUME NEW i \in Positions, slist_remove_by_index_x(l, i) PROVE CallDone(cs)
  <2>1. i \in Int
    BY SListAssumption
  <2> QED BY <1>9, <2>1, RemoveByIndexDone
<1>10. ASSUME NEW m \in Lists, slist_concat(l, m) PROVE CallDone(cs)
  BY <1>10, ConcatDone
<1> QED BY <1>1, <1>2, <1>3, <1>4, <1>5, <1>6, <1>7, <1>8, <1>9, <1>10

\* At the start every list is the empty chain.
LEMMA ListsStart ==
  ASSUME SListInit
  PROVE  ListsAreChains /\ [l \in Lists |-> slist_work(list[l])] = [l \in Lists |-> <<>>]
<1>a. PICK e : e = <<>>
  OBVIOUS
<1> DEFINE cs == [l \in Lists |-> e]
<1>1. cell \in Heaps /\ list \in [Lists -> Pointers] /\ \A l \in Lists : list[l] = NULL
  BY DEF SListInit, Heaps, Pointers
<1>2. e \in Seq(Cells) /\ Len(e) = 0
  BY <1>a
<1>3. IsChain(cell, NULL, e) /\ CellsOf(e) = {} /\ Items(cell, e) = e
  BY <1>2, <1>a DEF IsChain, At, CellsOf, Items
<1>4. cs \in [Lists -> Seq(Cells)] /\ \A l \in Lists : cs[l] = e
  BY <1>2
<1> HIDE DEF cs
<1>5. ListsAre(cs)
  <2>1. malloced = UNION {CellsOf(cs[l]) : l \in Lists}
    BY <1>3, <1>4 DEF SListInit
  <2> QED BY <1>1, <1>3, <1>4, <2>1 DEF ListsAre
<1>6. AllItems(cell, cs) = [l \in Lists |-> e]
  BY <1>3, <1>4 DEF AllItems
<1> QED BY <1>5, <1>6, <1>a, WorkIsItems DEF ListsAreChains

\* Every step keeps the lists chains with cells of their own.
LEMMA ListsStay ==
  ASSUME ListsAreChains, [SListNext]_sListVars
  PROVE  ListsAreChains'
<1>1. PICK cs : ListsAre(cs)
  BY DEF ListsAreChains
<1>2. CASE SListNext
  <2>1. CallDone(cs)
    BY <1>1, <1>2, NextDone
  <2> QED BY <2>1 DEF CallDone, ListsAreChains
<1>3. CASE UNCHANGED sListVars
  <2>1. UNCHANGED <<cell, malloced, list>>
    BY <1>3 DEF sListVars
  <2>2. ListsAre(cs)'
    BY <1>1, <2>1, NothingChanges
  <2> QED BY <2>2 DEF ListsAreChains
<1> QED BY <1>2, <1>3

\* Every reachable state: the lists are chains of cells that share none.
THEOREM ListsAlwaysChains == SListSpec => []ListsAreChains
<1>1. SListInit => ListsAreChains
  BY ListsStart
<1>2. ListsAreChains /\ [SListNext]_sListVars => ListsAreChains'
  BY ListsStay
<1> QED BY <1>1, <1>2, PTL DEF SListSpec

\* Memory is neither leaked nor used after it was freed, whatever calls are made
\* and however many cells, lists and items there are.
THEOREM CellsNeverLost == SListSpec => []EveryCellInOneList
<1>1. ListsAreChains => EveryCellInOneList
  BY CellsTogether DEF ListsAreChains, EveryCellInOneList
<1> QED BY <1>1, ListsAlwaysChains, PTL

\* The same of the next state.
LEMMA WorkIsItemsNext ==
  (\A cs : ListsAre(cs) => [l \in Lists |-> slist_work(list[l])] = AllItems(cell, cs))'
BY WorkIsItems, PTL

\* Every step does to the sequences of items what its call promises.
LEMMA ListsStep ==
  ASSUME ListsAreChains, SListNext
  PROVE  Seqs!ListStep
<1>1. PICK cs : ListsAre(cs)
  BY DEF ListsAreChains
<1>2. CallDone(cs)
  BY <1>1, NextDone
<1>3. PICK ds : /\ ListsAre(ds)' /\ listCall'.op # "none"
                /\ \/ Answers(AllItems(cell, cs), AllItems(cell', ds), listCall')
                   \/ Refuses(AllItems(cell, cs), AllItems(cell', ds), listCall')
  BY <1>2 DEF CallDone
<1>a. PICK q, r : q = AllItems(cell, cs) /\ r = AllItems(cell', ds)
  OBVIOUS
<1>4. [l \in Lists |-> slist_work(list[l])] = q
  BY <1>1, <1>a, WorkIsItems
<1>5. [l \in Lists |-> slist_work(list[l])]' = r
  BY <1>3, <1>a, WorkIsItemsNext
<1>6. ~listEnded
  BY DEF SListNext
<1>7. Answers(q, r, listCall') \/ Refuses(q, r, listCall')
  BY <1>3, <1>a
<1>8. CASE Answers(q, r, listCall')
  <2>1. Seqs!Answered(listCall')
    BY <1>4, <1>5, <1>8 DEF Answers, Seqs!Answered
  <2> QED BY <1>3, <1>6, <2>1 DEF Seqs!ListStep
<1>9. CASE Refuses(q, r, listCall')
  <2>1. Seqs!NoMemory(listCall')
    BY <1>4, <1>5, <1>9 DEF Refuses, Seqs!NoMemory
  <2> QED BY <1>3, <1>6, <2>1 DEF Seqs!ListStep
<1> QED BY <1>7, <1>8, <1>9

\* A stutter changes no sequence.
LEMMA ListsUnchanged ==
  ASSUME UNCHANGED sListVars
  PROVE  UNCHANGED Seqs!absVars
BY DEF sListVars, Seqs!absVars, slist_work, slist_size, Follow, NextOf

\* Every function of slist.c does what slist.h promises of it.
THEOREM ListImplementsSequence == SListSpec => ListIsSequence
<1>1. SListInit => Seqs!ListInit
  <2> SUFFICES ASSUME SListInit PROVE Seqs!ListInit
    OBVIOUS
  <2>1. [l \in Lists |-> slist_work(list[l])] = [l \in Lists |-> <<>>]
    BY ListsStart
  <2> QED BY <2>1 DEF SListInit, Seqs!ListInit
<1>2. ListsAreChains /\ [SListNext]_sListVars => [Seqs!ListStep]_(Seqs!absVars)
  <2> SUFFICES ASSUME ListsAreChains, [SListNext]_sListVars
               PROVE  Seqs!ListStep \/ UNCHANGED Seqs!absVars
    OBVIOUS
  <2>1. CASE SListNext
    BY <2>1, ListsStep
  <2>2. CASE UNCHANGED sListVars
    BY <2>2, ListsUnchanged
  <2> QED BY <2>1, <2>2
<1> QED BY <1>1, <1>2, ListsAlwaysChains, PTL DEF SListSpec, ListIsSequence, Seqs!ListSpec

-----------------------------------------------------------------------------
(* The unary calculator: numbers as chains of cells.                       *)

Domains     == {E \in SUBSET (Nat \ {0}) : IsFiniteSet(E)}
NumberHeaps == UNION {[D -> D \cup {0}] : D \in Domains}

\* The i-th cell of s, the null pointer outside.
CellAt(s, i) == IF i \in 1 .. Len(s) THEN s[i] ELSE 0

\* The number n is the chain s of cells, each one once.
IsNumber(h, n, s) ==
  /\ s \in Seq(DOMAIN h) /\ n = CellAt(s, 1)
  /\ \A i \in 1 .. Len(s) : h[s[i]] = CellAt(s, i + 1)
  /\ \A i, j \in 1 .. Len(s) : s[i] = s[j] => i = j

\* What a heap of numbers is.
LEMMA HeapFacts ==
  ASSUME NEW h \in NumberHeaps
  PROVE  /\ h = [c \in DOMAIN h |-> h[c]] /\ IsFiniteSet(DOMAIN h) /\ DOMAIN h \subseteq Nat \ {0}
         /\ \A c \in DOMAIN h : h[c] \in DOMAIN h \cup {0}
<1>1. PICK D \in Domains : h \in [D -> D \cup {0}]
  BY DEF NumberHeaps
<1> QED BY <1>1 DEF Domains

\* A function without pointers to freed cells is one.
LEMMA HeapIs ==
  ASSUME NEW D, IsFiniteSet(D), D \subseteq Nat \ {0}, NEW h, h = [c \in D |-> h[c]],
         \A c \in D : h[c] \in D \cup {0}
  PROVE  h \in NumberHeaps /\ DOMAIN h = D
<1>1. D \in Domains /\ h \in [D -> D \cup {0}]
  BY DEF Domains
<1>2. DOMAIN h = D
  OBVIOUS
<1> QED BY <1>1, <1>2 DEF NumberHeaps

\* The parts of IsNumber.
LEMMA NumberFacts ==
  ASSUME NEW h \in NumberHeaps, NEW n, NEW s, IsNumber(h, n, s)
  PROVE  /\ s \in Seq(DOMAIN h) /\ Len(s) \in Nat /\ n = CellAt(s, 1)
         /\ \A i \in 1 .. Len(s) : /\ s[i] \in DOMAIN h /\ s[i] \in CellsOf(s) /\ s[i] # 0
                                   /\ h[s[i]] = CellAt(s, i + 1)
         /\ \A i, j \in 1 .. Len(s) : s[i] = s[j] => i = j
         /\ CellsOf(s) \subseteq DOMAIN h /\ n \in DOMAIN h \cup {0} /\ n \in Nat
<1>1. s \in Seq(DOMAIN h) /\ Len(s) \in Nat /\ n = CellAt(s, 1)
  BY DEF IsNumber
<1>2. \A i \in 1 .. Len(s) : s[i] \in DOMAIN h
  BY <1>1
<1>3. DOMAIN h \subseteq Nat \ {0}
  BY HeapFacts
<1>4. \A i \in 1 .. Len(s) : s[i] \in CellsOf(s) /\ s[i] # 0
  BY <1>2, <1>3 DEF CellsOf
<1>5. CellsOf(s) \subseteq DOMAIN h
  BY <1>2 DEF CellsOf
<1>6. n \in DOMAIN h \cup {0}
  BY <1>1, <1>2 DEF CellAt
<1> QED BY <1>1, <1>2, <1>3, <1>4, <1>5, <1>6 DEF IsNumber

\* The loop over one_less_.
LEMMA BelowSteps ==
  ASSUME NEW h \in NumberHeaps, NEW n \in DOMAIN h \cup {0}
  PROVE  Below(h, n)[0] = n /\ \A i \in Nat : Below(h, n)[i + 1] = one_less(h, Below(h, n)[i])
<1> DEFINE U == DOMAIN h \cup {0}
           F == [i \in Nat |-> [c \in U |-> one_less(h, c)]]
<1>1. \A i \in Nat : \A c \in U : F[i][c] \in U
  <2>1. \A c \in U : one_less(h, c) \in U
    BY HeapFacts DEF one_less, zerop, make_zero
  <2> HIDE DEF U
  <2> QED BY <2>1
<1>2. PICK f : IsLoop(f, n, F, U)
  <2> HIDE DEF F, U
  <2>1. n \in U
    BY DEF U
  <2> QED BY <1>1, <2>1, LoopExists
<1>3. f = [i \in Nat |-> IF i = 0 THEN n ELSE one_less(h, f[i - 1])]
  <2>1. \A i \in Nat : i # 0 => F[i][f[i - 1]] = one_less(h, f[i - 1])
    <3>1. \A i \in Nat : i # 0 => i - 1 \in Nat
      OBVIOUS
    <3>2. \A i \in Nat : f[i] \in U
      BY <1>2 DEF IsLoop
    <3> HIDE DEF U
    <3> QED BY <3>1, <3>2
  <2> HIDE DEF F, U
  <2> QED BY <1>2, <2>1 DEF IsLoop
<1> DEFINE at == CHOOSE g : g = [i \in Nat |-> IF i = 0 THEN n ELSE one_less(h, g[i - 1])]
<1>4. at = [i \in Nat |-> IF i = 0 THEN n ELSE one_less(h, at[i - 1])]
  BY <1>3
<1>5. Below(h, n) = at
  BY DEF Below
<1> HIDE DEF at
<1>6. at[0] = n /\ \A i \in Nat : at[i + 1] = one_less(h, at[i])
  BY <1>4
<1> QED BY <1>5, <1>6

\* It passes the cells of the number, then stays at zero.
LEMMA BelowNumber ==
  ASSUME NEW h \in NumberHeaps, NEW n, NEW s, IsNumber(h, n, s)
  PROVE  \A i \in Nat : Below(h, n)[i] = CellAt(s, i + 1)
<1>a. PICK F : F = Below(h, n)
  OBVIOUS
<1>1. /\ Len(s) \in Nat /\ n = CellAt(s, 1) /\ n \in DOMAIN h \cup {0}
      /\ \A i \in 1 .. Len(s) : s[i] # 0 /\ h[s[i]] = CellAt(s, i + 1)
  BY NumberFacts
<1>2. F[0] = n /\ \A i \in Nat : F[i + 1] = one_less(h, F[i])
  BY <1>1, <1>a, BelowSteps
<1>3. \A i \in Nat : i # 0 => one_less(h, CellAt(s, i)) = CellAt(s, i + 1)
  <2> SUFFICES ASSUME NEW i \in Nat, i # 0 PROVE one_less(h, CellAt(s, i)) = CellAt(s, i + 1)
    OBVIOUS
  <2>1. CASE i <= Len(s)
    <3>1. i \in 1 .. Len(s)
      BY <1>1, <2>1
    <3>2. CellAt(s, i) = s[i] /\ s[i] # 0
      BY <1>1, <3>1 DEF CellAt
    <3> QED BY <1>1, <3>1, <3>2 DEF one_less, zerop
  <2>2. CASE ~(i <= Len(s))
    <3>1. i \notin 1 .. Len(s) /\ i + 1 \notin 1 .. Len(s)
      BY <1>1, <2>2
    <3> QED BY <3>1 DEF CellAt, one_less, zerop, make_zero
  <2> QED BY <2>1, <2>2
<1> DEFINE good == {i \in Nat : F[i] = CellAt(s, i + 1)}
<1>4. 0 \in good
  BY <1>1, <1>2
<1>5. ASSUME NEW i \in Nat, i \in good PROVE i + 1 \in good
  <2>1. i + 1 \in Nat /\ i + 1 # 0 /\ F[i] = CellAt(s, i + 1)
    BY <1>5
  <2> QED BY <1>2, <1>3, <2>1
<1>6. \A i \in Nat : i \in good
  <2> HIDE DEF good
  <2> QED BY <1>4, <1>5, AllNats
<1> QED BY <1>6, <1>a

\* A number is no larger than the heap.
LEMMA NumberFits ==
  ASSUME NEW h \in NumberHeaps, NEW n, NEW s, IsNumber(h, n, s)
  PROVE  Len(s) \in 0 .. Cardinality(DOMAIN h)
<1>1. IsFiniteSet(DOMAIN h) /\ Cardinality(DOMAIN h) \in Nat
  BY HeapFacts, FS_CardinalityType
<1>2. Len(s) \in Nat /\ s \in Seq(DOMAIN h)
  BY NumberFacts
<1>3. IsFiniteSet(1 .. Len(s)) /\ Cardinality(1 .. Len(s)) = Len(s)
  <2>1. PICK k \in Nat : k = Len(s)
    BY <1>2
  <2>2. IsFiniteSet(1 .. k) /\ Cardinality(1 .. k) = k
    BY FS_Interval
  <2> QED BY <2>1, <2>2
<1> SUFFICES ASSUME Len(s) > Cardinality(DOMAIN h) PROVE FALSE
  BY <1>1, <1>2
<1>4. s \in [1 .. Len(s) -> DOMAIN h]
  BY <1>2
<1>5. \E i, j \in 1 .. Len(s) : i # j /\ s[i] = s[j]
  BY <1>1, <1>3, <1>4, FS_PigeonHole
<1> QED BY <1>5 DEF IsNumber

\* What the functions that read a number find.
LEMMA NumberReads ==
  ASSUME NEW h \in NumberHeaps, NEW n, NEW s, IsNumber(h, n, s)
  PROVE  /\ number_to_unsigned_int(h, n) = Len(s) /\ CellsOfNumber(h, n) = CellsOf(s)
         /\ \A k \in 0 .. Len(s) : /\ TopCells(h, n, k) = {s[i] : i \in 1 .. k}
                                   /\ Below(h, n)[k] = CellAt(s, k + 1)
<1>a. PICK F : F = Below(h, n)
  OBVIOUS
<1>1. \A i \in Nat : F[i] = CellAt(s, i + 1)
  BY <1>a, BelowNumber
<1>2. /\ Len(s) \in Nat /\ Len(s) \in 0 .. Cardinality(DOMAIN h)
      /\ \A i \in 1 .. Len(s) : s[i] # 0 /\ CellAt(s, i) = s[i]
      /\ CellAt(s, Len(s) + 1) = 0
  BY NumberFits, NumberFacts DEF CellAt
<1>3. \A k \in 0 .. Len(s) : TopCells(h, n, k) = {s[i] : i \in 1 .. k}
  <2> SUFFICES ASSUME NEW k \in 0 .. Len(s)
               PROVE  {F[i] : i \in 0 .. k - 1} = {s[i] : i \in 1 .. k}
    BY <1>a DEF TopCells
  <2>1. \A i \in 0 .. k - 1 : i + 1 \in 1 .. k /\ F[i] = s[i + 1]
    <3>1. \A i \in 0 .. k - 1 : i \in Nat /\ i + 1 \in 1 .. k /\ i + 1 \in 1 .. Len(s)
      BY <1>2
    <3> QED BY <1>1, <1>2, <3>1
  <2>2. \A i \in 1 .. k : i - 1 \in 0 .. k - 1 /\ i - 1 + 1 = i
    OBVIOUS
  <2>3. ASSUME NEW i \in 0 .. k - 1 PROVE F[i] \in {s[j] : j \in 1 .. k}
    BY <2>1
  <2>4. ASSUME NEW i \in 1 .. k PROVE s[i] \in {F[j] : j \in 0 .. k - 1}
    <3>1. i - 1 \in 0 .. k - 1 /\ F[i - 1] = s[i]
      BY <2>1, <2>2
    <3> QED BY <3>1
  <2> QED BY <2>3, <2>4
<1>4. number_to_unsigned_int(h, n) = Len(s)
  <2> DEFINE Ends(k) == zerop(F[k]) /\ \A i \in 0 .. k - 1 : ~zerop(F[i])
  <2>1. Ends(Len(s))
    <3>1. \A i \in 0 .. Len(s) - 1 : i \in Nat /\ i + 1 \in 1 .. Len(s)
      BY <1>2
    <3> QED BY <1>1, <1>2, <3>1 DEF zerop
  <2>2. \A k \in 0 .. Cardinality(DOMAIN h) : Ends(k) => k = Len(s)
    <3> SUFFICES ASSUME NEW k \in 0 .. Cardinality(DOMAIN h), Ends(k) PROVE k = Len(s)
      OBVIOUS
    <3>1. k \in Nat
      BY HeapFacts, FS_CardinalityType
    <3>2. ~(k < Len(s))
      <4> SUFFICES ASSUME k < Len(s) PROVE FALSE
        OBVIOUS
      <4>1. k + 1 \in 1 .. Len(s)
        BY <1>2, <3>1
      <4> QED BY <1>1, <1>2, <3>1, <4>1 DEF zerop
    <3>3. ~(Len(s) < k)
      BY <1>2, <2>1, <3>1
    <3> QED BY <1>2, <3>1, <3>2, <3>3
  <2>3. number_to_unsigned_int(h, n) = CHOOSE k \in 0 .. Cardinality(DOMAIN h) : Ends(k)
    BY <1>a DEF number_to_unsigned_int
  <2> HIDE DEF Ends
  <2> QED BY <1>2, <2>1, <2>2, <2>3
<1>5. CellsOfNumber(h, n) = CellsOf(s)
  BY <1>2, <1>3, <1>4 DEF CellsOfNumber, CellsOf
<1>6. \A k \in 0 .. Len(s) : F[k] = CellAt(s, k + 1)
  BY <1>1
<1> QED BY <1>3, <1>4, <1>5, <1>6, <1>a

\* The next cell is free.
LEMMA FreshIs ==
  ASSUME NEW h \in NumberHeaps
  PROVE  Fresh(h) \in Nat \ {0} /\ Fresh(h) \notin DOMAIN h
<1>a. PICK D, n : D = DOMAIN h /\ n = Cardinality(DOMAIN h)
  OBVIOUS
<1>1. IsFiniteSet(D) /\ n \in Nat /\ n = Cardinality(D)
  BY <1>a, HeapFacts, FS_CardinalityType
<1>2. IsFiniteSet(1 .. n + 1) /\ Cardinality(1 .. n + 1) = n + 1
  <2>1. PICK k \in Nat : k = n + 1
    BY <1>1
  <2>2. IsFiniteSet(1 .. k) /\ Cardinality(1 .. k) = k
    BY FS_Interval
  <2> QED BY <2>1, <2>2
<1>3. ~(1 .. n + 1 \subseteq D)
  <2> SUFFICES ASSUME 1 .. n + 1 \subseteq D PROVE FALSE
    OBVIOUS
  <2>1. Cardinality(1 .. n + 1) <= Cardinality(D)
    BY <1>1, FS_Subset
  <2> QED BY <1>1, <1>2, <2>1
<1>4. \E c \in 1 .. n + 1 : c \notin D
  BY <1>3
<1>5. Fresh(h) = CHOOSE c \in 1 .. n + 1 : c \notin D
  BY <1>a DEF Fresh
<1>6. Fresh(h) \in 1 .. n + 1 /\ Fresh(h) \notin D
  BY <1>4, <1>5
<1> QED BY <1>1, <1>6, <1>a

\* A number keeps its cells when others are allocated.
LEMMA NumberStays ==
  ASSUME NEW h \in NumberHeaps, NEW g, NEW n, NEW s, IsNumber(h, n, s),
         CellsOf(s) \subseteq DOMAIN g, \A c \in CellsOf(s) : g[c] = h[c]
  PROVE  IsNumber(g, n, s)
<1>1. /\ s \in Seq(DOMAIN h) /\ Len(s) \in Nat /\ n = CellAt(s, 1)
      /\ \A i \in 1 .. Len(s) : s[i] \in CellsOf(s) /\ h[s[i]] = CellAt(s, i + 1)
      /\ \A i, j \in 1 .. Len(s) : s[i] = s[j] => i = j
  BY NumberFacts
<1>2. s \in Seq(DOMAIN g)
  <2>1. \A i \in 1 .. Len(s) : s[i] \in DOMAIN g
    BY <1>1
  <2>2. s = [i \in 1 .. Len(s) |-> s[i]]
    BY <1>1
  <2>3. s \in [1 .. Len(s) -> DOMAIN g]
    BY <2>1, <2>2
  <2> QED BY <1>1, <2>3
<1>3. \A i \in 1 .. Len(s) : g[s[i]] = CellAt(s, i + 1)
  BY <1>1
<1> QED BY <1>1, <1>2, <1>3 DEF IsNumber

\* g is h with the cells t of another number a, which is k.
IsNew(h, g, a, k, t) ==
  /\ g \in NumberHeaps /\ \A c \in DOMAIN h : g[c] = h[c]
  /\ IsNumber(g, a, t) /\ Len(t) = k
  /\ CellsOf(t) \cap DOMAIN h = {} /\ DOMAIN g = DOMAIN h \cup CellsOf(t)

NewNumber(h, g, a, k) == \E t : IsNew(h, g, a, k, t)

\* A new number has its value, and the others are what they were.
LEMMA NewFacts ==
  ASSUME NEW h \in NumberHeaps, NEW g, NEW a, NEW k, NewNumber(h, g, a, k)
  PROVE  /\ g \in NumberHeaps /\ a \in Nat /\ k \in Nat
         /\ number_to_unsigned_int(g, a) = k
         /\ \A n, s : IsNumber(h, n, s) => IsNumber(g, n, s)
<1>1. PICK t : IsNew(h, g, a, k, t)
  BY DEF NewNumber
<1>2. /\ g \in NumberHeaps /\ \A c \in DOMAIN h : g[c] = h[c]
      /\ IsNumber(g, a, t) /\ Len(t) = k /\ DOMAIN h \subseteq DOMAIN g
  BY <1>1 DEF IsNew
<1>3. a \in Nat /\ Len(t) \in Nat
  BY <1>2, NumberFacts
<1>4. number_to_unsigned_int(g, a) = k
  BY <1>2, NumberReads
<1>5. ASSUME NEW n, NEW s, IsNumber(h, n, s) PROVE IsNumber(g, n, s)
  <2>1. CellsOf(s) \subseteq DOMAIN h
    BY <1>5, NumberFacts
  <2>2. CellsOf(s) \subseteq DOMAIN g /\ \A c \in CellsOf(s) : g[c] = h[c]
    BY <1>2, <2>1
  <2> QED BY <1>5, <2>2, NumberStays
<1> QED BY <1>2, <1>3, <1>4, <1>5

\* Zero needs no cell.
LEMMA NewZero ==
  ASSUME NEW h \in NumberHeaps
  PROVE  NewNumber(h, h, 0, 0)
<1>1. PICK e : e = <<>>
  OBVIOUS
<1>2. IsNumber(h, 0, e) /\ Len(e) = 0 /\ CellsOf(e) = {}
  BY <1>1 DEF IsNumber, CellAt, CellsOf
<1>3. IsNew(h, h, 0, 0, e)
  BY <1>2 DEF IsNew
<1> QED BY <1>3 DEF NewNumber

\* One cell more.
LEMMA NewOne ==
  ASSUME NEW h \in NumberHeaps, NEW g, NEW a, NEW k, NewNumber(h, g, a, k)
  PROVE  NewNumber(h, add_one(g, a)[1], add_one(g, a)[2], k + 1)
<1>1. PICK t : IsNew(h, g, a, k, t)
  BY DEF NewNumber
<1>a. PICK c : c = Fresh(g)
  OBVIOUS
<1>b. PICK E : E = DOMAIN g \cup {c}
  OBVIOUS
<1>c. PICK x : x = [b \in E |-> IF b = c THEN a ELSE g[b]]
  OBVIOUS
<1>2. /\ g \in NumberHeaps /\ \A b \in DOMAIN h : g[b] = h[b]
      /\ IsNumber(g, a, t) /\ Len(t) = k
      /\ CellsOf(t) \cap DOMAIN h = {} /\ DOMAIN g = DOMAIN h \cup CellsOf(t)
  BY <1>1 DEF IsNew
<1>3. /\ t \in Seq(DOMAIN g) /\ Len(t) \in Nat /\ a = CellAt(t, 1)
      /\ \A i \in 1 .. Len(t) : /\ t[i] \in DOMAIN g /\ t[i] \in CellsOf(t)
                                /\ g[t[i]] = CellAt(t, i + 1)
      /\ \A i, j \in 1 .. Len(t) : t[i] = t[j] => i = j
      /\ a \in DOMAIN g \cup {0}
  BY <1>2, NumberFacts
<1>4. c \in Nat \ {0} /\ c \notin DOMAIN g
  BY <1>2, <1>a, FreshIs
<1>5. x \in NumberHeaps /\ DOMAIN x = E /\ x[c] = a /\ \A b \in DOMAIN g : x[b] = g[b]
  <2>1. IsFiniteSet(E) /\ E \subseteq Nat \ {0}
    <3>1. IsFiniteSet(DOMAIN g) /\ DOMAIN g \subseteq Nat \ {0}
      BY <1>2, HeapFacts
    <3>2. IsFiniteSet(DOMAIN g \cup {c})
      BY <3>1, FS_AddElement
    <3> QED BY <1>4, <1>b, <3>1, <3>2
  <2>2. x[c] = a /\ \A b \in DOMAIN g : x[b] = g[b]
    BY <1>4, <1>b, <1>c
  <2>3. \A b \in E : x[b] \in E \cup {0}
    <3>1. \A b \in DOMAIN g : g[b] \in DOMAIN g \cup {0}
      BY <1>2, HeapFacts
    <3> QED BY <1>3, <1>b, <2>2, <3>1
  <2>4. x = [b \in E |-> x[b]]
    BY <1>c
  <2> QED BY <2>1, <2>2, <2>3, <2>4, HeapIs
<1> DEFINE u == <<c>> \o t
<1>6. /\ u \in Seq(E) /\ Len(u) = k + 1 /\ u[1] = c
      /\ \A i \in 1 .. Len(t) : u[i + 1] = t[i]
  <2>1. t \in Seq(E) /\ <<c>> \in Seq(E) /\ c \in E
    <3>1. t = [i \in 1 .. Len(t) |-> t[i]] /\ \A i \in 1 .. Len(t) : t[i] \in E
      BY <1>3, <1>b
    <3>2. t \in [1 .. Len(t) -> E]
      BY <3>1
    <3> QED BY <1>3, <1>b, <3>2
  <2> QED BY <1>2, <1>3, <2>1
<1> HIDE DEF u
<1>7. \A i \in 1 .. Len(u) : i = 1 \/ (i - 1 \in 1 .. Len(t) /\ u[i] = t[i - 1])
  <2> SUFFICES ASSUME NEW i \in 1 .. Len(u), i # 1
               PROVE  i - 1 \in 1 .. Len(t) /\ u[i] = t[i - 1]
    OBVIOUS
  <2>1. i - 1 \in 1 .. Len(t) /\ i - 1 + 1 = i
    BY <1>2, <1>3, <1>6
  <2>2. u[i - 1 + 1] = t[i - 1]
    BY <1>6, <2>1
  <2> QED BY <2>1, <2>2
<1>8. \A i \in 0 .. Len(t) : CellAt(u, i + 1 + 1) = CellAt(t, i + 1)
  <2> SUFFICES ASSUME NEW i \in 0 .. Len(t) PROVE CellAt(u, i + 1 + 1) = CellAt(t, i + 1)
    OBVIOUS
  <2>1. (i + 1 + 1 \in 1 .. Len(u) <=> i + 1 \in 1 .. Len(t))
    BY <1>2, <1>3, <1>6
  <2> QED BY <1>6, <2>1 DEF CellAt
<1>9. IsNumber(x, c, u)
  <2>1. u \in Seq(DOMAIN x) /\ c = CellAt(u, 1)
    BY <1>2, <1>3, <1>5, <1>6 DEF CellAt
  <2>2. ASSUME NEW i \in 1 .. Len(u) PROVE x[u[i]] = CellAt(u, i + 1)
    <3>1. CASE i = 1
      <4>1. CellAt(u, 0 + 1 + 1) = CellAt(t, 0 + 1)
        BY <1>3, <1>8
      <4> QED BY <1>3, <1>5, <1>6, <3>1, <4>1
    <3>2. CASE i # 1
      <4>1. /\ i - 1 \in 1 .. Len(t) /\ u[i] = t[i - 1] /\ i - 1 \in 0 .. Len(t)
            /\ i - 1 + 1 + 1 = i + 1
        BY <1>3, <1>7, <3>2
      <4>2. x[t[i - 1]] = g[t[i - 1]]
        BY <1>3, <1>5, <4>1
      <4>3. CellAt(u, i - 1 + 1 + 1) = CellAt(t, i - 1 + 1)
        BY <1>8, <4>1
      <4>4. g[t[i - 1]] = CellAt(t, i - 1 + 1)
        BY <1>3, <4>1
      <4> QED BY <4>1, <4>2, <4>3, <4>4
    <3> QED BY <3>1, <3>2
  <2>3. \A i, j \in 1 .. Len(u) : u[i] = u[j] => i = j
    <3> SUFFICES ASSUME NEW i \in 1 .. Len(u), NEW j \in 1 .. Len(u), u[i] = u[j] PROVE i = j
      OBVIOUS
    <3>1. CASE i = 1 /\ j # 1
      <4>1. j - 1 \in 1 .. Len(t) /\ u[j] = t[j - 1]
        BY <1>7, <3>1
      <4> QED BY <1>3, <1>4, <1>6, <3>1, <4>1
    <3>2. CASE i # 1 /\ j = 1
      <4>1. i - 1 \in 1 .. Len(t) /\ u[i] = t[i - 1]
        BY <1>7, <3>2
      <4> QED BY <1>3, <1>4, <1>6, <3>2, <4>1
    <3>3. CASE i # 1 /\ j # 1
      <4>1. i - 1 \in 1 .. Len(t) /\ u[i] = t[i - 1] /\ j - 1 \in 1 .. Len(t) /\ u[j] = t[j - 1]
        BY <1>7, <3>3
      <4>2. i - 1 = j - 1
        BY <1>3, <4>1
      <4> QED BY <1>2, <1>3, <1>6, <4>2
    <3> QED BY <3>1, <3>2, <3>3
  <2> QED BY <2>1, <2>2, <2>3 DEF IsNumber
<1>10. CellsOf(u) = CellsOf(t) \cup {c}
  <2>1. ASSUME NEW i \in 1 .. Len(u) PROVE u[i] \in CellsOf(t) \cup {c}
    BY <1>3, <1>6, <1>7
  <2>2. c \in CellsOf(u)
    <3>1. 1 \in 1 .. Len(u)
      BY <1>2, <1>3, <1>6
    <3> QED BY <1>6, <3>1 DEF CellsOf
  <2>3. ASSUME NEW i \in 1 .. Len(t) PROVE t[i] \in CellsOf(u)
    <3>1. i + 1 \in 1 .. Len(u)
      BY <1>2, <1>3, <1>6
    <3> QED BY <1>6, <3>1 DEF CellsOf
  <2> QED BY <2>1, <2>2, <2>3 DEF CellsOf
<1>11. IsNew(h, x, c, k + 1, u)
  BY <1>2, <1>4, <1>5, <1>6, <1>9, <1>10, <1>b DEF IsNew
<1>12. add_one(g, a)[1] = x /\ add_one(g, a)[2] = c
  BY <1>a, <1>b, <1>c DEF add_one
<1> QED BY <1>11, <1>12 DEF NewNumber

\* The results of functions: h and a new number.
News(h) == {r \in NumberHeaps \X Nat : \E m \in Nat : NewNumber(h, r[1], r[2], m)}

\* A new number is a result.
LEMMA NewIsResult ==
  ASSUME NEW h \in NumberHeaps, NEW g, NEW a, NEW k, NewNumber(h, g, a, k)
  PROVE  <<g, a>> \in News(h)
<1>1. g \in NumberHeaps /\ a \in Nat /\ k \in Nat
  BY NewFacts
<1> QED BY <1>1 DEF News

\* So is one cell more.
LEMMA AddOneResult ==
  ASSUME NEW h \in NumberHeaps, NEW r \in News(h)
  PROVE  add_one(r[1], r[2]) \in News(h)
<1>1. PICK m \in Nat : NewNumber(h, r[1], r[2], m)
  BY DEF News
<1>a. PICK g, a : g = add_one(r[1], r[2])[1] /\ a = add_one(r[1], r[2])[2]
  OBVIOUS
<1>2. NewNumber(h, g, a, m + 1)
  BY <1>1, <1>a, NewOne
<1>3. add_one(r[1], r[2]) = <<g, a>>
  BY <1>a DEF add_one
<1> QED BY <1>2, <1>3, NewIsResult

\* The loop of AddOnes.
LEMMA AddOnesRun ==
  ASSUME NEW h \in NumberHeaps, NEW r \in News(h), NEW n \in Nat
  PROVE  \E f : /\ f[0] = r /\ \A i \in 1 .. n : f[i] = add_one(f[i - 1][1], f[i - 1][2])
                /\ AddOnes(r[1], r[2], n) = f[n]
<1> DEFINE U == News(h)
           F == [i \in 1 .. n |-> [u \in U |-> add_one(u[1], u[2])]]
           Is(f) == f = [i \in 0 .. n |-> IF i = 0 THEN <<r[1], r[2]>>
                                          ELSE add_one(f[i - 1][1], f[i - 1][2])]
           after == CHOOSE f : Is(f)
<1>1. \A i \in 1 .. n : \A u \in U : F[i][u] \in U
  <2>1. \A u \in U : add_one(u[1], u[2]) \in U
    BY AddOneResult
  <2> HIDE DEF U
  <2> QED BY <2>1
<1>2. PICK f : IsBounded(f, r, n, F, U)
  <2> HIDE DEF F
  <2> QED BY <1>1, BoundedLoop
<1>3. r = <<r[1], r[2]>>
  BY DEF News
<1>4. Is(f)
  <2>1. f = [i \in 0 .. n |-> IF i = 0 THEN r ELSE F[i][f[i - 1]]] /\ \A i \in 0 .. n : f[i] \in U
    <3> HIDE DEF F, U
    <3> QED BY <1>2 DEF IsBounded
  <2>2. \A i \in 0 .. n : i # 0 => F[i][f[i - 1]] = add_one(f[i - 1][1], f[i - 1][2])
    <3>1. \A i \in 0 .. n : i # 0 => i \in 1 .. n /\ i - 1 \in 0 .. n
      OBVIOUS
    <3>2. \A i \in 0 .. n : f[i] \in U
      BY <2>1
    <3> HIDE DEF U
    <3> QED BY <3>1, <3>2
  <2> HIDE DEF F, U
  <2> QED BY <1>3, <2>1, <2>2
<1>5. Is(after)
  <2> HIDE DEF Is
  <2> QED BY <1>4
<1>6. AddOnes(r[1], r[2], n) = after[n]
  BY DEF AddOnes
<1> HIDE DEF after
<1>7. after[0] = r /\ \A i \in 1 .. n : after[i] = add_one(after[i - 1][1], after[i - 1][2])
  BY <1>3, <1>5
<1> QED BY <1>6, <1>7

\* It adds its number of turns.
LEMMA NewOnes ==
  ASSUME NEW h \in NumberHeaps, NEW g, NEW a, NEW k, NewNumber(h, g, a, k), NEW n \in Nat
  PROVE  /\ NewNumber(h, AddOnes(g, a, n)[1], AddOnes(g, a, n)[2], k + n)
         /\ AddOnes(g, a, n) \in News(h)
<1>a. PICK r : r = <<g, a>>
  OBVIOUS
<1>1. r \in News(h) /\ r[1] = g /\ r[2] = a /\ k \in Nat
  BY <1>a, NewIsResult, NewFacts
<1>2. PICK f : /\ f[0] = r /\ \A i \in 1 .. n : f[i] = add_one(f[i - 1][1], f[i - 1][2])
               /\ AddOnes(r[1], r[2], n) = f[n]
  BY <1>1, AddOnesRun
<1> DEFINE good == {i \in Nat : i <= n => f[i] \in News(h) /\ NewNumber(h, f[i][1], f[i][2], k + i)}
<1>3. 0 \in good
  BY <1>1, <1>2
<1>4. ASSUME NEW i \in Nat, i \in good PROVE i + 1 \in good
  <2> SUFFICES ASSUME i + 1 <= n
               PROVE  f[i + 1] \in News(h) /\ NewNumber(h, f[i + 1][1], f[i + 1][2], k + (i + 1))
    OBVIOUS
  <2>1. i + 1 \in 1 .. n /\ i + 1 - 1 = i /\ i <= n
    OBVIOUS
  <2>2. PICK u : u = f[i]
    OBVIOUS
  <2>3. u \in News(h) /\ NewNumber(h, u[1], u[2], k + i)
    BY <1>4, <2>1, <2>2
  <2>4. f[i + 1] = add_one(u[1], u[2])
    BY <1>2, <2>1, <2>2
  <2>5. NewNumber(h, add_one(u[1], u[2])[1], add_one(u[1], u[2])[2], k + i + 1)
    BY <2>3, NewOne
  <2>6. k + i + 1 = k + (i + 1)
    BY <1>1
  <2> QED BY <2>3, <2>4, <2>5, <2>6, AddOneResult
<1>5. \A i \in Nat : i \in good
  <2> HIDE DEF good
  <2> QED BY <1>3, <1>4, AllNats
<1>6. f[n] \in News(h) /\ NewNumber(h, f[n][1], f[n][2], k + n)
  BY <1>5
<1> QED BY <1>1, <1>2, <1>6

\* The sum of two numbers is a new number.
LEMMA AddIsNew ==
  ASSUME NEW h \in NumberHeaps, NEW x, NEW s, IsNumber(h, x, s), NEW y, NEW t, IsNumber(h, y, t)
  PROVE  /\ NewNumber(h, add(h, x, y)[1], add(h, x, y)[2], Len(s) + Len(t))
         /\ add(h, x, y) \in News(h)
<1>a. PICK copy : copy = AddOnes(h, 0, Len(t))
  OBVIOUS
<1>1. Len(s) \in Nat /\ Len(t) \in Nat /\ number_to_unsigned_int(h, y) = Len(t)
  BY NumberFacts, NumberReads
<1>2. NewNumber(h, copy[1], copy[2], 0 + Len(t))
  <2>1. NewNumber(h, h, 0, 0)
    BY NewZero
  <2> QED BY <1>1, <1>a, <2>1, NewOnes
<1>3. number_to_unsigned_int(copy[1], x) = Len(s)
  <2>1. copy[1] \in NumberHeaps /\ IsNumber(copy[1], x, s)
    BY <1>2, NewFacts
  <2> QED BY <2>1, NumberReads
<1>4. add(h, x, y) = AddOnes(copy[1], copy[2], Len(s))
  BY <1>1, <1>3, <1>a DEF add, copy_number, make_zero
<1>5. /\ NewNumber(h, AddOnes(copy[1], copy[2], Len(s))[1], AddOnes(copy[1], copy[2], Len(s))[2],
             0 + Len(t) + Len(s))
      /\ AddOnes(copy[1], copy[2], Len(s)) \in News(h)
  BY <1>1, <1>2, NewOnes
<1>6. 0 + Len(t) + Len(s) = Len(s) + Len(t)
  BY <1>1
<1> QED BY <1>4, <1>5, <1>6

\* Cells that are freed: no other cell points to them.
LEMMA FreedHeap ==
  ASSUME NEW g \in NumberHeaps, NEW D, D \subseteq DOMAIN g, \A c \in D : g[c] \in D \cup {0}
  PROVE  [c \in D |-> g[c]] \in NumberHeaps
<1>1. IsFiniteSet(D) /\ D \subseteq Nat \ {0}
  <2>1. IsFiniteSet(DOMAIN g) /\ DOMAIN g \subseteq Nat \ {0}
    BY HeapFacts
  <2> QED BY <2>1, FS_Subset
<1>a. PICK x : x = [c \in D |-> g[c]]
  OBVIOUS
<1>2. x = [c \in D |-> x[c]] /\ \A c \in D : x[c] \in D \cup {0}
  BY <1>a
<1> QED BY <1>1, <1>2, <1>a, HeapIs

\* A number, and the next one: when the first is destroyed the second one takes its place.
LEMMA Replaced ==
  ASSUME NEW h \in NumberHeaps, NEW g, NEW a, NEW k, NewNumber(h, g, a, k),
         NEW x, NEW b, NEW j, NewNumber(g, x, b, j)
  PROVE  NewNumber(h, destroy_number(x, a), b, j)
<1>1. PICK s : IsNew(h, g, a, k, s)
  BY DEF NewNumber
<1>2. PICK t : IsNew(g, x, b, j, t)
  BY DEF NewNumber
<1>3. /\ g \in NumberHeaps /\ IsNumber(g, a, s)
      /\ \A c \in DOMAIN h : g[c] = h[c]
      /\ CellsOf(s) \cap DOMAIN h = {} /\ DOMAIN g = DOMAIN h \cup CellsOf(s)
  BY <1>1 DEF IsNew
<1>4. /\ x \in NumberHeaps /\ IsNumber(x, b, t) /\ Len(t) = j
      /\ \A c \in DOMAIN g : x[c] = g[c]
      /\ CellsOf(t) \cap DOMAIN g = {} /\ DOMAIN x = DOMAIN g \cup CellsOf(t)
  BY <1>2 DEF IsNew
<1>a. PICK D : D = DOMAIN h \cup CellsOf(t)
  OBVIOUS
<1>b. PICK y : y = [c \in D |-> x[c]]
  OBVIOUS
<1>5. destroy_number(x, a) = y
  <2>1. IsNumber(x, a, s)
    BY <1>2, <1>3, NewFacts
  <2>2. CellsOfNumber(x, a) = CellsOf(s)
    BY <1>4, <2>1, NumberReads
  <2>3. DOMAIN x \ CellsOf(s) = D
    BY <1>3, <1>4, <1>a
  <2>4. destroy_number(x, a) = [c \in DOMAIN x \ CellsOfNumber(x, a) |-> x[c]]
    BY DEF destroy_number, decrement_number, CellsOfNumber
  <2> QED BY <1>b, <2>2, <2>3, <2>4
<1>6. y \in NumberHeaps
  <2>1. ASSUME NEW c \in DOMAIN h PROVE x[c] \in D \cup {0}
    <3>1. h[c] \in DOMAIN h \cup {0}
      BY HeapFacts
    <3> QED BY <1>3, <1>4, <1>a, <3>1
  <2>2. ASSUME NEW i \in 1 .. Len(t) PROVE x[t[i]] \in D \cup {0}
    <3>1. x[t[i]] = CellAt(t, i + 1) /\ \A m \in 1 .. Len(t) : t[m] \in CellsOf(t)
      BY <1>4, NumberFacts
    <3> QED BY <1>a, <3>1 DEF CellAt
  <2>3. \A c \in D : x[c] \in D \cup {0}
    BY <1>a, <2>1, <2>2 DEF CellsOf
  <2>4. D \subseteq DOMAIN x
    BY <1>3, <1>4, <1>a
  <2> QED BY <1>4, <1>b, <2>3, <2>4, FreedHeap
<1>7. IsNumber(y, b, t)
  <2>1. CellsOf(t) \subseteq DOMAIN y /\ \A c \in CellsOf(t) : y[c] = x[c]
    BY <1>a, <1>b
  <2> QED BY <1>4, <2>1, NumberStays
<1>8. IsNew(h, y, b, j, t)
  <2>1. \A c \in DOMAIN h : y[c] = h[c]
    BY <1>3, <1>4, <1>a, <1>b
  <2>2. CellsOf(t) \cap DOMAIN h = {} /\ DOMAIN y = DOMAIN h \cup CellsOf(t)
    BY <1>3, <1>4, <1>a, <1>b
  <2> QED BY <1>4, <1>6, <1>7, <2>1, <2>2 DEF IsNew
<1> QED BY <1>5, <1>8 DEF NewNumber

\* One turn of product adds the second number.
LEMMA AddAgainIsNew ==
  ASSUME NEW h \in NumberHeaps, NEW y, NEW t, IsNumber(h, y, t),
         NEW r, NEW k, NewNumber(h, r[1], r[2], k)
  PROVE  /\ NewNumber(h, AddAgain(r, y)[1], AddAgain(r, y)[2], k + Len(t))
         /\ AddAgain(r, y) \in News(h)
<1>a. PICK g, a : g = r[1] /\ a = r[2]
  OBVIOUS
<1>b. PICK sum : sum = add(g, a, y)
  OBVIOUS
<1>1. NewNumber(h, g, a, k)
  BY <1>a
<1>2. PICK s : IsNew(h, g, a, k, s)
  BY <1>1 DEF NewNumber
<1>3. g \in NumberHeaps /\ IsNumber(g, a, s) /\ Len(s) = k
  BY <1>2 DEF IsNew
<1>4. IsNumber(g, y, t)
  BY <1>1, NewFacts
<1>5. NewNumber(g, sum[1], sum[2], k + Len(t))
  BY <1>3, <1>4, <1>b, AddIsNew
<1>6. NewNumber(h, destroy_number(sum[1], a), sum[2], k + Len(t))
  BY <1>1, <1>3, <1>5, Replaced
<1>7. AddAgain(r, y) = <<destroy_number(sum[1], a), sum[2]>>
  BY <1>a, <1>b DEF AddAgain
<1>8. <<destroy_number(sum[1], a), sum[2]>> \in News(h)
  BY <1>6, NewIsResult
<1> QED BY <1>6, <1>7, <1>8

\* The loop of product.
LEMMA ProductRun ==
  ASSUME NEW h \in NumberHeaps, NEW x, NEW n \in Nat, number_to_unsigned_int(h, x) = n,
         NEW y, NEW t, IsNumber(h, y, t)
  PROVE  \E f : /\ f[0] = <<h, 0>> /\ \A i \in 1 .. n : f[i] = AddAgain(f[i - 1], y)
                /\ product(h, x, y) = f[n]
<1> DEFINE U == News(h)
           F == [i \in 1 .. n |-> [u \in U |-> AddAgain(u, y)]]
           Is(f) == f = [i \in 0 .. n |-> IF i = 0 THEN <<h, 0>> ELSE AddAgain(f[i - 1], y)]
           after == CHOOSE f : Is(f)
<1>1. \A i \in 1 .. n : \A u \in U : F[i][u] \in U
  <2>1. ASSUME NEW u \in U PROVE AddAgain(u, y) \in U
    <3>1. PICK m \in Nat : NewNumber(h, u[1], u[2], m)
      BY <2>1 DEF News
    <3> QED BY <3>1, AddAgainIsNew
  <2> HIDE DEF U
  <2> QED BY <2>1
<1>2. PICK f : IsBounded(f, <<h, 0>>, n, F, U)
  <2>1. <<h, 0>> \in U
    BY NewZero, NewIsResult
  <2> HIDE DEF F, U
  <2> QED BY <1>1, <2>1, BoundedLoop
<1>4. Is(f)
  <2>1. /\ f = [i \in 0 .. n |-> IF i = 0 THEN <<h, 0>> ELSE F[i][f[i - 1]]]
        /\ \A i \in 0 .. n : f[i] \in U
    <3> HIDE DEF F, U
    <3> QED BY <1>2 DEF IsBounded
  <2>2. \A i \in 0 .. n : i # 0 => F[i][f[i - 1]] = AddAgain(f[i - 1], y)
    <3>1. \A i \in 0 .. n : i # 0 => i \in 1 .. n /\ i - 1 \in 0 .. n
      OBVIOUS
    <3>2. \A i \in 0 .. n : f[i] \in U
      BY <2>1
    <3> HIDE DEF U
    <3> QED BY <3>1, <3>2
  <2> HIDE DEF F, U
  <2> QED BY <2>1, <2>2
<1>5. Is(after)
  <2> HIDE DEF Is
  <2> QED BY <1>4
<1>6. product(h, x, y) = after[n]
  BY DEF product, make_zero
<1> HIDE DEF after
<1>7. after[0] = <<h, 0>> /\ \A i \in 1 .. n : after[i] = AddAgain(after[i - 1], y)
  BY <1>5
<1> QED BY <1>6, <1>7

\* The product of two numbers is a new number.
LEMMA ProductIsNew ==
  ASSUME NEW h \in NumberHeaps, NEW x, NEW s, IsNumber(h, x, s), NEW y, NEW t, IsNumber(h, y, t)
  PROVE  /\ NewNumber(h, product(h, x, y)[1], product(h, x, y)[2], Len(s) * Len(t))
         /\ product(h, x, y) \in News(h)
<1>a. PICK n, m : n = Len(s) /\ m = Len(t)
  OBVIOUS
<1>1. n \in Nat /\ m \in Nat /\ number_to_unsigned_int(h, x) = n
  BY <1>a, NumberFacts, NumberReads
<1>2. PICK f : /\ f[0] = <<h, 0>> /\ \A i \in 1 .. n : f[i] = AddAgain(f[i - 1], y)
               /\ product(h, x, y) = f[n]
  BY <1>1, ProductRun
<1> DEFINE good == {i \in Nat : i <= n => f[i] \in News(h) /\ NewNumber(h, f[i][1], f[i][2], i * m)}
<1>3. 0 \in good
  <2>1. NewNumber(h, h, 0, 0) /\ <<h, 0>> \in News(h)
    BY NewZero, NewIsResult
  <2>2. 0 * m = 0
    BY <1>1
  <2> QED BY <1>2, <2>1, <2>2
<1>4. ASSUME NEW i \in Nat, i \in good PROVE i + 1 \in good
  <2> SUFFICES ASSUME i + 1 <= n
               PROVE  f[i + 1] \in News(h) /\ NewNumber(h, f[i + 1][1], f[i + 1][2], (i + 1) * m)
    OBVIOUS
  <2>1. i + 1 \in 1 .. n /\ i + 1 - 1 = i /\ i <= n
    BY <1>1
  <2>2. PICK u : u = f[i]
    OBVIOUS
  <2>3. NewNumber(h, u[1], u[2], i * m)
    BY <1>4, <2>1, <2>2
  <2>4. f[i + 1] = AddAgain(u, y)
    BY <1>2, <2>1, <2>2
  <2>5. /\ NewNumber(h, AddAgain(u, y)[1], AddAgain(u, y)[2], i * m + Len(t))
        /\ AddAgain(u, y) \in News(h)
    BY <2>3, AddAgainIsNew
  <2>6. i * m + Len(t) = (i + 1) * m
    BY <1>1, <1>a
  <2> QED BY <2>4, <2>5, <2>6
<1>5. \A i \in Nat : i \in good
  <2> HIDE DEF good
  <2> QED BY <1>3, <1>4, AllNats
<1>6. f[n] \in News(h) /\ NewNumber(h, f[n][1], f[n][2], n * m)
  BY <1>1, <1>5
<1> QED BY <1>2, <1>6, <1>a

\* Decrementing frees the first cells of the new number.
LEMMA Decremented ==
  ASSUME NEW h \in NumberHeaps, NEW g, NEW a, NEW k, NewNumber(h, g, a, k), NEW j \in 0 .. k
  PROVE  NewNumber(h, decrement_number(g, a, j)[1], decrement_number(g, a, j)[2], k - j)
<1>1. PICK s : IsNew(h, g, a, k, s)
  BY DEF NewNumber
<1>2. /\ g \in NumberHeaps /\ IsNumber(g, a, s) /\ Len(s) = k
      /\ \A c \in DOMAIN h : g[c] = h[c]
      /\ CellsOf(s) \cap DOMAIN h = {} /\ DOMAIN g = DOMAIN h \cup CellsOf(s)
  BY <1>1 DEF IsNew
<1>3. /\ s \in Seq(DOMAIN g) /\ Len(s) = k /\ k \in Nat
      /\ \A i \in 1 .. k : /\ s[i] \in DOMAIN g /\ s[i] \in CellsOf(s) /\ s[i] # 0
                           /\ g[s[i]] = CellAt(s, i + 1)
      /\ \A i, m \in 1 .. k : s[i] = s[m] => i = m
  BY <1>2, NumberFacts
<1>4. TopCells(g, a, j) = {s[i] : i \in 1 .. j} /\ Below(g, a)[j] = CellAt(s, j + 1)
  BY <1>2, NumberReads
<1>a. PICK D : D = DOMAIN g \ {s[i] : i \in 1 .. j}
  OBVIOUS
<1>b. PICK y : y = [c \in D |-> g[c]]
  OBVIOUS
<1>c. PICK t : t = [i \in 1 .. k - j |-> s[i + j]]
  OBVIOUS
<1>d. PICK b : b = CellAt(s, j + 1)
  OBVIOUS
<1>5. decrement_number(g, a, j)[1] = y /\ decrement_number(g, a, j)[2] = b
  BY <1>4, <1>a, <1>b, <1>d DEF decrement_number
<1>6. \A i \in 1 .. k - j : i + j \in 1 .. k /\ t[i] = s[i + j]
  BY <1>3, <1>c
<1>7. \A i \in 1 .. k - j : t[i] \in D
  <2> SUFFICES ASSUME NEW i \in 1 .. k - j, NEW m \in 1 .. j, s[i + j] = s[m] PROVE FALSE
    BY <1>3, <1>6, <1>a
  <2>1. m \in 1 .. k /\ i + j \in 1 .. k /\ i + j # m
    BY <1>3, <1>6
  <2> QED BY <1>3, <2>1
<1>8. t \in Seq(D) /\ Len(t) = k - j
  <2>1. k - j \in Nat
    BY <1>3
  <2> QED BY <1>7, <1>c, <2>1
<1>9. D = DOMAIN h \cup CellsOf(t)
  <2>1. CellsOf(s) = {s[i] : i \in 1 .. k} /\ CellsOf(t) = {t[i] : i \in 1 .. k - j}
    BY <1>3, <1>8 DEF CellsOf
  <2>2. ASSUME NEW c \in DOMAIN h PROVE c \in D
    <3>1. \A i \in 1 .. j : s[i] \notin DOMAIN h
      BY <1>2, <1>3
    <3> QED BY <1>2, <1>a, <3>1
  <2>3. ASSUME NEW c \in D, c \notin DOMAIN h PROVE c \in CellsOf(t)
    <3>1. PICK i \in 1 .. k : c = s[i]
      BY <1>2, <1>a, <2>1, <2>3
    <3>2. i \notin 1 .. j
      BY <1>a, <3>1
    <3>3. i - j \in 1 .. k - j /\ i - j + j = i
      BY <1>3, <3>2
    <3>4. t[i - j] = c
      BY <1>6, <3>1, <3>3
    <3> QED BY <2>1, <3>3, <3>4
  <2>4. CellsOf(t) \subseteq D
    BY <1>7, <2>1
  <2> QED BY <2>2, <2>3, <2>4
<1>10. \A i \in 1 .. k - j : g[t[i]] = CellAt(t, i + 1)
  <2> SUFFICES ASSUME NEW i \in 1 .. k - j PROVE g[t[i]] = CellAt(t, i + 1)
    OBVIOUS
  <2>1. i + j \in 1 .. k /\ t[i] = s[i + j]
    BY <1>6
  <2>2. g[s[i + j]] = CellAt(s, i + j + 1)
    BY <1>3, <2>1
  <2>3. CASE i = k - j
    <3>1. i + j + 1 \notin 1 .. k /\ i + 1 \notin 1 .. k - j
      BY <1>3, <2>3
    <3> QED BY <1>3, <1>8, <2>1, <2>2, <3>1 DEF CellAt
  <2>4. CASE i # k - j
    <3>1. i + j + 1 \in 1 .. k /\ i + 1 \in 1 .. k - j /\ i + j + 1 = i + 1 + j
      BY <1>3, <2>4
    <3>2. t[i + 1] = s[i + 1 + j]
      BY <1>6, <3>1
    <3> QED BY <1>3, <1>8, <2>1, <2>2, <3>1, <3>2 DEF CellAt
  <2> QED BY <2>3, <2>4
<1>11. y \in NumberHeaps
  <2>1. \A c \in DOMAIN h : g[c] \in D \cup {0}
    <3>1. \A c \in DOMAIN h : h[c] \in DOMAIN h \cup {0}
      BY HeapFacts
    <3> QED BY <1>2, <1>9, <3>1
  <2>2. \A i \in 1 .. k - j : g[t[i]] \in D \cup {0}
    BY <1>7, <1>8, <1>10 DEF CellAt
  <2>3. \A c \in D : g[c] \in D \cup {0}
    <3>1. CellsOf(t) = {t[i] : i \in 1 .. k - j}
      BY <1>8 DEF CellsOf
    <3> QED BY <1>9, <2>1, <2>2, <3>1
  <2>4. D \subseteq DOMAIN g
    BY <1>a
  <2> QED BY <1>2, <1>b, <2>3, <2>4, FreedHeap
<1>12. IsNumber(y, b, t)
  <2>1. t \in Seq(DOMAIN y)
    BY <1>8, <1>b
  <2>2. b = CellAt(t, 1)
    <3>1. CASE k - j = 0
      <4>1. j + 1 \notin 1 .. k /\ 1 \notin 1 .. k - j
        BY <1>3, <3>1
      <4> QED BY <1>3, <1>8, <1>d, <4>1 DEF CellAt
    <3>2. CASE k - j # 0
      <4>1. j + 1 \in 1 .. k /\ 1 \in 1 .. k - j /\ 1 + j = j + 1
        BY <1>3, <3>2
      <4> QED BY <1>3, <1>6, <1>8, <1>d, <4>1 DEF CellAt
    <3> QED BY <3>1, <3>2
  <2>3. \A i \in 1 .. Len(t) : y[t[i]] = CellAt(t, i + 1)
    BY <1>7, <1>8, <1>10, <1>b
  <2>4. \A i, m \in 1 .. Len(t) : t[i] = t[m] => i = m
    <3> SUFFICES ASSUME NEW i \in 1 .. k - j, NEW m \in 1 .. k - j, t[i] = t[m] PROVE i = m
      BY <1>8
    <3>1. i + j = m + j
      BY <1>3, <1>6
    <3> QED BY <1>3, <3>1
  <2> QED BY <2>1, <2>2, <2>3, <2>4 DEF IsNumber
<1>13. IsNew(h, y, b, k - j, t)
  <2>1. \A c \in DOMAIN h : y[c] = h[c]
    BY <1>2, <1>9, <1>b
  <2>2. CellsOf(t) \cap DOMAIN h = {}
    <3>1. \A i \in 1 .. k - j : t[i] \in CellsOf(s)
      BY <1>3, <1>6
    <3>2. CellsOf(t) = {t[i] : i \in 1 .. k - j}
      BY <1>8 DEF CellsOf
    <3> QED BY <1>2, <3>1, <3>2
  <2>3. DOMAIN y = DOMAIN h \cup CellsOf(t)
    BY <1>9, <1>b
  <2> QED BY <1>8, <1>11, <1>12, <2>1, <2>2, <2>3 DEF IsNew
<1> QED BY <1>5, <1>13 DEF NewNumber

\* The assertion of subtract fails when the difference would be negative, and the difference
\* is a new number otherwise.
LEMMA SubtractIsNew ==
  ASSUME NEW h \in NumberHeaps, NEW x, NEW s, IsNumber(h, x, s), NEW y, NEW t, IsNumber(h, y, t)
  PROVE  /\ Len(t) > Len(s) => subtract(h, x, y) = <<>>
         /\ Len(t) <= Len(s) =>
              /\ NewNumber(h, subtract(h, x, y)[1], subtract(h, x, y)[2], Len(s) - Len(t))
              /\ subtract(h, x, y) \in News(h)
<1>a. PICK copy : copy = AddOnes(h, 0, Len(s))
  OBVIOUS
<1>b. PICK n, m : n = Len(s) /\ m = Len(t)
  OBVIOUS
<1>1. n \in Nat /\ m \in Nat /\ number_to_unsigned_int(h, x) = n
  BY <1>b, NumberFacts, NumberReads
<1>2. NewNumber(h, copy[1], copy[2], n)
  <2>1. NewNumber(h, h, 0, 0) /\ 0 + n = n
    BY <1>1, NewZero
  <2> QED BY <1>1, <1>a, <1>b, <2>1, NewOnes
<1>3. number_to_unsigned_int(copy[1], copy[2]) = n
  BY <1>2, NewFacts
<1>4. number_to_unsigned_int(copy[1], y) = m
  <2>1. copy[1] \in NumberHeaps /\ IsNumber(copy[1], y, t)
    BY <1>2, NewFacts
  <2> QED BY <1>b, <2>1, NumberReads
<1>5. subtract(h, x, y) = IF m > n THEN <<>> ELSE decrement_number(copy[1], copy[2], m)
  BY <1>1, <1>3, <1>4, <1>a, <1>b DEF subtract, copy_number, make_zero
<1>6. ASSUME m <= n
      PROVE  /\ NewNumber(h, subtract(h, x, y)[1], subtract(h, x, y)[2], n - m)
             /\ subtract(h, x, y) \in News(h)
  <2>a. PICK r : r = decrement_number(copy[1], copy[2], m)
    OBVIOUS
  <2>1. m \in 0 .. n
    BY <1>1, <1>6
  <2>2. NewNumber(h, r[1], r[2], n - m)
    BY <1>2, <2>1, <2>a, Decremented
  <2>3. subtract(h, x, y) = r /\ r = <<r[1], r[2]>>
    <3>1. ~(m > n)
      BY <1>1, <1>6
    <3>2. r = <<r[1], r[2]>>
      BY <2>a DEF decrement_number
    <3> QED BY <1>5, <2>a, <3>1, <3>2
  <2>4. <<r[1], r[2]>> \in News(h)
    BY <2>2, NewIsResult
  <2> QED BY <2>2, <2>3, <2>4
<1>7. m > n => subtract(h, x, y) = <<>>
  BY <1>5
<1> QED BY <1>1, <1>6, <1>7, <1>b

\* The calls of even and odd: which of them is the last one.
LEMMA LastIs ==
  ASSUME NEW h \in NumberHeaps, NEW n, NEW s, IsNumber(h, n, s), NEW f \in {"even", "odd"}
  PROVE  LastCalled(h, n, f) = IF (Len(s) % 2 = 0) <=> (f = "even") THEN "even" ELSE "odd"
<1>a. PICK v : v = Len(s)
  OBVIOUS
<1> DEFINE U == {"even", "odd"}
           F == [i \in Nat |-> [c \in U |-> IF c = "even" THEN "odd" ELSE "even"]]
           Is(g) == g = [i \in Nat |-> IF i = 0 THEN f
                                       ELSE IF g[i - 1] = "even" THEN "odd" ELSE "even"]
           called == CHOOSE g : Is(g)
<1>1. v \in Nat /\ number_to_unsigned_int(h, n) = v
  BY <1>a, NumberFacts, NumberReads
<1>2. PICK g : IsLoop(g, f, F, U)
  <2>1. \A i \in Nat : \A c \in U : F[i][c] \in U
    OBVIOUS
  <2>2. f \in U
    OBVIOUS
  <2> HIDE DEF F, U
  <2> QED BY <2>1, <2>2, LoopExists
<1>3. Is(g)
  <2>1. g = [i \in Nat |-> IF i = 0 THEN f ELSE F[i][g[i - 1]]] /\ \A i \in Nat : g[i] \in U
    <3> HIDE DEF F, U
    <3> QED BY <1>2 DEF IsLoop
  <2>2. \A i \in Nat : i # 0 => F[i][g[i - 1]] = IF g[i - 1] = "even" THEN "odd" ELSE "even"
    <3>1. \A i \in Nat : i # 0 => i - 1 \in Nat
      OBVIOUS
    <3>2. \A i \in Nat : g[i] \in U
      BY <2>1
    <3> HIDE DEF U
    <3> QED BY <3>1, <3>2
  <2> HIDE DEF F, U
  <2> QED BY <2>1, <2>2
<1>4. Is(called)
  <2> HIDE DEF Is
  <2> QED BY <1>3
<1>5. LastCalled(h, n, f) = called[v]
  BY <1>1 DEF LastCalled
<1> HIDE DEF called
<1>6. called[0] = f /\ \A i \in Nat : called[i + 1] = IF called[i] = "even" THEN "odd" ELSE "even"
  <2>1. \A i \in Nat : i + 1 \in Nat /\ i + 1 # 0 /\ i + 1 - 1 = i
    OBVIOUS
  <2> QED BY <1>4, <2>1
<1> DEFINE good == {i \in Nat : called[i] = IF (i % 2 = 0) <=> (f = "even") THEN "even" ELSE "odd"}
<1>7. 0 \in good
  BY <1>6
<1>8. ASSUME NEW i \in Nat, i \in good PROVE i + 1 \in good
  <2>1. i + 1 \in Nat /\ ((i + 1) % 2 = 0 <=> i % 2 # 0)
    OBVIOUS
  <2>2. called[i] = IF (i % 2 = 0) <=> (f = "even") THEN "even" ELSE "odd"
    BY <1>8
  <2>3. called[i + 1] = IF called[i] = "even" THEN "odd" ELSE "even"
    BY <1>6
  <2> QED BY <2>1, <2>2, <2>3
<1>9. \A i \in Nat : i \in good
  <2> HIDE DEF good
  <2> QED BY <1>7, <1>8, AllNats
<1> QED BY <1>1, <1>5, <1>9, <1>a

\* even and odd answer one and zero.
LEMMA EvenIsNew ==
  ASSUME NEW h \in NumberHeaps, NEW n, NEW s, IsNumber(h, n, s)
  PROVE  /\ NewNumber(h, even(h, n)[1], even(h, n)[2], 1 - (Len(s) % 2))
         /\ NewNumber(h, odd(h, n)[1], odd(h, n)[2], Len(s) % 2)
<1>a. PICK v : v = Len(s)
  OBVIOUS
<1>1. v \in Nat
  BY <1>a, NumberFacts
<1>2. NewNumber(h, add_one(h, 0)[1], add_one(h, 0)[2], 1)
  <2>1. NewNumber(h, h, 0, 0) /\ 0 + 1 = 1
    BY NewZero
  <2>2. NewNumber(h, add_one(h, 0)[1], add_one(h, 0)[2], 0 + 1)
    BY <2>1, NewOne
  <2> QED BY <2>1, <2>2
<1>3. NewNumber(h, h, 0, 0)
  BY NewZero
<1>4. NewNumber(h, OfZero(h, "even")[1], OfZero(h, "even")[2], 1)
  BY <1>2 DEF OfZero, make_zero
<1>5. NewNumber(h, OfZero(h, "odd")[1], OfZero(h, "odd")[2], 0)
  <2>1. OfZero(h, "odd")[1] = h /\ OfZero(h, "odd")[2] = 0
    BY DEF OfZero, make_zero
  <2> QED BY <1>3, <2>1
<1>6. LastCalled(h, n, "even") = IF v % 2 = 0 THEN "even" ELSE "odd"
  <2>1. LastCalled(h, n, "even") = IF (Len(s) % 2 = 0) <=> ("even" = "even") THEN "even" ELSE "odd"
    BY LastIs
  <2> QED BY <1>a, <2>1
<1>7. LastCalled(h, n, "odd") = IF v % 2 = 0 THEN "odd" ELSE "even"
  <2>1. LastCalled(h, n, "odd") = IF (Len(s) % 2 = 0) <=> ("odd" = "even") THEN "even" ELSE "odd"
    BY LastIs
  <2> QED BY <1>a, <2>1
<1>8. CASE v % 2 = 0
  <2>1. 1 - (v % 2) = 1
    BY <1>8
  <2> QED BY <1>4, <1>5, <1>6, <1>7, <1>8, <1>a, <2>1 DEF even, odd
<1>9. CASE v % 2 # 0
  <2>1. v % 2 = 1 /\ 1 - (v % 2) = 0
    BY <1>1, <1>9
  <2> QED BY <1>4, <1>5, <1>6, <1>7, <1>9, <1>a, <2>1 DEF even, odd
<1> QED BY <1>8, <1>9

\* The numbers st[i] of the places I are the chains ss[i] of vs[i] cells; no cell is in two of
\* them, and every cell of the heap is in one.
HeldBy(h, I, st, vs, ss) ==
  /\ \A i \in I : IsNumber(h, st[i], ss[i]) /\ Len(ss[i]) = vs[i]
  /\ \A i, j \in I : i # j => CellsOf(ss[i]) \cap CellsOf(ss[j]) = {}
  /\ DOMAIN h = UNION {CellsOf(ss[i]) : i \in I}

Holds(h, I, st, vs) == h \in NumberHeaps /\ \E ss : HeldBy(h, I, st, vs, ss)

\* Every cell of the heap is in the number of one of the places I.
OwnCells(h, I, st) ==
  /\ DOMAIN h = UNION {CellsOfNumber(h, st[i]) : i \in I}
  /\ \A i, j \in I : i # j => CellsOfNumber(h, st[i]) \cap CellsOfNumber(h, st[j]) = {}

\* The stack is read right and owns the heap.
LEMMA HoldsRead ==
  ASSUME NEW h, NEW I, NEW st, NEW vs, Holds(h, I, st, vs)
  PROVE  /\ h \in NumberHeaps /\ OwnCells(h, I, st)
         /\ \A i \in I : vs[i] \in Nat /\ number_to_unsigned_int(h, st[i]) = vs[i]
<1>1. h \in NumberHeaps
  BY DEF Holds
<1>2. PICK ss : HeldBy(h, I, st, vs, ss)
  BY DEF Holds
<1>3. \A i \in I : IsNumber(h, st[i], ss[i]) /\ Len(ss[i]) = vs[i]
  BY <1>2 DEF HeldBy
<1>4. \A i \in I : vs[i] \in Nat /\ number_to_unsigned_int(h, st[i]) = vs[i]
  BY <1>1, <1>3, NumberReads, NumberFacts
<1>5. \A i \in I : CellsOfNumber(h, st[i]) = CellsOf(ss[i])
  BY <1>1, <1>3, NumberReads
<1>6. DOMAIN h = UNION {CellsOfNumber(h, st[i]) : i \in I}
  BY <1>2, <1>5 DEF HeldBy
<1>7. \A i, j \in I : i # j => CellsOfNumber(h, st[i]) \cap CellsOfNumber(h, st[j]) = {}
  BY <1>2, <1>5 DEF HeldBy
<1> QED BY <1>1, <1>4, <1>6, <1>7 DEF OwnCells

\* The number in a place.
LEMMA HoldsNumber ==
  ASSUME NEW h, NEW I, NEW st, NEW vs, Holds(h, I, st, vs), NEW i \in I
  PROVE  h \in NumberHeaps /\ \E s : IsNumber(h, st[i], s) /\ Len(s) = vs[i]
BY DEF Holds, HeldBy

\* A new number takes a new place.
Extended(I, st, vs, p, a, k, st2, vs2) ==
  /\ p \notin I /\ st2[p] = a /\ vs2[p] = k
  /\ \A i \in I : st2[i] = st[i] /\ vs2[i] = vs[i]

\* The new place holds the new number.
LEMMA HoldsNew ==
  ASSUME NEW h, NEW I, NEW st, NEW vs, Holds(h, I, st, vs),
         NEW g, NEW a, NEW k, NewNumber(h, g, a, k),
         NEW p, NEW st2, NEW vs2, Extended(I, st, vs, p, a, k, st2, vs2)
  PROVE  Holds(g, I \cup {p}, st2, vs2)
<1>0. p \notin I /\ st2[p] = a /\ vs2[p] = k /\ \A i \in I : st2[i] = st[i] /\ vs2[i] = vs[i]
  BY DEF Extended
<1>1. h \in NumberHeaps
  BY DEF Holds
<1>2. PICK ss : HeldBy(h, I, st, vs, ss)
  BY DEF Holds
<1>3. PICK t : IsNew(h, g, a, k, t)
  BY DEF NewNumber
<1>4. /\ \A i \in I : IsNumber(h, st[i], ss[i]) /\ Len(ss[i]) = vs[i]
      /\ \A i, j \in I : i # j => CellsOf(ss[i]) \cap CellsOf(ss[j]) = {}
      /\ DOMAIN h = UNION {CellsOf(ss[i]) : i \in I}
  BY <1>2 DEF HeldBy
<1>5. /\ g \in NumberHeaps /\ IsNumber(g, a, t) /\ Len(t) = k
      /\ CellsOf(t) \cap DOMAIN h = {} /\ DOMAIN g = DOMAIN h \cup CellsOf(t)
  BY <1>3 DEF IsNew
<1>6. \A n, s : IsNumber(h, n, s) => IsNumber(g, n, s)
  BY <1>1, NewFacts
<1>a. PICK J : J = I \cup {p}
  OBVIOUS
<1>b. PICK tt : tt = [i \in J |-> IF i = p THEN t ELSE ss[i]]
  OBVIOUS
<1>7. tt[p] = t /\ \A i \in I : tt[i] = ss[i]
  BY <1>0, <1>a, <1>b
<1>8. \A i \in J : IsNumber(g, st2[i], tt[i]) /\ Len(tt[i]) = vs2[i]
  BY <1>0, <1>4, <1>5, <1>6, <1>7, <1>a
<1>9. \A i \in I : CellsOf(tt[i]) \subseteq DOMAIN h
  BY <1>4, <1>7
<1>10. \A i, j \in J : i # j => CellsOf(tt[i]) \cap CellsOf(tt[j]) = {}
  <2> SUFFICES ASSUME NEW i \in J, NEW j \in J, i # j
               PROVE  CellsOf(tt[i]) \cap CellsOf(tt[j]) = {}
    OBVIOUS
  <2>1. CASE i \in I /\ j \in I
    BY <1>4, <1>7, <2>1
  <2>2. CASE i = p /\ j \in I
    BY <1>5, <1>7, <1>9, <2>2
  <2>3. CASE i \in I /\ j = p
    BY <1>5, <1>7, <1>9, <2>3
  <2> QED BY <1>a, <2>1, <2>2, <2>3
<1>11. DOMAIN g = UNION {CellsOf(tt[i]) : i \in J}
  <2>1. UNION {CellsOf(tt[i]) : i \in J} = (UNION {CellsOf(tt[i]) : i \in I}) \cup CellsOf(tt[p])
    BY <1>a
  <2>2. UNION {CellsOf(tt[i]) : i \in I} = UNION {CellsOf(ss[i]) : i \in I}
    BY <1>7
  <2> QED BY <1>4, <1>5, <1>7, <2>1, <2>2
<1>12. HeldBy(g, J, st2, vs2, tt)
  BY <1>8, <1>10, <1>11 DEF HeldBy
<1>13. Holds(g, J, st2, vs2)
  BY <1>5, <1>12 DEF Holds
<1> QED BY <1>13, <1>a

\* Destroying a number empties its place.
LEMMA HoldsLess ==
  ASSUME NEW h, NEW I, NEW st, NEW vs, Holds(h, I, st, vs), NEW p \in I
  PROVE  Holds(destroy_number(h, st[p]), I \ {p}, st, vs)
<1>1. h \in NumberHeaps
  BY DEF Holds
<1>2. PICK ss : HeldBy(h, I, st, vs, ss)
  BY DEF Holds
<1>4. /\ \A i \in I : IsNumber(h, st[i], ss[i]) /\ Len(ss[i]) = vs[i]
      /\ \A i, j \in I : i # j => CellsOf(ss[i]) \cap CellsOf(ss[j]) = {}
      /\ DOMAIN h = UNION {CellsOf(ss[i]) : i \in I}
  BY <1>2 DEF HeldBy
<1>a. PICK J : J = I \ {p}
  OBVIOUS
<1>b. PICK D : D = DOMAIN h \ CellsOf(ss[p])
  OBVIOUS
<1>c. PICK y : y = [c \in D |-> h[c]]
  OBVIOUS
<1>5. destroy_number(h, st[p]) = y
  <2>1. CellsOfNumber(h, st[p]) = CellsOf(ss[p])
    BY <1>1, <1>4, NumberReads
  <2>2. destroy_number(h, st[p]) = [c \in DOMAIN h \ CellsOfNumber(h, st[p]) |-> h[c]]
    BY DEF destroy_number, decrement_number, CellsOfNumber
  <2> QED BY <1>b, <1>c, <2>1, <2>2
<1>6. D = UNION {CellsOf(ss[i]) : i \in J}
  <2>1. ASSUME NEW c \in D PROVE \E i \in J : c \in CellsOf(ss[i])
    BY <1>4, <1>a, <1>b
  <2>2. ASSUME NEW i \in J, NEW c \in CellsOf(ss[i]) PROVE c \in D
    <3>1. i \in I /\ i # p /\ CellsOf(ss[i]) \cap CellsOf(ss[p]) = {}
      BY <1>4, <1>a
    <3>2. c \in DOMAIN h
      BY <1>4, <3>1
    <3> QED BY <1>b, <3>1, <3>2
  <2> QED BY <2>1, <2>2
<1>7. y \in NumberHeaps
  <2>1. ASSUME NEW c \in D PROVE h[c] \in D \cup {0}
    <3>1. PICK i \in J : c \in CellsOf(ss[i])
      BY <1>6
    <3>2. IsNumber(h, st[i], ss[i])
      BY <1>4, <1>a
    <3>3. PICK s : s = ss[i]
      OBVIOUS
    <3>4. IsNumber(h, st[i], s)
      BY <3>2, <3>3
    <3>5. PICK m \in 1 .. Len(s) : c = s[m]
      BY <3>1, <3>3 DEF CellsOf
    <3>6. h[s[m]] = CellAt(s, m + 1) /\ \A b \in 1 .. Len(s) : s[b] \in CellsOf(s)
      BY <1>1, <3>4, NumberFacts
    <3>7. h[c] \in CellsOf(s) \cup {0}
      BY <3>5, <3>6 DEF CellAt
    <3> QED BY <1>6, <3>3, <3>7
  <2>2. D \subseteq DOMAIN h
    BY <1>b
  <2> QED BY <1>1, <1>c, <2>1, <2>2, FreedHeap
<1>8. \A i \in J : IsNumber(y, st[i], ss[i]) /\ Len(ss[i]) = vs[i]
  <2> SUFFICES ASSUME NEW i \in J PROVE IsNumber(y, st[i], ss[i])
    BY <1>4, <1>a
  <2>1. IsNumber(h, st[i], ss[i])
    BY <1>4, <1>a
  <2>2. CellsOf(ss[i]) \subseteq D
    BY <1>6
  <2>3. CellsOf(ss[i]) \subseteq DOMAIN y /\ \A c \in CellsOf(ss[i]) : y[c] = h[c]
    BY <1>c, <2>2
  <2> QED BY <1>1, <2>1, <2>3, NumberStays
<1>9. \A i, j \in J : i # j => CellsOf(ss[i]) \cap CellsOf(ss[j]) = {}
  BY <1>4, <1>a
<1>10. DOMAIN y = UNION {CellsOf(ss[i]) : i \in J}
  BY <1>6, <1>c
<1>11. HeldBy(y, J, st, vs, ss)
  BY <1>8, <1>9, <1>10 DEF HeldBy
<1>12. Holds(y, J, st, vs)
  BY <1>7, <1>11 DEF Holds
<1> QED BY <1>5, <1>12, <1>a

\* The places are renumbered.
LEMMA HoldsMap ==
  ASSUME NEW h, NEW I, NEW st, NEW vs, Holds(h, I, st, vs), NEW J, NEW p, NEW st2, NEW vs2,
         \A j \in J : p[j] \in I /\ st2[j] = st[p[j]] /\ vs2[j] = vs[p[j]],
         \A i, j \in J : i # j => p[i] # p[j], \A i \in I : \E j \in J : p[j] = i
  PROVE  Holds(h, J, st2, vs2)
<1>1. h \in NumberHeaps
  BY DEF Holds
<1>2. PICK ss : HeldBy(h, I, st, vs, ss)
  BY DEF Holds
<1>4. /\ \A i \in I : IsNumber(h, st[i], ss[i]) /\ Len(ss[i]) = vs[i]
      /\ \A i, j \in I : i # j => CellsOf(ss[i]) \cap CellsOf(ss[j]) = {}
      /\ DOMAIN h = UNION {CellsOf(ss[i]) : i \in I}
  BY <1>2 DEF HeldBy
<1>a. PICK tt : tt = [j \in J |-> ss[p[j]]]
  OBVIOUS
<1>5. \A j \in J : tt[j] = ss[p[j]]
  BY <1>a
<1>6. \A j \in J : IsNumber(h, st2[j], tt[j]) /\ Len(tt[j]) = vs2[j]
  BY <1>4, <1>5
<1>7. \A i, j \in J : i # j => CellsOf(tt[i]) \cap CellsOf(tt[j]) = {}
  BY <1>4, <1>5
<1>8. DOMAIN h = UNION {CellsOf(tt[j]) : j \in J}
  <2>1. ASSUME NEW i \in I PROVE \E j \in J : CellsOf(ss[i]) = CellsOf(tt[j])
    BY <1>5
  <2>2. ASSUME NEW j \in J PROVE \E i \in I : CellsOf(ss[i]) = CellsOf(tt[j])
    BY <1>5
  <2> QED BY <1>4, <2>1, <2>2
<1>9. HeldBy(h, J, st2, vs2, tt)
  BY <1>6, <1>7, <1>8 DEF HeldBy
<1> QED BY <1>1, <1>9 DEF Holds

\* The parts of a heap.
PartsOf(h) == {[c \in D |-> h[c]] : D \in SUBSET DOMAIN h}

\* Freeing a number leaves a part.
LEMMA DestroyedPart ==
  ASSUME NEW h, NEW u \in PartsOf(h), NEW n
  PROVE  destroy_number(u, n) \in PartsOf(h)
<1>1. PICK D \in SUBSET DOMAIN h : u = [c \in D |-> h[c]]
  BY DEF PartsOf
<1>a. PICK X : X = TopCells(u, n, number_to_unsigned_int(u, n))
  OBVIOUS
<1>2. destroy_number(u, n) = [c \in DOMAIN u \ X |-> u[c]]
  BY <1>a DEF destroy_number, decrement_number
<1>3. [c \in DOMAIN u \ X |-> u[c]] = [c \in D \ X |-> h[c]]
  BY <1>1
<1>4. D \ X \in SUBSET DOMAIN h
  OBVIOUS
<1> QED BY <1>2, <1>3, <1>4 DEF PartsOf

\* The loop of clear_stack.
LEMMA ClearRun ==
  ASSUME NEW h \in NumberHeaps, NEW s, NEW n \in Nat, Len(s) = n
  PROVE  \E f : /\ f[0] = h /\ \A i \in 1 .. n : f[i] = destroy_number(f[i - 1], s[i])
                /\ clear_stack(h, s) = f[n]
<1> DEFINE U == PartsOf(h)
           F == [i \in 1 .. n |-> [u \in U |-> destroy_number(u, s[i])]]
           Is(f) == f = [i \in 0 .. n |-> IF i = 0 THEN h ELSE destroy_number(f[i - 1], s[i])]
           after == CHOOSE f : Is(f)
<1>1. \A i \in 1 .. n : \A u \in U : F[i][u] \in U
  <2>1. \A i \in 1 .. n : \A u \in U : destroy_number(u, s[i]) \in U
    BY DestroyedPart
  <2> HIDE DEF U
  <2> QED BY <2>1
<1>2. PICK f : IsBounded(f, h, n, F, U)
  <2>1. h \in U
    BY HeapFacts DEF PartsOf
  <2> HIDE DEF F, U
  <2> QED BY <1>1, <2>1, BoundedLoop
<1>4. Is(f)
  <2>1. /\ f = [i \in 0 .. n |-> IF i = 0 THEN h ELSE F[i][f[i - 1]]]
        /\ \A i \in 0 .. n : f[i] \in U
    <3> HIDE DEF F, U
    <3> QED BY <1>2 DEF IsBounded
  <2>2. \A i \in 0 .. n : i # 0 => F[i][f[i - 1]] = destroy_number(f[i - 1], s[i])
    <3>1. \A i \in 0 .. n : i # 0 => i \in 1 .. n /\ i - 1 \in 0 .. n
      OBVIOUS
    <3>2. \A i \in 0 .. n : f[i] \in U
      BY <2>1
    <3> HIDE DEF U
    <3> QED BY <3>1, <3>2
  <2> HIDE DEF F, U
  <2> QED BY <2>1, <2>2
<1>5. Is(after)
  <2> HIDE DEF Is
  <2> QED BY <1>4
<1>6. clear_stack(h, s) = after[n]
  BY DEF clear_stack
<1> HIDE DEF after
<1>7. after[0] = h /\ \A i \in 1 .. n : after[i] = destroy_number(after[i - 1], s[i])
  BY <1>5
<1> QED BY <1>6, <1>7

\* It leaves nothing of a heap that held the stack only.
LEMMA Cleared ==
  ASSUME NEW s, NEW n \in Nat, Len(s) = n, NEW h, NEW vs, Holds(h, 1 .. n, s, vs)
  PROVE  Holds(clear_stack(h, s), {}, s, vs)
<1>1. h \in NumberHeaps
  BY DEF Holds
<1>2. PICK f : /\ f[0] = h /\ \A i \in 1 .. n : f[i] = destroy_number(f[i - 1], s[i])
               /\ clear_stack(h, s) = f[n]
  BY <1>1, ClearRun
<1> DEFINE good == {i \in Nat : i <= n => Holds(f[i], i + 1 .. n, s, vs)}
<1>3. 0 \in good
  <2>1. 0 + 1 .. n = 1 .. n
    OBVIOUS
  <2> QED BY <1>2, <2>1
<1>4. ASSUME NEW i \in Nat, i \in good PROVE i + 1 \in good
  <2> SUFFICES ASSUME i + 1 <= n PROVE Holds(f[i + 1], i + 1 + 1 .. n, s, vs)
    OBVIOUS
  <2>a. PICK g, I : g = f[i] /\ I = i + 1 .. n
    OBVIOUS
  <2>1. Holds(g, I, s, vs) /\ i + 1 \in I
    BY <1>4, <2>a
  <2>2. Holds(destroy_number(g, s[i + 1]), I \ {i + 1}, s, vs)
    BY <2>1, HoldsLess
  <2>3. I \ {i + 1} = i + 1 + 1 .. n
    BY <2>a
  <2>4. f[i + 1] = destroy_number(g, s[i + 1])
    <3>1. i + 1 \in 1 .. n /\ i + 1 - 1 = i
      OBVIOUS
    <3> QED BY <1>2, <2>a, <3>1
  <2> QED BY <2>2, <2>3, <2>4
<1>5. \A i \in Nat : i \in good
  <2> HIDE DEF good
  <2> QED BY <1>3, <1>4, AllNats
<1>6. Holds(f[n], n + 1 .. n, s, vs)
  BY <1>5
<1>7. n + 1 .. n = {}
  OBVIOUS
<1> QED BY <1>2, <1>6, <1>7

-----------------------------------------------------------------------------

\* The invariant of the calculator: the stack holds the numbers of a calculator on Nat, and
\* nothing else is allocated.
CalcState ==
  /\ calcStatus # "return 1" =>
       /\ number_stack \in Seq(Nat) /\ values \in Seq(Nat) /\ Len(values) = Len(number_stack)
       /\ Holds(heap, 1 .. Len(number_stack), number_stack, values)
  /\ calcStatus = "abort" => values[2] < values[1]

\* The empty heap holds the empty stack.
LEMMA HoldsNothing ==
  ASSUME NEW st, NEW vs
  PROVE  Holds(<<>>, {}, st, vs)
<1>a. PICK e : e = <<>>
  OBVIOUS
<1>1. DOMAIN e = {} /\ e = [c \in {} |-> e[c]]
  BY <1>a
<1>2. e \in NumberHeaps
  BY <1>1, HeapIs, FS_EmptySet
<1>3. HeldBy(e, {}, st, vs, e)
  BY <1>1 DEF HeldBy
<1> QED BY <1>2, <1>3, <1>a DEF Holds

\* The calculator starts with it.
LEMMA CalcStarts == UnaryCalcInit => CalcState
<1> SUFFICES ASSUME UnaryCalcInit PROVE CalcState
  OBVIOUS
<1>1. number_stack = <<>> /\ values = <<>> /\ heap = <<>> /\ calcStatus = "line"
  BY DEF UnaryCalcInit
<1>2. number_stack \in Seq(Nat) /\ values \in Seq(Nat) /\ Len(number_stack) = 0 /\ Len(values) = 0
  BY <1>1
<1>3. 1 .. Len(number_stack) = {}
  BY <1>2
<1>4. Holds(heap, {}, number_stack, values)
  BY <1>1, HoldsNothing
<1> QED BY <1>1, <1>2, <1>3, <1>4 DEF CalcState

\* It holds what the runs check.
LEMMA CalcCorrect == CalcState => CalculatorInv
<1> SUFFICES ASSUME CalcState PROVE NoCellLeaks /\ CalculatesPostfix
  BY DEF CalculatorInv
<1>a. PICK st, vs, n, h, I :
        st = number_stack /\ vs = values /\ n = Len(number_stack) /\ h = heap /\ I = 1 .. n
  OBVIOUS
<1>1. ASSUME calcStatus # "return 1"
      PROVE  /\ Len(vs) = n /\ Len(st) = n
             /\ n \in Nat /\ DOMAIN st = I /\ Holds(h, I, st, vs)
  <2>1. /\ number_stack \in Seq(Nat) /\ Len(values) = Len(number_stack)
        /\ Holds(heap, 1 .. Len(number_stack), number_stack, values)
    BY <1>1 DEF CalcState
  <2>2. Len(vs) = n /\ Len(st) = n /\ n \in Nat /\ DOMAIN st = I
    BY <1>a, <2>1
  <2>3. Holds(h, I, st, vs)
    BY <1>a, <2>1
  <2> QED BY <2>2, <2>3
<1>2. NoCellLeaks
  <2> SUFFICES ASSUME calcStatus = "line"
               PROVE /\ DOMAIN h = UNION {CellsOfNumber(h, st[i]) : i \in DOMAIN st}
                     /\ \A i, j \in DOMAIN st : i # j =>
                          CellsOfNumber(h, st[i]) \cap CellsOfNumber(h, st[j]) = {}
    BY <1>a DEF NoCellLeaks
  <2>1. DOMAIN st = I /\ Holds(h, I, st, vs)
    BY <1>1
  <2>2. OwnCells(h, I, st)
    BY <2>1, HoldsRead
  <2> QED BY <2>1, <2>2 DEF OwnCells
<1>3. CalculatesPostfix
  <2>1. Len(values) = Len(number_stack) \/ calcStatus = "return 1"
    BY <1>1, <1>a
  <2>2. calcStatus = "abort" => values[2] < values[1]
    BY DEF CalcState
  <2>3. ASSUME calcStatus = "line", NEW i \in 1 .. Len(values)
        PROVE  number_to_unsigned_int(heap, number_stack[i]) = values[i]
    <3>1. Holds(h, I, st, vs) /\ Len(vs) = n
      BY <1>1, <2>3
    <3>2. i \in I
      BY <1>a, <3>1, <2>3
    <3>3. number_to_unsigned_int(h, st[i]) = vs[i]
      BY <3>1, <3>2, HoldsRead
    <3> QED BY <1>a, <3>3
  <2> QED BY <2>1, <2>2, <2>3 DEF CalculatesPostfix
<1> QED BY <1>2, <1>3

\* The stack of n numbers st, and a new number in front of it, in place 0.
InFront(n, st, vs, a, k, st0, vs0) ==
  /\ st0[0] = a /\ vs0[0] = k
  /\ \A i \in 1 .. n : st0[i] = st[i] /\ vs0[i] = vs[i]

\* A function that returns a new number gives it place 0.
LEMMA NewInFront ==
  ASSUME NEW n \in Nat, NEW h, NEW st, NEW vs, Holds(h, 1 .. n, st, vs),
         NEW g, NEW a, NEW k, NewNumber(h, g, a, k)
  PROVE  \E st0, vs0 : InFront(n, st, vs, a, k, st0, vs0) /\ Holds(g, 0 .. n, st0, vs0)
<1>a. PICK st0, vs0 : /\ st0 = [i \in 0 .. n |-> IF i = 0 THEN a ELSE st[i]]
                      /\ vs0 = [i \in 0 .. n |-> IF i = 0 THEN k ELSE vs[i]]
  OBVIOUS
<1>b. PICK I : I = 1 .. n
  OBVIOUS
<1>c. PICK p : p = 0
  OBVIOUS
<1>1. Extended(I, st, vs, p, a, k, st0, vs0)
  BY <1>a, <1>b, <1>c DEF Extended
<1>2. Holds(h, I, st, vs)
  BY <1>b
<1>3. Holds(g, I \cup {p}, st0, vs0)
  BY <1>1, <1>2, HoldsNew
<1>4. I \cup {p} = 0 .. n
  BY <1>b, <1>c
<1> QED BY <1>1, <1>3, <1>4, <1>b, <1>c DEF InFront, Extended

StackIs(h, st, vs) ==
  /\ st \in Seq(Nat) /\ vs \in Seq(Nat) /\ Len(vs) = Len(st)
  /\ Holds(h, 1 .. Len(st), st, vs)

\* What is left of the stack without its j first numbers.
IsRest(n, j, st, vs, rest, others) ==
  /\ rest \in Seq(Nat) /\ others \in Seq(Nat) /\ Len(rest) = n - j /\ Len(others) = n - j
  /\ \A i \in 1 .. n - j : rest[i] = st[i + j] /\ others[i] = vs[i + j]

\* The new number is pushed on it.
LEMMA Repushed ==
  ASSUME NEW n \in Nat, NEW j \in 0 .. n, NEW st, NEW vs, NEW a \in Nat, NEW k \in Nat,
         NEW st0, NEW vs0, InFront(n, st, vs, a, k, st0, vs0),
         NEW x, Holds(x, {0} \cup (j + 1 .. n), st0, vs0),
         NEW rest, NEW others, IsRest(n, j, st, vs, rest, others)
  PROVE  StackIs(x, <<a>> \o rest, <<k>> \o others)
<1>0. /\ rest \in Seq(Nat) /\ others \in Seq(Nat) /\ Len(rest) = n - j /\ Len(others) = n - j
      /\ \A i \in 1 .. n - j : rest[i] = st[i + j] /\ others[i] = vs[i + j]
  BY DEF IsRest
<1>a. PICK s, w : s = <<a>> \o rest /\ w = <<k>> \o others
  OBVIOUS
<1>1. s \in Seq(Nat) /\ w \in Seq(Nat) /\ Len(s) = n - j + 1 /\ Len(w) = n - j + 1
  BY <1>0, <1>a
<1>2. s[1] = a /\ w[1] = k
  BY <1>0, <1>a
<1>3. \A i \in 1 .. n - j : s[i + 1] = rest[i] /\ w[i + 1] = others[i]
  BY <1>0, <1>a
<1>b. PICK I, J : I = {0} \cup (j + 1 .. n) /\ J = 1 .. n - j + 1
  OBVIOUS
<1>c. PICK p : p = [i \in J |-> IF i = 1 THEN 0 ELSE i - 1 + j]
  OBVIOUS
<1>4. \A i \in J : p[i] \in I /\ s[i] = st0[p[i]] /\ w[i] = vs0[p[i]]
  <2> SUFFICES ASSUME NEW i \in J PROVE p[i] \in I /\ s[i] = st0[p[i]] /\ w[i] = vs0[p[i]]
    OBVIOUS
  <2>1. CASE i = 1
    <3>1. p[i] = 0
      BY <1>c, <2>1
    <3> QED BY <1>2, <1>b, <2>1, <3>1 DEF InFront
  <2>2. CASE i # 1
    <3>1. p[i] = i - 1 + j
      BY <1>c, <2>2
    <3>2. i - 1 \in 1 .. n - j /\ i - 1 + 1 = i /\ i - 1 + j \in j + 1 .. n /\ i - 1 + j \in 1 .. n
      BY <1>b, <2>2
    <3>3. s[i - 1 + 1] = rest[i - 1] /\ w[i - 1 + 1] = others[i - 1]
      BY <1>3, <3>2
    <3>4. st0[i - 1 + j] = st[i - 1 + j] /\ vs0[i - 1 + j] = vs[i - 1 + j]
      BY <3>2 DEF InFront
    <3> QED BY <1>0, <1>b, <3>1, <3>2, <3>3, <3>4
  <2> QED BY <2>1, <2>2
<1>5. \A i, m \in J : i # m => p[i] # p[m]
  BY <1>b, <1>c
<1>6. \A i \in I : \E m \in J : p[m] = i
  <2> SUFFICES ASSUME NEW i \in I PROVE \E m \in J : p[m] = i
    OBVIOUS
  <2>1. CASE i = 0
    <3>1. 1 \in J /\ p[1] = 0
      BY <1>b, <1>c
    <3> QED BY <2>1, <3>1
  <2>2. CASE i # 0
    <3>1. i - j + 1 \in J /\ i - j + 1 # 1 /\ i - j + 1 - 1 + j = i
      BY <1>b, <2>2
    <3>a. PICK m : m = i - j + 1
      OBVIOUS
    <3>2. m \in J /\ m # 1 /\ m - 1 + j = i
      BY <1>b, <2>2, <3>1, <3>a
    <3>3. p[m] = m - 1 + j
      BY <1>c, <3>2
    <3> QED BY <3>2, <3>3
  <2> QED BY <2>1, <2>2
<1>7. Holds(x, J, s, w)
  <2>1. Holds(x, I, st0, vs0)
    BY <1>b
  <2> QED BY <1>4, <1>5, <1>6, <2>1, HoldsMap
<1>8. J = 1 .. Len(s)
  BY <1>1, <1>b
<1> QED BY <1>1, <1>7, <1>8, <1>a DEF StackIs

\* A number is pushed; no operand, one or two are destroyed.
LEMMA PushKeeps ==
  ASSUME NEW n \in Nat, NEW h, NEW st \in Seq(Nat), NEW vs \in Seq(Nat), Len(st) = n, Len(vs) = n,
         Holds(h, 1 .. n, st, vs), NEW g, NEW a, NEW k, NewNumber(h, g, a, k)
  PROVE  StackIs(g, <<a>> \o st, <<k>> \o vs)
<1>1. PICK st0, vs0 : InFront(n, st, vs, a, k, st0, vs0) /\ Holds(g, 0 .. n, st0, vs0)
  BY NewInFront
<1>2. h \in NumberHeaps
  BY DEF Holds
<1>3. a \in Nat /\ k \in Nat
  BY <1>2, NewFacts
<1>4. Holds(g, {0} \cup (0 + 1 .. n), st0, vs0)
  <2>1. {0} \cup (0 + 1 .. n) = 0 .. n
    OBVIOUS
  <2> QED BY <1>1, <2>1
<1>a. PICK j : j = 0
  OBVIOUS
<1>5. j \in 0 .. n /\ IsRest(n, j, st, vs, st, vs)
  BY <1>a DEF IsRest
<1>6. Holds(g, {0} \cup (j + 1 .. n), st0, vs0)
  BY <1>4, <1>a
<1> QED BY <1>1, <1>3, <1>5, <1>6, Repushed

\* One operand is replaced by the answer.
LEMMA UnaryKeeps ==
  ASSUME NEW n \in Nat, n >= 1, NEW h, NEW st \in Seq(Nat), NEW vs \in Seq(Nat),
         Len(st) = n, Len(vs) = n,
         Holds(h, 1 .. n, st, vs), NEW g, NEW a, NEW k, NewNumber(h, g, a, k)
  PROVE  StackIs(destroy_number(g, st[1]), <<a>> \o Tail(st), <<k>> \o Tail(vs))
<1>1. PICK st0, vs0 : InFront(n, st, vs, a, k, st0, vs0) /\ Holds(g, 0 .. n, st0, vs0)
  BY NewInFront
<1>2. h \in NumberHeaps
  BY DEF Holds
<1>3. a \in Nat /\ k \in Nat
  BY <1>2, NewFacts
<1>4. Holds(destroy_number(g, st[1]), {0} \cup (1 + 1 .. n), st0, vs0)
  <2>a. PICK I : I = 0 .. n
    OBVIOUS
  <2>1. 1 \in I /\ Holds(g, I, st0, vs0) /\ st0[1] = st[1]
    BY <1>1, <2>a DEF InFront
  <2>2. Holds(destroy_number(g, st0[1]), I \ {1}, st0, vs0)
    BY <2>1, HoldsLess
  <2>3. I \ {1} = {0} \cup (1 + 1 .. n)
    BY <2>a
  <2> QED BY <2>1, <2>2, <2>3
<1>a. PICK j, rest, others : j = 1 /\ rest = Tail(st) /\ others = Tail(vs)
  OBVIOUS
<1>5. j \in 0 .. n /\ IsRest(n, j, st, vs, rest, others)
  <2>1. st # <<>> /\ vs # <<>>
    OBVIOUS
  <2> QED BY <1>a, <2>1 DEF IsRest
<1>b. PICK x : x = destroy_number(g, st[1])
  OBVIOUS
<1>6. Holds(x, {0} \cup (j + 1 .. n), st0, vs0)
  BY <1>4, <1>a, <1>b
<1>7. StackIs(x, <<a>> \o rest, <<k>> \o others)
  BY <1>1, <1>3, <1>5, <1>6, Repushed
<1> QED BY <1>7, <1>a, <1>b

\* Two operands are replaced by the answer.
LEMMA BinaryKeeps ==
  ASSUME NEW n \in Nat, n >= 2, NEW h, NEW st \in Seq(Nat), NEW vs \in Seq(Nat),
         Len(st) = n, Len(vs) = n,
         Holds(h, 1 .. n, st, vs), NEW g, NEW a, NEW k, NewNumber(h, g, a, k)
  PROVE  StackIs(destroy_number(destroy_number(g, st[2]), st[1]),
                 <<a>> \o SubSeq(st, 3, n), <<k>> \o SubSeq(vs, 3, n))
<1>1. PICK st0, vs0 : InFront(n, st, vs, a, k, st0, vs0) /\ Holds(g, 0 .. n, st0, vs0)
  BY NewInFront
<1>2. h \in NumberHeaps
  BY DEF Holds
<1>3. a \in Nat /\ k \in Nat
  BY <1>2, NewFacts
<1>4. Holds(destroy_number(destroy_number(g, st[2]), st[1]), {0} \cup (2 + 1 .. n), st0, vs0)
  <2>a. PICK I, J : I = 0 .. n /\ J = I \ {2}
    OBVIOUS
  <2>b. PICK x : x = destroy_number(g, st0[2])
    OBVIOUS
  <2>1. 2 \in I /\ Holds(g, I, st0, vs0) /\ st0[2] = st[2] /\ st0[1] = st[1] /\ 1 \in J
    BY <1>1, <2>a DEF InFront
  <2>2. Holds(x, J, st0, vs0)
    BY <2>1, <2>a, <2>b, HoldsLess
  <2>3. Holds(destroy_number(x, st0[1]), J \ {1}, st0, vs0)
    BY <2>1, <2>2, HoldsLess
  <2>4. J \ {1} = {0} \cup (2 + 1 .. n)
    BY <2>a
  <2> QED BY <2>1, <2>3, <2>4, <2>b
<1>a. PICK j, rest, others : j = 2 /\ rest = SubSeq(st, 3, n) /\ others = SubSeq(vs, 3, n)
  OBVIOUS
<1>5. j \in 0 .. n /\ IsRest(n, j, st, vs, rest, others)
  BY <1>a DEF IsRest
<1>b. PICK x : x = destroy_number(destroy_number(g, st[2]), st[1])
  OBVIOUS
<1>6. Holds(x, {0} \cup (j + 1 .. n), st0, vs0)
  BY <1>4, <1>a, <1>b
<1>7. StackIs(x, <<a>> \o rest, <<k>> \o others)
  BY <1>1, <1>3, <1>5, <1>6, Repushed
<1> QED BY <1>7, <1>a, <1>b

\* CalcState in terms of StackIs.
LEMMA CalcStateIs ==
  CalcState <=> /\ calcStatus # "return 1" => StackIs(heap, number_stack, values)
                /\ calcStatus = "abort" => values[2] < values[1]
BY DEF CalcState, StackIs

\* A stack with the numbers that its operations find.
LEMMA StackFacts ==
  ASSUME NEW h, NEW st, NEW vs, StackIs(h, st, vs)
  PROVE  /\ h \in NumberHeaps /\ st \in Seq(Nat) /\ vs \in Seq(Nat)
         /\ Len(st) \in Nat /\ Len(vs) = Len(st) /\ Holds(h, 1 .. Len(st), st, vs)
         /\ \A i \in 1 .. Len(st) : \E s : IsNumber(h, st[i], s) /\ Len(s) = vs[i]
<1>1. /\ st \in Seq(Nat) /\ vs \in Seq(Nat) /\ Len(vs) = Len(st)
      /\ Holds(h, 1 .. Len(st), st, vs)
  BY DEF StackIs
<1>a. PICK I : I = 1 .. Len(st)
  OBVIOUS
<1>2. Holds(h, I, st, vs)
  BY <1>1, <1>a
<1>3. h \in NumberHeaps
  BY <1>2 DEF Holds
<1>4. \A i \in I : \E s : IsNumber(h, st[i], s) /\ Len(s) = vs[i]
  BY <1>2, HoldsNumber
<1> QED BY <1>1, <1>3, <1>4, <1>a

\* A number typed is pushed.
LEMMA PushNumberStep ==
  ASSUME CalcState, calcStatus = "line", NEW num \in 0 .. MaxDigit, PushNumber(num)
  PROVE  CalcState'
<1>a. PICK h, st, vs, n : h = heap /\ st = number_stack /\ vs = values /\ n = Len(st)
  OBVIOUS
<1>b. PICK r : r = AddOnes(h, 0, num)
  OBVIOUS
<1>1. /\ h \in NumberHeaps /\ st \in Seq(Nat) /\ vs \in Seq(Nat)
      /\ n \in Nat /\ Len(vs) = n /\ Len(st) = n /\ Holds(h, 1 .. n, st, vs)
  <2>1. StackIs(h, st, vs)
    BY <1>a, CalcStateIs
  <2> QED BY <1>a, <2>1, StackFacts
<1>2. num \in Nat
  BY UnaryCalcAssumption
<1>3. NewNumber(h, r[1], r[2], num)
  <2>1. NewNumber(h, h, 0, 0) /\ 0 + num = num
    BY <1>1, <1>2, NewZero
  <2>2. NewNumber(h, r[1], r[2], 0 + num)
    BY <1>1, <1>2, <1>b, <2>1, NewOnes
  <2> QED BY <2>1, <2>2
<1>4. StackIs(r[1], <<r[2]>> \o st, <<num>> \o vs)
  BY <1>1, <1>3, PushKeeps
<1>5. /\ heap' = r[1] /\ number_stack' = <<r[2]>> \o st /\ values' = <<num>> \o vs
      /\ calcStatus' = calcStatus
  BY <1>a, <1>b DEF PushNumber, Push, push_stack, string_to_number, make_zero
<1>6. StackIs(heap', number_stack', values')
  BY <1>4, <1>5
<1>7. calcStatus' = "line"
  BY <1>5
<1> QED BY <1>6, <1>7 DEF CalcState, StackIs

\* When main returns 1 the state of the stack no longer matters.
LEMMA FailStep ==
  ASSUME NEW stack, Fail(stack)
  PROVE  CalcState'
BY DEF Fail, CalcState

\* The answer of a binary function is a new number, or its assertion failed as it should.
Answered(h, st, vs, answer, value) ==
  Len(st) >= 2 => IF answer = <<>> THEN vs[2] < vs[1] ELSE NewNumber(h, answer[1], answer[2], value)

\* apply_binary_function pops and frees two operands and pushes the answer.
LEMMA BinaryStep ==
  ASSUME CalcState, calcStatus = "line", NEW answer, NEW value,
         Answered(heap, number_stack, values, answer, value), apply_binary_function(answer, value)
  PROVE  CalcState'
<1>a. PICK h, st, vs, n : h = heap /\ st = number_stack /\ vs = values /\ n = Len(st)
  OBVIOUS
<1>0. StackIs(h, st, vs)
  BY <1>a, CalcStateIs
<1>1. /\ h \in NumberHeaps /\ st \in Seq(Nat) /\ vs \in Seq(Nat)
      /\ n \in Nat /\ Len(vs) = n /\ Len(st) = n /\ Holds(h, 1 .. n, st, vs)
  BY <1>0, <1>a, StackFacts
<1>2. CASE Len(number_stack) < 2 /\ Fail(<<>>)
  BY <1>2, FailStep
<1>3. CASE /\ Len(number_stack) >= 2 /\ answer = <<>> /\ calcStatus' = "abort"
           /\ UNCHANGED <<heap, number_stack, printed, values>>
  <2>1. vs[2] < vs[1]
    BY <1>3, <1>a DEF Answered
  <2>2. StackIs(heap', number_stack', values') /\ calcStatus' = "abort" /\ values' = vs
    BY <1>0, <1>3, <1>a
  <2> QED BY <2>1, <2>2 DEF CalcState, StackIs
<1>4. CASE
        /\ Len(number_stack) >= 2 /\ answer # <<>> /\ value <= MaxNumber
        /\ Push(<<destroy_number(destroy_number(answer[1], Operand1), Operand2), answer[2]>>,
                SubSeq(number_stack, 3, Len(number_stack)))
        /\ values' = <<value>> \o SubSeq(values, 3, Len(values))
        /\ UNCHANGED <<calcStatus, printed>>
  <2>1. n >= 2 /\ NewNumber(h, answer[1], answer[2], value)
    BY <1>4, <1>a DEF Answered
  <2>a. PICK g, b : g = answer[1] /\ b = answer[2]
    OBVIOUS
  <2>2. StackIs(destroy_number(destroy_number(g, st[2]), st[1]),
                <<b>> \o SubSeq(st, 3, n), <<value>> \o SubSeq(vs, 3, n))
    BY <1>1, <2>1, <2>a, BinaryKeeps
  <2>3. /\ heap' = destroy_number(destroy_number(g, st[2]), st[1])
        /\ number_stack' = <<b>> \o SubSeq(st, 3, n)
        /\ values' = <<value>> \o SubSeq(vs, 3, n) /\ calcStatus' = "line"
    BY <1>1, <1>4, <1>a, <2>a DEF Push, push_stack, Operand1, Operand2
  <2>4. StackIs(heap', number_stack', values')
    BY <2>2, <2>3
  <2> QED BY <2>3, <2>4 DEF CalcState, StackIs
<1> QED BY <1>2, <1>3, <1>4 DEF apply_binary_function

\* apply_unary_function, the same with one.
LEMMA UnaryStep ==
  ASSUME CalcState, calcStatus = "line", NEW answer, NEW value,
         Len(number_stack) >= 1 => NewNumber(heap, answer[1], answer[2], value),
         apply_unary_function(answer, value)
  PROVE  CalcState'
<1>a. PICK h, st, vs, n : h = heap /\ st = number_stack /\ vs = values /\ n = Len(st)
  OBVIOUS
<1>0. StackIs(h, st, vs)
  BY <1>a, CalcStateIs
<1>1. /\ h \in NumberHeaps /\ st \in Seq(Nat) /\ vs \in Seq(Nat)
      /\ n \in Nat /\ Len(vs) = n /\ Len(st) = n /\ Holds(h, 1 .. n, st, vs)
  BY <1>0, <1>a, StackFacts
<1>2. CASE number_stack = <<>> /\ Fail(<<>>)
  BY <1>2, FailStep
<1>3. CASE /\ number_stack # <<>>
           /\ Push(<<destroy_number(answer[1], number_stack[1]), answer[2]>>, Tail(number_stack))
           /\ values' = <<value>> \o Tail(values)
           /\ UNCHANGED <<calcStatus, printed>>
  <2>0. n >= 1
    BY <1>1, <1>3, <1>a
  <2>1. NewNumber(h, answer[1], answer[2], value)
    BY <2>0, <1>a
  <2>a. PICK g, b : g = answer[1] /\ b = answer[2]
    OBVIOUS
  <2>2. StackIs(destroy_number(g, st[1]), <<b>> \o Tail(st), <<value>> \o Tail(vs))
    BY <1>1, <2>0, <2>1, <2>a, UnaryKeeps
  <2>3. /\ heap' = destroy_number(g, st[1]) /\ number_stack' = <<b>> \o Tail(st)
        /\ values' = <<value>> \o Tail(vs) /\ calcStatus' = "line"
    BY <1>1, <1>3, <1>a, <2>a DEF Push, push_stack
  <2>4. StackIs(heap', number_stack', values')
    BY <2>2, <2>3
  <2> QED BY <2>3, <2>4 DEF CalcState, StackIs
<1> QED BY <1>2, <1>3 DEF apply_unary_function

\* At the end of the line nothing stays allocated.
LEMMA EndOfLineStep ==
  ASSUME CalcState, calcStatus = "line", EndOfLine
  PROVE  CalcState'
<1>a. PICK h, st, vs, n : h = heap /\ st = number_stack /\ vs = values /\ n = Len(st)
  OBVIOUS
<1>0. StackIs(h, st, vs)
  BY <1>a, CalcStateIs
<1>1. /\ h \in NumberHeaps /\ st \in Seq(Nat) /\ vs \in Seq(Nat)
      /\ n \in Nat /\ Len(vs) = n /\ Len(st) = n /\ Holds(h, 1 .. n, st, vs)
  BY <1>0, <1>a, StackFacts
<1>2. CASE number_stack = <<>> /\ Fail(<<>>)
  BY <1>2, FailStep
<1>3. CASE /\ number_stack # <<>>
           /\ heap' = clear_stack(destroy_number(heap, number_stack[1]), Tail(number_stack))
           /\ number_stack' = <<>> /\ values' = <<>> /\ UNCHANGED calcStatus
  <2>0. n >= 1
    BY <1>1, <1>3, <1>a
  <2>a. PICK g, I, J : g = destroy_number(h, st[1]) /\ I = 1 .. n /\ J = I \ {1}
    OBVIOUS
  <2>b. PICK s, w, m : s = Tail(st) /\ w = Tail(vs) /\ m = n - 1
    OBVIOUS
  <2>1. Holds(g, J, st, vs)
    <3>1. Holds(h, I, st, vs) /\ 1 \in I
      BY <1>1, <2>0, <2>a
    <3> QED BY <3>1, <2>a, HoldsLess
  <2>2. m \in Nat /\ Len(s) = m /\ \A i \in 1 .. m : s[i] = st[i + 1] /\ w[i] = vs[i + 1]
    <3>1. st # <<>> /\ vs # <<>>
      BY <1>1, <2>0
    <3> QED BY <1>1, <2>0, <2>b, <3>1
  <2>c. PICK p, K : p = [i \in 1 .. m |-> i + 1] /\ K = 1 .. m
    OBVIOUS
  <2>3. Holds(g, K, s, w)
    <3>1. \A i \in K : p[i] \in J /\ s[i] = st[p[i]] /\ w[i] = vs[p[i]]
      BY <1>1, <2>2, <2>a, <2>b, <2>c
    <3>2. \A i, j \in K : i # j => p[i] # p[j]
      BY <2>2, <2>c
    <3>3. ASSUME NEW i \in J PROVE \E j \in K : p[j] = i
      <4>1. i - 1 \in K /\ p[i - 1] = i
        BY <1>1, <2>a, <2>b, <2>c
      <4> QED BY <4>1
    <3> QED BY <2>1, <3>1, <3>2, <3>3, HoldsMap
  <2>4. Holds(clear_stack(g, s), {}, s, w)
    BY <2>2, <2>3, <2>c, Cleared
  <2>5. heap' = clear_stack(g, s)
    BY <1>3, <1>a, <2>a, <2>b
  <2>6. /\ number_stack' = <<>> /\ values' = <<>> /\ calcStatus' = "line"
        /\ number_stack' \in Seq(Nat) /\ values' \in Seq(Nat)
        /\ Len(number_stack') = 0 /\ Len(values') = 0 /\ 1 .. Len(number_stack') = {}
    BY <1>3
  <2>7. Holds(heap', {}, number_stack', values')
    <3>1. \E ss : HeldBy(clear_stack(g, s), {}, s, w, ss)
      BY <2>4 DEF Holds
    <3>2. \E ss : HeldBy(heap', {}, number_stack', values', ss)
      BY <2>5, <3>1 DEF HeldBy
    <3>3. heap' \in NumberHeaps
      BY <2>4, <2>5 DEF Holds
    <3> QED BY <3>2, <3>3 DEF Holds
  <2>8. StackIs(heap', number_stack', values')
    BY <2>6, <2>7 DEF StackIs
  <2> QED BY <2>6, <2>8 DEF CalcState, StackIs
<1> QED BY <1>2, <1>3 DEF EndOfLine

\* The answers of the functions on the two operands.
LEMMA AddAnswers ==
  ASSUME NEW h, NEW st, NEW vs, StackIs(h, st, vs)
  PROVE  Answered(h, st, vs, add(h, st[2], st[1]), vs[2] + vs[1])
<1> SUFFICES ASSUME Len(st) >= 2
             PROVE  /\ add(h, st[2], st[1]) # <<>>
                    /\ NewNumber(h, add(h, st[2], st[1])[1], add(h, st[2], st[1])[2], vs[2] + vs[1])
  BY DEF Answered
<1>1. /\ h \in NumberHeaps /\ 1 \in 1 .. Len(st) /\ 2 \in 1 .. Len(st)
      /\ \A i \in 1 .. Len(st) : \E s : IsNumber(h, st[i], s) /\ Len(s) = vs[i]
  BY StackFacts
<1>2. PICK s1 : IsNumber(h, st[2], s1) /\ Len(s1) = vs[2]
  BY <1>1
<1>3. PICK s2 : IsNumber(h, st[1], s2) /\ Len(s2) = vs[1]
  BY <1>1
<1>4. /\ NewNumber(h, add(h, st[2], st[1])[1], add(h, st[2], st[1])[2], Len(s1) + Len(s2))
      /\ add(h, st[2], st[1]) \in News(h)
  BY <1>1, <1>2, <1>3, AddIsNew
<1>5. add(h, st[2], st[1]) # <<>>
  BY <1>4 DEF News
<1> QED BY <1>2, <1>3, <1>4, <1>5

\* product multiplies.
LEMMA ProductAnswers ==
  ASSUME NEW h, NEW st, NEW vs, StackIs(h, st, vs)
  PROVE  Answered(h, st, vs, product(h, st[2], st[1]), vs[2] * vs[1])
<1> SUFFICES ASSUME Len(st) >= 2
             PROVE  /\ product(h, st[2], st[1]) # <<>>
                    /\ NewNumber(h, product(h, st[2], st[1])[1], product(h, st[2], st[1])[2],
                           vs[2] * vs[1])
  BY DEF Answered
<1>1. /\ h \in NumberHeaps /\ 1 \in 1 .. Len(st) /\ 2 \in 1 .. Len(st)
      /\ \A i \in 1 .. Len(st) : \E s : IsNumber(h, st[i], s) /\ Len(s) = vs[i]
  BY StackFacts
<1>2. PICK s1 : IsNumber(h, st[2], s1) /\ Len(s1) = vs[2]
  BY <1>1
<1>3. PICK s2 : IsNumber(h, st[1], s2) /\ Len(s2) = vs[1]
  BY <1>1
<1>4. /\ NewNumber(h, product(h, st[2], st[1])[1], product(h, st[2], st[1])[2], Len(s1) * Len(s2))
      /\ product(h, st[2], st[1]) \in News(h)
  BY <1>1, <1>2, <1>3, ProductIsNew
<1>5. product(h, st[2], st[1]) # <<>>
  BY <1>4 DEF News
<1> QED BY <1>2, <1>3, <1>4, <1>5

\* subtract subtracts, or its assertion fails.
LEMMA SubtractAnswers ==
  ASSUME NEW h, NEW st, NEW vs, StackIs(h, st, vs)
  PROVE  Answered(h, st, vs, subtract(h, st[2], st[1]), vs[2] - vs[1])
<1>a. PICK r : r = subtract(h, st[2], st[1])
  OBVIOUS
<1> SUFFICES ASSUME Len(st) >= 2
             PROVE  IF r = <<>> THEN vs[2] < vs[1] ELSE NewNumber(h, r[1], r[2], vs[2] - vs[1])
  BY <1>a DEF Answered
<1>1. /\ h \in NumberHeaps /\ 1 \in 1 .. Len(st) /\ 2 \in 1 .. Len(st)
      /\ \A i \in 1 .. Len(st) : \E s : IsNumber(h, st[i], s) /\ Len(s) = vs[i]
  BY StackFacts
<1>2. PICK s1 : IsNumber(h, st[2], s1) /\ Len(s1) = vs[2]
  BY <1>1
<1>3. PICK s2 : IsNumber(h, st[1], s2) /\ Len(s2) = vs[1]
  BY <1>1
<1>4. Len(s1) \in Nat /\ Len(s2) \in Nat
  BY <1>1, <1>2, <1>3, NumberFacts
<1>5. /\ Len(s2) > Len(s1) => r = <<>>
      /\ Len(s2) <= Len(s1) => NewNumber(h, r[1], r[2], Len(s1) - Len(s2)) /\ r \in News(h)
  BY <1>1, <1>2, <1>3, <1>a, SubtractIsNew
<1>6. CASE Len(s2) > Len(s1)
  BY <1>2, <1>3, <1>4, <1>5, <1>6
<1>7. CASE Len(s2) <= Len(s1)
  <2>1. r # <<>>
    BY <1>5, <1>7 DEF News
  <2> QED BY <1>2, <1>3, <1>5, <1>7, <2>1
<1> QED BY <1>4, <1>6, <1>7

\* The answers of even and odd on the top of the stack.
LEMMA ParityAnswers ==
  ASSUME NEW h, NEW st, NEW vs, StackIs(h, st, vs), Len(st) >= 1
  PROVE  /\ NewNumber(h, even(h, st[1])[1], even(h, st[1])[2], 1 - (vs[1] % 2))
         /\ NewNumber(h, odd(h, st[1])[1], odd(h, st[1])[2], vs[1] % 2)
<1>1. /\ h \in NumberHeaps /\ 1 \in 1 .. Len(st)
      /\ \A i \in 1 .. Len(st) : \E s : IsNumber(h, st[i], s) /\ Len(s) = vs[i]
  BY StackFacts
<1>2. PICK s : IsNumber(h, st[1], s) /\ Len(s) = vs[1]
  BY <1>1
<1>3. /\ NewNumber(h, even(h, st[1])[1], even(h, st[1])[2], 1 - (Len(s) % 2))
      /\ NewNumber(h, odd(h, st[1])[1], odd(h, st[1])[2], Len(s) % 2)
  BY <1>1, <1>2, EvenIsNew
<1> QED BY <1>2, <1>3

\* Every step of the calculator keeps CalcState.
LEMMA CalcStep ==
  ASSUME CalcState, UnaryCalcNext
  PROVE  CalcState'
<1>a. PICK h, st, vs : h = heap /\ st = number_stack /\ vs = values
  OBVIOUS
<1>1. calcStatus = "line" /\ StackIs(h, st, vs)
  BY <1>a, CalcStateIs DEF UnaryCalcNext
<1>2. CASE \E num \in 0 .. MaxDigit : PushNumber(num)
  BY <1>1, <1>2, PushNumberStep
<1>3. CASE apply_binary_function(add(heap, Operand1, Operand2), values[2] + values[1])
  <2>a. PICK answer, value : answer = add(h, st[2], st[1]) /\ value = vs[2] + vs[1]
    OBVIOUS
  <2>1. Answered(heap, number_stack, values, answer, value)
    BY <1>1, <1>a, <2>a, AddAnswers
  <2>2. apply_binary_function(answer, value)
    BY <1>3, <1>a, <2>a DEF Operand1, Operand2
  <2> QED BY <1>1, <2>1, <2>2, BinaryStep
<1>4. CASE apply_binary_function(subtract(heap, Operand1, Operand2), values[2] - values[1])
  <2>a. PICK answer, value : answer = subtract(h, st[2], st[1]) /\ value = vs[2] - vs[1]
    OBVIOUS
  <2>1. Answered(heap, number_stack, values, answer, value)
    BY <1>1, <1>a, <2>a, SubtractAnswers
  <2>2. apply_binary_function(answer, value)
    BY <1>4, <1>a, <2>a DEF Operand1, Operand2
  <2> QED BY <1>1, <2>1, <2>2, BinaryStep
<1>5. CASE apply_binary_function(product(heap, Operand1, Operand2), values[2] * values[1])
  <2>a. PICK answer, value : answer = product(h, st[2], st[1]) /\ value = vs[2] * vs[1]
    OBVIOUS
  <2>1. Answered(heap, number_stack, values, answer, value)
    BY <1>1, <1>a, <2>a, ProductAnswers
  <2>2. apply_binary_function(answer, value)
    BY <1>5, <1>a, <2>a DEF Operand1, Operand2
  <2> QED BY <1>1, <2>1, <2>2, BinaryStep
<1>6. CASE apply_unary_function(even(heap, number_stack[1]), 1 - (values[1] % 2))
  <2>a. PICK answer, value : answer = even(h, st[1]) /\ value = 1 - (vs[1] % 2)
    OBVIOUS
  <2>1. Len(number_stack) >= 1 => NewNumber(heap, answer[1], answer[2], value)
    BY <1>1, <1>a, <2>a, ParityAnswers
  <2>2. apply_unary_function(answer, value)
    BY <1>6, <1>a, <2>a
  <2> QED BY <1>1, <2>1, <2>2, UnaryStep
<1>7. CASE apply_unary_function(odd(heap, number_stack[1]), values[1] % 2)
  <2>a. PICK answer, value : answer = odd(h, st[1]) /\ value = vs[1] % 2
    OBVIOUS
  <2>1. Len(number_stack) >= 1 => NewNumber(heap, answer[1], answer[2], value)
    BY <1>1, <1>a, <2>a, ParityAnswers
  <2>2. apply_unary_function(answer, value)
    BY <1>7, <1>a, <2>a
  <2> QED BY <1>1, <2>1, <2>2, UnaryStep
<1>8. CASE EndOfLine
  BY <1>1, <1>8, EndOfLineStep
<1>9. CASE EndOfFile
  <2>1. heap' = h /\ number_stack' = st /\ values' = vs /\ calcStatus' = "return 0"
    BY <1>9, <1>a DEF EndOfFile
  <2>2. StackIs(heap', number_stack', values')
    BY <1>1, <2>1
  <2> QED BY <2>1, <2>2 DEF CalcState, StackIs
<1> QED BY <1>2, <1>3, <1>4, <1>5, <1>6, <1>7, <1>8, <1>9 DEF UnaryCalcNext

\* So does a stutter.
LEMMA CalcStays ==
  ASSUME CalcState, UNCHANGED unaryVars
  PROVE  CalcState'
BY DEF CalcState, unaryVars

\* The calculator computes what calculator.c says of its operators, and frees every cell that
\* no number on the stack owns, once each: for every line, however long, and every number.
THEOREM CalculatorIsCorrect == UnaryCalcSpec => []CalculatorInv
<1>1. UnaryCalcInit => CalcState
  BY CalcStarts
<1>2. CalcState /\ [UnaryCalcNext]_unaryVars => CalcState'
  BY CalcStep, CalcStays
<1>3. CalcState => CalculatorInv
  BY CalcCorrect
<1> QED BY <1>1, <1>2, <1>3, PTL DEF UnaryCalcSpec

-----------------------------------------------------------------------------
(* Indices modulo the size of an array.                                    *)

\* Division with remainder.
LEMMA DivMod ==
  ASSUME NEW n \in Nat \ {0}, NEW a \in Nat
  PROVE  a % n \in 0 .. n - 1 /\ a \div n \in Nat /\ a = n * (a \div n) + (a % n)
OBVIOUS

\* Below twice the size, the remainder is found by one subtraction at most.
LEMMA ModOnce ==
  ASSUME NEW n \in Nat \ {0}, NEW a \in Nat, a < 2 * n
  PROVE  a % n = IF a < n THEN a ELSE a - n
<1>1. CASE a < n
  BY <1>1
<1>2. CASE a >= n
  BY <1>2
<1> QED BY <1>1, <1>2

\* The quotient and the remainder are the only ones.
LEMMA ModOf ==
  ASSUME NEW n \in Nat \ {0}, NEW q \in Nat, NEW r \in 0 .. n - 1
  PROVE  (n * q + r) % n = r /\ (n * q + r) \div n = q
OBVIOUS

\* Multiplication distributes over addition.
LEMMA Distributes ==
  ASSUME NEW n \in Nat, NEW q \in Nat, NEW p \in Nat
  PROVE  n * (q + p) = n * q + n * p /\ n * q \in Nat /\ n * p \in Nat
OBVIOUS

\* The remainder may be taken before an addition.
LEMMA ModAdd ==
  ASSUME NEW n \in Nat \ {0}, NEW a \in Nat, NEW b \in Nat
  PROVE  ((a % n) + b) % n = (a + b) % n
<1> DEFINE q == a \div n
           r == a % n
           p == (r + b) \div n
           s == (r + b) % n
<1>1. q \in Nat /\ r \in 0 .. n - 1 /\ a = n * q + r
  BY DivMod
<1>2. r + b \in Nat
  BY <1>1
<1>3. p \in Nat /\ s \in 0 .. n - 1 /\ r + b = n * p + s
  BY <1>2, DivMod
<1> HIDE DEF q, r, p, s
<1>4. a + b = n * (q + p) + s
  <2>1. n * (q + p) = n * q + n * p /\ n * q \in Nat /\ n * p \in Nat
    BY <1>1, <1>3, Distributes
  <2> QED BY <1>1, <1>3, <2>1
<1>5. (a + b) % n = s
  <2>1. q + p \in Nat
    BY <1>1, <1>3
  <2>2. (n * (q + p) + s) % n = s
    BY <1>3, <2>1, ModOf
  <2> QED BY <1>4, <2>2
<1> QED BY <1>5 DEF r, s

\* Indices less than the size apart are different.
LEMMA ModApart ==
  ASSUME NEW n \in Nat \ {0}, NEW a \in 0 .. n - 1, NEW i \in 0 .. n - 1, NEW j \in 0 .. n - 1,
         (a + i) % n = (a + j) % n
  PROVE  i = j
<1>1. \A k \in 0 .. n - 1 : (a + k) % n = IF a + k < n THEN a + k ELSE a + k - n
  <2> SUFFICES ASSUME NEW k \in 0 .. n - 1
               PROVE  (a + k) % n = IF a + k < n THEN a + k ELSE a + k - n
    OBVIOUS
  <2> DEFINE c == a + k
  <2>1. c \in Nat /\ c < 2 * n
    OBVIOUS
  <2> HIDE DEF c
  <2>2. c % n = IF c < n THEN c ELSE c - n
    BY <2>1, ModOnce
  <2> QED BY <2>2 DEF c
<1> QED BY <1>1

\* The items of a sequence from the m-th to the k-th.
LEMMA Slice ==
  ASSUME NEW S, NEW x \in Seq(S), NEW m \in Nat \ {0}, NEW k \in Nat, m <= k + 1, k <= Len(x)
  PROVE  /\ SubSeq(x, m, k) \in Seq(S) /\ Len(SubSeq(x, m, k)) = k + 1 - m
         /\ \A i \in 1 .. k + 1 - m : SubSeq(x, m, k)[i] = x[m + i - 1]
<1>1. m \in Int /\ k \in Int /\ k - m + 1 = k + 1 - m
  OBVIOUS
<1>2. \A i \in m .. k : x[i] \in S
  <2>1. Len(x) \in Nat /\ m .. k \subseteq 1 .. Len(x)
    OBVIOUS
  <2> QED BY <2>1
<1> DEFINE z == SubSeq(x, m, k)
<1>3. /\ z \in Seq(S) /\ Len(z) = IF m <= k THEN k - m + 1 ELSE 0
      /\ \A i \in 1 .. k - m + 1 : z[i] = x[m + i - 1]
  BY <1>1, <1>2, SubSeqProperties
<1> HIDE DEF z
<1> QED BY <1>1, <1>3 DEF z

-----------------------------------------------------------------------------
(* ring3 is a queue.                                                       *)

USE SmallRingsAssumption

Ring3Record ==
  [buffer : [0 .. capacity - 1 -> Things \cup {"none"}],
   head : 0 .. capacity - 1, tail : 0 .. capacity - 1, count : 0 .. capacity]

IsRing3(b) == b \in Ring3Record /\ b.head = (b.tail + b.count) % capacity

\* The place of the i-th oldest item of b, and all of them in order.
Place3(b, i) == (b.tail + (i - 1)) % capacity

Queued3(b) == [i \in 1 .. b.count |-> b.buffer[Place3(b, i)]]

\* These are what the invariant and the refinement speak of.
LEMMA Ring3Forms ==
  /\ Ring3Inv <=> IsRing3(ring3)
  /\ Ring3Inv' <=> IsRing3(ring3')
  /\ IsRing3(ring3) => Content3 = Queued3(ring3)
  /\ IsRing3(ring3') => Content3' = Queued3(ring3')
BY DEF Queued3, Place3, Ring3Inv, IsRing3, Ring3Record, Content3

\* Forward steps to the next place.
LEMMA ForwardMod ==
  ASSUME NEW h \in 0 .. capacity - 1
  PROVE  Forward(h) = (h + 1) % capacity /\ Forward(h) \in 0 .. capacity - 1
<1>1. (h + 1 \in Nat /\ h + 1 < 2 * capacity) \/ h + 1 = capacity
  OBVIOUS
<1>2. CASE h + 1 = capacity
  <2>1. capacity \in Nat /\ capacity < 2 * capacity
    OBVIOUS
  <2>2. capacity % capacity = 0
    BY <2>1, ModOnce
  <2> QED BY <1>2, <2>2 DEF Forward
<1>3. CASE h + 1 < capacity
  <2>1. (h + 1) % capacity = h + 1
    BY <1>3
  <2> QED BY <1>3, <2>1 DEF Forward
<1> QED BY <1>2, <1>3

\* The places are in the buffer and apart.
LEMMA Places3 ==
  ASSUME NEW b, IsRing3(b)
  PROVE  /\ \A i \in 1 .. capacity : Place3(b, i) \in 0 .. capacity - 1
         /\ \A i, j \in 1 .. capacity : Place3(b, i) = Place3(b, j) => i = j
         /\ b.head = Place3(b, b.count + 1)
         /\ b.tail = Place3(b, 1)
<1>1. /\ b.tail \in 0 .. capacity - 1 /\ b.count \in 0 .. capacity
      /\ b.head = (b.tail + b.count) % capacity
  BY DEF IsRing3, Ring3Record
<1>2. ASSUME NEW i \in 1 .. capacity
      PROVE  Place3(b, i) \in 0 .. capacity - 1
  <2>1. b.tail + (i - 1) \in Nat
    BY <1>1
  <2> QED BY <2>1, DivMod DEF Place3
<1>3. ASSUME NEW i \in 1 .. capacity, NEW j \in 1 .. capacity, Place3(b, i) = Place3(b, j)
      PROVE  i = j
  <2>1. i - 1 \in 0 .. capacity - 1 /\ j - 1 \in 0 .. capacity - 1
    OBVIOUS
  <2>2. i - 1 = j - 1
    BY <1>1, <1>3, <2>1, ModApart DEF Place3
  <2> QED BY <2>2
<1>4. b.count = (b.count + 1) - 1 /\ b.tail = b.tail + (1 - 1) /\ b.tail % capacity = b.tail
  BY <1>1
<1> QED BY <1>1, <1>2, <1>3, <1>4 DEF Place3

\* The content as a sequence.
LEMMA Queued3Facts ==
  ASSUME NEW b, IsRing3(b)
  PROVE  /\ Queued3(b) \in Seq(Things \cup {"none"}) /\ Len(Queued3(b)) = b.count
         /\ \A i \in 1 .. b.count : Queued3(b)[i] = b.buffer[Place3(b, i)]
<1>1. b.count \in 0 .. capacity /\ b.buffer \in [0 .. capacity - 1 -> Things \cup {"none"}]
  BY DEF IsRing3, Ring3Record
<1>2. \A i \in 1 .. b.count : i \in 1 .. capacity
  BY <1>1
<1>3. \A i \in 1 .. b.count : b.buffer[Place3(b, i)] \in Things \cup {"none"}
  BY <1>1, <1>2, Places3
<1> QED BY <1>1, <1>3 DEF Queued3

\* ring_push_head with room for the item.
LEMMA Push3 ==
  ASSUME NEW b, IsRing3(b), NEW x \in Things, b.count # capacity, NEW d,
         d = [b EXCEPT !.buffer[b.head] = x, !.head = Forward(@), !.count = @ + 1]
  PROVE  IsRing3(d) /\ Queued3(d) = Append(Queued3(b), x)
<1>0. /\ b \in Ring3Record /\ b.head = (b.tail + b.count) % capacity
      /\ b.buffer \in [0 .. capacity - 1 -> Things \cup {"none"}]
      /\ b.head \in 0 .. capacity - 1 /\ b.tail \in 0 .. capacity - 1 /\ b.count \in 0 .. capacity
  BY DEF IsRing3, Ring3Record
<1>1. /\ d.buffer = [b.buffer EXCEPT ![b.head] = x] /\ d.tail = b.tail
      /\ d.head = Forward(b.head) /\ d.count = b.count + 1
      /\ d = [buffer |-> d.buffer, head |-> d.head, tail |-> d.tail, count |-> d.count]
  BY <1>0 DEF Ring3Record
<1>2. Forward(b.head) \in 0 .. capacity - 1 /\ Forward(b.head) = (b.head + 1) % capacity
  BY <1>0, ForwardMod
<1>3. d.head = (d.tail + d.count) % capacity
  <2>1. b.tail \in Nat /\ b.count \in Nat
    BY <1>0
  <2>2. b.tail + b.count \in Nat /\ b.tail + b.count + 1 = b.tail + (b.count + 1)
    BY <2>1
  <2>3. (((b.tail + b.count) % capacity) + 1) % capacity = (b.tail + b.count + 1) % capacity
    BY <2>2, ModAdd
  <2> QED BY <1>0, <1>1, <1>2, <2>2, <2>3
<1>4. d.buffer \in [0 .. capacity - 1 -> Things \cup {"none"}] /\ d.count \in 0 .. capacity
  BY <1>0, <1>1
<1>5. IsRing3(d)
  BY <1>0, <1>1, <1>2, <1>3, <1>4 DEF IsRing3, Ring3Record
<1> DEFINE t == Append(Queued3(b), x)
<1>6. /\ Queued3(d) \in Seq(Things \cup {"none"}) /\ Len(Queued3(d)) = b.count + 1
      /\ \A i \in 1 .. b.count + 1 : Queued3(d)[i] = d.buffer[Place3(b, i)]
  <2>1. \A i : Place3(d, i) = Place3(b, i)
    BY <1>1 DEF Place3
  <2>2. /\ Queued3(d) \in Seq(Things \cup {"none"}) /\ Len(Queued3(d)) = d.count
        /\ \A i \in 1 .. d.count : Queued3(d)[i] = d.buffer[Place3(d, i)]
    BY <1>5, Queued3Facts
  <2> QED BY <1>1, <2>1, <2>2
<1>7. /\ t \in Seq(Things \cup {"none"}) /\ Len(t) = b.count + 1 /\ t[b.count + 1] = x
      /\ \A i \in 1 .. b.count : t[i] = b.buffer[Place3(b, i)]
  BY <1>0, Queued3Facts
<1> HIDE DEF t
<1>8. ASSUME NEW i \in 1 .. b.count + 1
      PROVE  Queued3(d)[i] = t[i]
  <2>1. CASE i = b.count + 1
    <3>1. d.buffer[b.head] = x
      BY <1>0, <1>1
    <3> QED BY <1>6, <1>7, <2>1, <3>1, Places3
  <2>2. CASE i \in 1 .. b.count
    <3>1. i # b.count + 1 /\ i \in 1 .. capacity /\ b.count + 1 \in 1 .. capacity
      BY <1>0, <2>2
    <3>2. Place3(b, i) # b.head /\ Place3(b, i) \in 0 .. capacity - 1
      BY <3>1, Places3
    <3>3. d.buffer[Place3(b, i)] = b.buffer[Place3(b, i)]
      BY <1>0, <1>1, <3>2
    <3> QED BY <1>6, <1>7, <2>2, <3>3
  <2> QED BY <1>0, <2>1, <2>2
<1>9. Queued3(d) = t
  BY <1>6, <1>7, <1>8, SeqEqual
<1> QED BY <1>5, <1>9 DEF t

\* ring_pop_tail with an item to take.
LEMMA Pop3 ==
  ASSUME NEW b, IsRing3(b), b.count # 0, NEW d,
         d = [b EXCEPT !.tail = Forward(@), !.count = @ - 1]
  PROVE  /\ IsRing3(d) /\ Queued3(b) # <<>>
         /\ Queued3(d) = Tail(Queued3(b)) /\ Head(Queued3(b)) = b.buffer[b.tail]
<1>0. /\ b \in Ring3Record /\ b.head = (b.tail + b.count) % capacity
      /\ b.buffer \in [0 .. capacity - 1 -> Things \cup {"none"}]
      /\ b.head \in 0 .. capacity - 1 /\ b.tail \in 0 .. capacity - 1 /\ b.count \in 1 .. capacity
  BY DEF IsRing3, Ring3Record
<1>1. /\ d.buffer = b.buffer /\ d.tail = Forward(b.tail)
      /\ d.head = b.head /\ d.count = b.count - 1
      /\ d = [buffer |-> d.buffer, head |-> d.head, tail |-> d.tail, count |-> d.count]
  BY <1>0 DEF Ring3Record
<1>2. Forward(b.tail) \in 0 .. capacity - 1 /\ Forward(b.tail) = (b.tail + 1) % capacity
  BY <1>0, ForwardMod
<1>3. ASSUME NEW k \in Nat
      PROVE  (d.tail + k) % capacity = (b.tail + (1 + k)) % capacity
  <2>1. b.tail + 1 \in Nat /\ b.tail + 1 + k = b.tail + (1 + k)
    BY <1>0
  <2>2. (((b.tail + 1) % capacity) + k) % capacity = (b.tail + 1 + k) % capacity
    BY <2>1, ModAdd
  <2> QED BY <1>1, <1>2, <2>1, <2>2
<1>4. d.head = (d.tail + d.count) % capacity
  <2>1. b.count - 1 \in Nat /\ 1 + (b.count - 1) = b.count
    BY <1>0
  <2> QED BY <1>0, <1>1, <1>3, <2>1
<1>5. d.count \in 0 .. capacity
  BY <1>0, <1>1
<1>6. IsRing3(d)
  BY <1>0, <1>1, <1>2, <1>4, <1>5 DEF IsRing3, Ring3Record
<1>7. \A i \in 1 .. b.count - 1 : Place3(d, i) = Place3(b, i + 1)
  <2> SUFFICES ASSUME NEW i \in 1 .. b.count - 1 PROVE Place3(d, i) = Place3(b, i + 1)
    OBVIOUS
  <2>1. i - 1 \in Nat /\ 1 + (i - 1) = (i + 1) - 1
    BY <1>0
  <2> QED BY <1>3, <2>1 DEF Place3
<1>8. /\ Queued3(d) \in Seq(Things \cup {"none"}) /\ Len(Queued3(d)) = b.count - 1
      /\ \A i \in 1 .. b.count - 1 : Queued3(d)[i] = b.buffer[Place3(b, i + 1)]
  BY <1>1, <1>6, <1>7, Queued3Facts
<1>9. /\ Queued3(b) \in Seq(Things \cup {"none"}) /\ Len(Queued3(b)) = b.count
      /\ \A i \in 1 .. b.count : Queued3(b)[i] = b.buffer[Place3(b, i)]
  BY Queued3Facts
<1>10. Queued3(b) # <<>> /\ Head(Queued3(b)) = b.buffer[b.tail]
  <2>1. Queued3(b) # <<>> /\ 1 \in 1 .. b.count
    BY <1>0, <1>9
  <2>2. Head(Queued3(b)) = Queued3(b)[1]
    BY <1>9, <2>1
  <2> QED BY <1>9, <2>1, <2>2, Places3
<1> DEFINE t == Tail(Queued3(b))
<1>11. /\ t \in Seq(Things \cup {"none"}) /\ Len(t) = b.count - 1
       /\ \A i \in 1 .. b.count - 1 : t[i] = Queued3(b)[i + 1]
  BY <1>9, <1>10, HeadTailProperties
<1> HIDE DEF t
<1>12. ASSUME NEW i \in 1 .. b.count - 1
       PROVE  Queued3(d)[i] = t[i]
  <2>1. i + 1 \in 1 .. b.count
    BY <1>0
  <2> QED BY <1>8, <1>9, <1>11, <2>1
<1>13. Queued3(d) = t
  BY <1>8, <1>11, <1>12, SeqEqual
<1> QED BY <1>6, <1>10, <1>13 DEF t


\* Both calls are steps of the queue.
LEMMA Ring3Step ==
  ASSUME Ring3Inv, Ring3Next
  PROVE  Ring3Inv' /\ Queue3!QueueNext
<1>0. IsRing3(ring3) /\ Content3 = Queued3(ring3)
  BY Ring3Forms
<1>1. ASSUME NEW x \in Things, ring3.count # capacity, answer3' = "put",
             ring3' = [ring3 EXCEPT !.buffer[ring3.head] = x, !.head = Forward(@),
                                    !.count = @ + 1]
      PROVE  Ring3Inv' /\ Queue3!Put(x)
  <2>1. IsRing3(ring3') /\ Queued3(ring3') = Append(Queued3(ring3), x)
    BY <1>0, <1>1, Push3
  <2>2. Ring3Inv' /\ Content3' = Append(Content3, x)
    BY <1>0, <2>1, Ring3Forms
  <2>3. Len(Content3) < capacity
    <3>1. Len(Content3) = ring3.count /\ ring3.count \in 0 .. capacity
      BY <1>0, Queued3Facts DEF IsRing3, Ring3Record
    <3> QED BY <1>1, <3>1
  <2> QED BY <1>1, <2>2, <2>3 DEF Queue3!Put
<1>2. ASSUME ring3.count # 0, answer3' = ring3.buffer[ring3.tail],
             ring3' = [ring3 EXCEPT !.tail = Forward(@), !.count = @ - 1]
      PROVE  Ring3Inv' /\ Queue3!Get
  <2>1. /\ IsRing3(ring3') /\ Queued3(ring3) # <<>>
        /\ Queued3(ring3') = Tail(Queued3(ring3))
        /\ Head(Queued3(ring3)) = ring3.buffer[ring3.tail]
    BY <1>0, <1>2, Pop3
  <2>2. Ring3Inv' /\ Content3' = Tail(Content3)
    BY <1>0, <2>1, Ring3Forms
  <2> QED BY <1>0, <1>2, <2>1, <2>2 DEF Queue3!Get
<1>3. ASSUME ring3.count \in {0, capacity}, answer3' = "refused", UNCHANGED ring3
      PROVE  Ring3Inv' /\ Queue3!Refuse
  <2>1. Ring3Inv' /\ Content3' = Content3
    BY <1>0, <1>3, Ring3Forms
  <2>2. Len(Content3) = ring3.count
    BY <1>0, Queued3Facts
  <2> QED BY <1>3, <2>1, <2>2 DEF Queue3!Refuse
<1> QED BY <1>1, <1>2, <1>3 DEF Ring3Next, ring_push_head, ring_pop_tail, Queue3!QueueNext

\* ring_push_head and ring_pop_tail (ring3) are a first-in first-out queue of
\* capacity items, for every capacity: a full and an empty ring, where head and
\* tail are equal, are told apart by count.
THEOREM Ring3ImplementsQueue == SmallRingsSpec => Ring3IsQueue
<1>1. SmallRingsInit => Ring3Inv /\ Queue3!QueueInit
  <2> SUFFICES ASSUME SmallRingsInit PROVE Ring3Inv /\ Queue3!QueueInit
    OBVIOUS
  <2>1. ring3 = ring_init /\ answer3 = "none"
    BY DEF SmallRingsInit
  <2>2. 0 \in 0 .. capacity - 1 /\ 0 \in 0 .. capacity /\ 0 + 0 = 0 /\ 0 % capacity = 0
    OBVIOUS
  <2>3. Ring3Inv
    BY <2>1, <2>2 DEF ring_init, Ring3Inv
  <2>4. Content3 = <<>>
    <3>1. Content3 = Queued3(ring3) /\ IsRing3(ring3)
      BY <2>3, Ring3Forms
    <3>2. Content3 \in Seq(Things \cup {"none"}) /\ Len(Content3) = 0
      BY <2>1, <3>1, Queued3Facts DEF ring_init
    <3> QED BY <3>2, EmptySeq
  <2> QED BY <2>1, <2>3, <2>4 DEF Queue3!QueueInit
<1>2. Ring3Inv /\ [Ring3Next \/ Ring1Next]_smallRingVars
        => Ring3Inv' /\ [Queue3!QueueNext]_<<Content3, answer3>>
  <2> SUFFICES ASSUME Ring3Inv, [Ring3Next \/ Ring1Next]_smallRingVars
               PROVE  Ring3Inv' /\ [Queue3!QueueNext]_<<Content3, answer3>>
    OBVIOUS
  <2>1. CASE Ring3Next
    BY <2>1, Ring3Step
  <2>2. CASE UNCHANGED <<ring3, answer3>>
    <3>1. Content3' = Content3
      BY <2>2 DEF Content3
    <3> QED BY <2>2, <3>1 DEF Ring3Inv
  <2> QED BY <2>1, <2>2 DEF Ring1Next, smallRingVars
<1> QED BY <1>1, <1>2, PTL DEF SmallRingsSpec, Ring3IsQueue, Queue3!QueueSpec


-----------------------------------------------------------------------------
(* ring1 keeps what was appended and not popped.                           *)

Ring1Record ==
  [slots : [0 .. RING_SLOTS - 1 -> Slot], head : 0 .. RING_SLOTS - 1,
   tail : 0 .. RING_SLOTS - 1, used : 0 .. RING_SLOTS]

\* The i-th oldest appended slot of b, and what is unread in a slot.
Place1(b, i) == (b.head + (i - 1)) % RING_SLOTS
Unread(s) == SubSeq(s.data, s.ptr + 1, s.ptr + s.left)

\* The slot shows t to its end.
Shows(s, t) == s.ptr + s.left = Len(s.data) /\ Unread(s) = t

IsRing1(b, bl) ==
  /\ b \in Ring1Record /\ b.tail = (b.head + b.used) % RING_SLOTS
  /\ bl \in Seq(Seq(Things)) /\ b.used = Len(bl)
  /\ \A i \in 1 .. b.used : Shows(b.slots[Place1(b, i)], bl[i])

\* This is what the invariant says.
LEMMA Ring1Forms ==
  /\ Ring1Inv <=> IsRing1(ring1, block)
  /\ Ring1Inv' <=> IsRing1(ring1', block')
<1>1. Ring1Inv <=> IsRing1(ring1, block)
  BY DEF Ring1Inv, Ring1KeepsUnread, IsRing1, Ring1Record, Shows, Unread, Place1
<1>2. Ring1Inv' <=> IsRing1(ring1', block')
  BY DEF Ring1Inv, Ring1KeepsUnread, IsRing1, Ring1Record, Shows, Unread, Place1
<1> QED BY <1>1, <1>2

\* The fields of a ring, and its places.
LEMMA Places1 ==
  ASSUME NEW b, NEW bl, IsRing1(b, bl)
  PROVE  /\ b.slots \in [0 .. RING_SLOTS - 1 -> Slot] /\ b.used \in 0 .. RING_SLOTS
         /\ b.head \in 0 .. RING_SLOTS - 1 /\ b.tail \in 0 .. RING_SLOTS - 1
         /\ \A i \in 1 .. RING_SLOTS : Place1(b, i) \in 0 .. RING_SLOTS - 1
         /\ \A i, j \in 1 .. RING_SLOTS : Place1(b, i) = Place1(b, j) => i = j
         /\ b.tail = Place1(b, b.used + 1)
         /\ b.head = Place1(b, 1)
<1>1. /\ b.head \in 0 .. RING_SLOTS - 1 /\ b.used \in 0 .. RING_SLOTS
      /\ b.tail = (b.head + b.used) % RING_SLOTS
      /\ b.slots \in [0 .. RING_SLOTS - 1 -> Slot] /\ b.tail \in 0 .. RING_SLOTS - 1
  BY DEF IsRing1, Ring1Record
<1>2. ASSUME NEW i \in 1 .. RING_SLOTS
      PROVE  Place1(b, i) \in 0 .. RING_SLOTS - 1
  <2>1. b.head + (i - 1) \in Nat
    BY <1>1
  <2> QED BY <2>1, DivMod DEF Place1
<1>3. ASSUME NEW i \in 1 .. RING_SLOTS, NEW j \in 1 .. RING_SLOTS, Place1(b, i) = Place1(b, j)
      PROVE  i = j
  <2>1. i - 1 \in 0 .. RING_SLOTS - 1 /\ j - 1 \in 0 .. RING_SLOTS - 1
    OBVIOUS
  <2>2. i - 1 = j - 1
    BY <1>1, <1>3, <2>1, ModApart DEF Place1
  <2> QED BY <2>2
<1>4. /\ b.used = (b.used + 1) - 1 /\ b.head = b.head + (1 - 1)
      /\ b.head % RING_SLOTS = b.head
  <2> DEFINE h == b.head
  <2>1. h \in 0 .. RING_SLOTS - 1 /\ b.used \in Nat
    BY <1>1
  <2> HIDE DEF h
  <2>2. h = h + (1 - 1) /\ h % RING_SLOTS = h
    BY <2>1
  <2> QED BY <2>1, <2>2 DEF h
<1> QED BY <1>1, <1>2, <1>3, <1>4 DEF Place1

\* u is s after n more of its bytes were read.
Skipped(s, n, u) == n <= s.left /\ u = [s EXCEPT !.ptr = @ + n, !.left = @ - n]

\* What is left of a slot after n more bytes were read.
LEMMA UnreadAfterSkip ==
  ASSUME NEW s \in Slot, NEW t, Shows(s, t), NEW n \in Nat, NEW u, Skipped(s, n, u)
  PROVE  /\ u \in Slot /\ Shows(u, SubSeq(t, n + 1, Len(t)))
         /\ SubSeq(t, n + 1, Len(t)) \in Seq(Things)
<1> DEFINE x == s.data
           m == s.ptr + 1
           v == SubSeq(t, n + 1, Len(t))
<1>1. /\ x \in Seq(Things) /\ s.ptr \in Nat /\ s.left \in Nat /\ Len(x) \in Nat
      /\ s.ptr + s.left = Len(x) /\ t = SubSeq(x, m, Len(x))
  BY DEF Slot, Shows, Unread
<1>2. /\ u.data = x /\ u.ptr = s.ptr + n /\ u.left = s.left - n
      /\ u = [data |-> x, ptr |-> s.ptr + n, left |-> s.left - n]
  BY <1>1 DEF Slot, Skipped
<1>3. /\ s.ptr + n \in Nat /\ s.left - n \in Nat /\ (s.ptr + n) + (s.left - n) = Len(x)
      /\ (s.ptr + n) + 1 = m + n /\ m \in Nat \ {0} /\ m <= Len(x) + 1 /\ s.left = Len(x) + 1 - m
  <2> DEFINE p == s.ptr
             l == s.left
             k == Len(x)
  <2>1. p \in Nat /\ l \in Nat /\ k = p + l /\ n <= l
    BY <1>1 DEF Skipped
  <2> HIDE DEF p, l, k
  <2>2. /\ p + n \in Nat /\ l - n \in Nat /\ (p + n) + (l - n) = k
        /\ (p + n) + 1 = (p + 1) + n /\ p + 1 \in Nat \ {0} /\ p + 1 <= k + 1
        /\ l = k + 1 - (p + 1)
    BY <2>1
  <2> QED BY <2>2 DEF p, l, k
<1> HIDE DEF x, m
<1> DEFINE k == Len(x)
           l == s.left
           h == n + 1
           g == m + n
           w == SubSeq(x, g, k)
<1>4. k \in Nat /\ l \in Nat /\ k <= Len(x) /\ m <= k + 1 /\ l = k + 1 - m /\ t = SubSeq(x, m, k)
  BY <1>1, <1>3
<1>9. n <= l
  BY DEF Skipped
<1> HIDE DEF k, l
<1>10. /\ t \in Seq(Things) /\ Len(t) = l
       /\ \A i \in 1 .. l : t[i] = x[m + i - 1]
  BY <1>1, <1>3, <1>4, Slice
<1>11. h \in Nat \ {0} /\ g \in Nat \ {0} /\ h <= l + 1 /\ g <= k + 1 /\ l <= Len(t)
  <2>1. m \in Nat \ {0} /\ l \in Nat /\ k \in Nat /\ n <= l /\ l = k + 1 - m
    BY <1>3, <1>4, <1>9
  <2>2. h \in Nat \ {0} /\ h <= l + 1
    BY <2>1
  <2>3. g \in Nat \ {0} /\ g <= k + 1
    BY <2>1
  <2>4. l <= Len(t)
    BY <1>10, <2>1
  <2> QED BY <2>2, <2>3, <2>4
<1>12. /\ l + 1 - h = k + 1 - g
       /\ \A i \in 1 .. l + 1 - h : h + i - 1 \in 1 .. l /\ m + (h + i - 1) - 1 = g + i - 1
  BY <1>3, <1>4, <1>11
<1>13. v = SubSeq(t, h, l)
  BY <1>10
<1> HIDE DEF h, g, v
<1>14. /\ v \in Seq(Things) /\ Len(v) = l + 1 - h
       /\ \A i \in 1 .. l + 1 - h : v[i] = t[h + i - 1]
  <2>1. t \in Seq(Things) /\ l \in Nat
    BY <1>4, <1>10
  <2>2. /\ SubSeq(t, h, l) \in Seq(Things) /\ Len(SubSeq(t, h, l)) = l + 1 - h
        /\ \A i \in 1 .. l + 1 - h : SubSeq(t, h, l)[i] = t[h + i - 1]
    BY <1>11, <2>1, Slice
  <2> QED BY <1>13, <2>2
<1>15. /\ w \in Seq(Things) /\ Len(w) = k + 1 - g
       /\ \A i \in 1 .. k + 1 - g : w[i] = x[g + i - 1]
  BY <1>1, <1>4, <1>11, Slice
<1> HIDE DEF w
<1>16. v = w
  <2>1. ASSUME NEW i \in 1 .. l + 1 - h PROVE v[i] = w[i]
    <3>1. v[i] = t[h + i - 1] /\ w[i] = x[g + i - 1]
      BY <1>12, <1>14, <1>15
    <3>2. t[h + i - 1] = x[m + (h + i - 1) - 1]
      BY <1>10, <1>12
    <3> QED BY <1>12, <3>1, <3>2
  <2> QED BY <1>12, <1>14, <1>15, <2>1, SeqEqual
<1>5. v = SubSeq(x, m + n, Len(x)) /\ v \in Seq(Things)
  BY <1>14, <1>16 DEF w, k, g
<1>6. u \in Slot
  BY <1>1, <1>2, <1>3 DEF Slot
<1> HIDE DEF v
<1>7. Unread(u) = v
  BY <1>2, <1>3, <1>5 DEF Unread
<1>8. Shows(u, v)
  BY <1>2, <1>3, <1>7 DEF Shows
<1> QED BY <1>5, <1>6, <1>8 DEF v

\* Bytes are written to the free slot at tail.
LEMMA Write1 ==
  ASSUME NEW b, NEW bl, IsRing1(b, bl), b.used # RING_SLOTS, NEW bytes \in Seq(Things), NEW d,
         d = [b EXCEPT !.slots[b.tail].data = bytes]
  PROVE  IsRing1(d, bl)
<1>0. b \in Ring1Record
  BY DEF IsRing1
<1>1. /\ d.slots = [b.slots EXCEPT ![b.tail] = [b.slots[b.tail] EXCEPT !.data = bytes]]
      /\ d.head = b.head /\ d.tail = b.tail /\ d.used = b.used
      /\ d = [slots |-> d.slots, head |-> d.head, tail |-> d.tail, used |-> d.used]
  BY <1>0 DEF Ring1Record
<1>2. b.slots[b.tail] \in Slot
  BY Places1
<1>3. [b.slots[b.tail] EXCEPT !.data = bytes] \in Slot
  BY <1>2 DEF Slot
<1>4. d.slots \in [0 .. RING_SLOTS - 1 -> Slot]
  BY <1>1, <1>3, Places1
<1>5. d \in Ring1Record
  BY <1>1, <1>4, Places1 DEF Ring1Record
<1>6. ASSUME NEW i \in 1 .. b.used PROVE Shows(d.slots[Place1(d, i)], bl[i])
  <2>1. Place1(d, i) = Place1(b, i)
    BY <1>1 DEF Place1
  <2>2. i \in 1 .. RING_SLOTS /\ b.used + 1 \in 1 .. RING_SLOTS /\ i # b.used + 1
    BY Places1
  <2>3. Place1(b, i) # b.tail /\ Place1(b, i) \in 0 .. RING_SLOTS - 1
    BY <2>2, Places1
  <2>4. d.slots[Place1(b, i)] = b.slots[Place1(b, i)]
    BY <1>1, <2>3, Places1
  <2> QED BY <2>1, <2>4 DEF IsRing1
<1> QED BY <1>1, <1>5, <1>6 DEF IsRing1

\* The slot at tail is appended.
LEMMA Append1 ==
  ASSUME NEW b, NEW bl, IsRing1(b, bl), b.used # RING_SLOTS, NEW d, NEW data,
         data = b.slots[b.tail].data,
         d = [b EXCEPT !.slots[b.tail] = [data |-> data, ptr |-> 0, left |-> Len(data)],
                       !.tail = next(@), !.used = @ + 1]
  PROVE  IsRing1(d, Append(bl, data))
<1> DEFINE s == [data |-> data, ptr |-> 0, left |-> Len(data)]
<1>0. b \in Ring1Record /\ bl \in Seq(Seq(Things)) /\ Len(bl) = b.used
  BY DEF IsRing1
<1>1. /\ d.slots = [b.slots EXCEPT ![b.tail] = s]
      /\ d.head = b.head /\ d.tail = next(b.tail) /\ d.used = b.used + 1
      /\ d = [slots |-> d.slots, head |-> d.head, tail |-> d.tail, used |-> d.used]
  BY <1>0 DEF Ring1Record
<1>2. data \in Seq(Things) /\ s \in Slot /\ Shows(s, data)
  <2>1. b.slots[b.tail] \in Slot
    BY Places1
  <2>2. data \in Seq(Things) /\ Len(data) \in Nat
    BY <2>1 DEF Slot
  <2>3. SubSeq(data, 0 + 1, 0 + Len(data)) = data
    <3>1. 0 + 1 = 1 /\ 0 + Len(data) = Len(data)
      BY <2>2
    <3> QED BY <2>2, <3>1, SubSeqFull
  <2> QED BY <2>2, <2>3 DEF Slot, Shows, Unread
<1> HIDE DEF s
<1>3. d.slots \in [0 .. RING_SLOTS - 1 -> Slot]
  BY <1>1, <1>2, Places1
<1>4. next(b.tail) \in 0 .. RING_SLOTS - 1 /\ d.tail = (d.head + d.used) % RING_SLOTS
  <2>1. b.head \in Nat /\ b.used \in Nat /\ b.tail \in Nat
    BY Places1
  <2>2. b.head + b.used \in Nat /\ b.head + b.used + 1 = b.head + (b.used + 1)
    BY <2>1
  <2>3. (((b.head + b.used) % RING_SLOTS) + 1) % RING_SLOTS = (b.head + b.used + 1) % RING_SLOTS
    BY <2>2, ModAdd
  <2>4. b.tail + 1 \in Nat
    BY <2>1
  <2>5. (b.tail + 1) % RING_SLOTS \in 0 .. RING_SLOTS - 1
    BY <2>4, DivMod
  <2>6. b.tail = (b.head + b.used) % RING_SLOTS
    BY DEF IsRing1
  <2> QED BY <1>1, <2>2, <2>3, <2>5, <2>6 DEF next
<1>5. d \in Ring1Record
  <2>1. d.used \in 0 .. RING_SLOTS
    BY <1>1, Places1
  <2> QED BY <1>1, <1>3, <1>4, <2>1, Places1 DEF Ring1Record
<1> DEFINE t == Append(bl, data)
<1>6. /\ t \in Seq(Seq(Things)) /\ Len(t) = b.used + 1 /\ t[b.used + 1] = data
      /\ \A i \in 1 .. b.used : t[i] = bl[i]
  BY <1>0, <1>2
<1> HIDE DEF t
<1>7. ASSUME NEW i \in 1 .. b.used + 1 PROVE Shows(d.slots[Place1(d, i)], t[i])
  <2>1. Place1(d, i) = Place1(b, i)
    BY <1>1 DEF Place1
  <2>2. CASE i = b.used + 1
    <3>1. d.slots[b.tail] = s
      BY <1>1, Places1
    <3> QED BY <1>2, <1>6, <2>1, <2>2, <3>1, Places1
  <2>3. CASE i \in 1 .. b.used
    <3>1. i \in 1 .. RING_SLOTS /\ b.used + 1 \in 1 .. RING_SLOTS /\ i # b.used + 1
      BY <2>3, Places1
    <3>2. Place1(b, i) # b.tail /\ Place1(b, i) \in 0 .. RING_SLOTS - 1
      BY <3>1, Places1
    <3>3. d.slots[Place1(b, i)] = b.slots[Place1(b, i)]
      BY <1>1, <3>2, Places1
    <3>4. Shows(b.slots[Place1(b, i)], bl[i])
      BY <2>3 DEF IsRing1
    <3> QED BY <1>6, <2>1, <2>3, <3>3, <3>4
  <2>4. b.used \in Nat
    BY Places1
  <2> QED BY <2>2, <2>3, <2>4
<1>8. IsRing1(d, t)
  BY <1>1, <1>4, <1>5, <1>6, <1>7 DEF IsRing1
<1> QED BY <1>8 DEF t

\* n bytes of the oldest slot are read.
LEMMA Skip1 ==
  ASSUME NEW b, NEW bl, IsRing1(b, bl), b.used # 0, NEW n \in Nat,
         n <= b.slots[b.head].left, NEW d, NEW cl,
         d = [b EXCEPT !.slots[b.head].ptr = @ + n, !.slots[b.head].left = @ - n],
         cl = [bl EXCEPT ![1] = SubSeq(@, n + 1, Len(@))]
  PROVE  IsRing1(d, cl)
<1> DEFINE s == b.slots[b.head]
           u == [s EXCEPT !.ptr = @ + n, !.left = @ - n]
           v == SubSeq(bl[1], n + 1, Len(bl[1]))
<1>0. /\ b \in Ring1Record /\ bl \in Seq(Seq(Things)) /\ Len(bl) = b.used
      /\ b.head \in 0 .. RING_SLOTS - 1 /\ b.slots \in [0 .. RING_SLOTS - 1 -> Slot]
      /\ 1 \in 1 .. b.used /\ s \in Slot
  <2>1. b \in Ring1Record /\ bl \in Seq(Seq(Things)) /\ Len(bl) = b.used
    BY DEF IsRing1
  <2>2. b.head \in 0 .. RING_SLOTS - 1 /\ b.slots \in [0 .. RING_SLOTS - 1 -> Slot]
        /\ b.used \in 0 .. RING_SLOTS
    BY Places1
  <2>3. 1 \in 1 .. b.used
    BY <2>2
  <2> QED BY <2>1, <2>2, <2>3
<1>1. /\ d.slots = [b.slots EXCEPT ![b.head] = u]
      /\ d.head = b.head /\ d.tail = b.tail /\ d.used = b.used
      /\ d = [slots |-> d.slots, head |-> d.head, tail |-> d.tail, used |-> d.used]
  BY <1>0 DEF Ring1Record, Slot
<1>2. Shows(s, bl[1])
  BY <1>0, Places1 DEF IsRing1
<1>3. u \in Slot /\ Shows(u, v) /\ v \in Seq(Things)
  BY <1>0, <1>2, UnreadAfterSkip DEF Skipped
<1> HIDE DEF u, v
<1>4. d.slots \in [0 .. RING_SLOTS - 1 -> Slot]
  BY <1>0, <1>1, <1>3
<1>5. d \in Ring1Record
  BY <1>1, <1>4, Places1 DEF Ring1Record
<1>6. /\ cl = [bl EXCEPT ![1] = v]
      /\ cl \in Seq(Seq(Things)) /\ Len(cl) = Len(bl)
      /\ \A i \in 1 .. Len(bl) : cl[i] = IF i = 1 THEN v ELSE bl[i]
  <2>1. cl = [bl EXCEPT ![1] = v]
    BY DEF v
  <2>2. 1 \in 1 .. Len(bl) /\ v \in Seq(Things)
    BY <1>0, <1>3
  <2>3. /\ [bl EXCEPT ![1] = v] \in Seq(Seq(Things))
        /\ Len([bl EXCEPT ![1] = v]) = Len(bl)
        /\ \A i \in 1 .. Len(bl) : [bl EXCEPT ![1] = v][i] = IF i = 1 THEN v ELSE bl[i]
    BY <1>0, <2>2, ExceptSeq
  <2> HIDE DEF v
  <2> QED BY <2>1, <2>3
<1>7. ASSUME NEW i \in 1 .. b.used PROVE Shows(d.slots[Place1(d, i)], cl[i])
  <2>1. Place1(d, i) = Place1(b, i)
    BY <1>1 DEF Place1
  <2>2. CASE i = 1
    <3>1. Place1(b, i) = b.head
      BY <2>2, Places1
    <3>2. d.slots[b.head] = u
      BY <1>0, <1>1
    <3>3. cl[i] = v
      BY <1>0, <1>6, <2>2
    <3> QED BY <1>3, <2>1, <3>1, <3>2, <3>3
  <2>3. CASE i # 1
    <3>1. i \in 1 .. RING_SLOTS /\ 1 \in 1 .. RING_SLOTS
      BY Places1
    <3>2. Place1(b, i) # b.head /\ Place1(b, i) \in 0 .. RING_SLOTS - 1
      BY <2>3, <3>1, Places1
    <3>3. d.slots[Place1(b, i)] = b.slots[Place1(b, i)]
      BY <1>0, <1>1, <3>2
    <3>4. Shows(b.slots[Place1(b, i)], bl[i])
      BY DEF IsRing1
    <3> QED BY <1>0, <1>6, <2>1, <2>3, <3>3, <3>4
  <2> QED BY <2>2, <2>3
<1> QED BY <1>0, <1>1, <1>5, <1>6, <1>7 DEF IsRing1

\* The oldest slot is popped.
LEMMA Pop1 ==
  ASSUME NEW b, NEW bl, IsRing1(b, bl), b.used # 0, NEW d,
         d = [b EXCEPT !.head = next(@), !.used = @ - 1]
  PROVE  IsRing1(d, Tail(bl))
<1>0. /\ b \in Ring1Record /\ bl \in Seq(Seq(Things)) /\ Len(bl) = b.used
      /\ b.used \in 1 .. RING_SLOTS
  BY Places1 DEF IsRing1
<1>1. /\ d.slots = b.slots /\ d.head = next(b.head) /\ d.tail = b.tail /\ d.used = b.used - 1
      /\ d = [slots |-> d.slots, head |-> d.head, tail |-> d.tail, used |-> d.used]
  BY <1>0 DEF Ring1Record
<1>2. b.head \in Nat /\ b.head + 1 \in Nat
  BY Places1
<1>3. next(b.head) \in 0 .. RING_SLOTS - 1
  BY <1>2, DivMod DEF next
<1>4. ASSUME NEW k \in Nat
      PROVE  (d.head + k) % RING_SLOTS = (b.head + (1 + k)) % RING_SLOTS
  <2>1. b.head + 1 + k = b.head + (1 + k)
    BY <1>2
  <2>2. (((b.head + 1) % RING_SLOTS) + k) % RING_SLOTS = (b.head + 1 + k) % RING_SLOTS
    BY <1>2, ModAdd
  <2> QED BY <1>1, <2>1, <2>2 DEF next
<1>5. d.tail = (d.head + d.used) % RING_SLOTS
  <2>1. b.used - 1 \in Nat /\ 1 + (b.used - 1) = b.used
    BY <1>0
  <2> QED BY <1>1, <1>4, <2>1 DEF IsRing1
<1>6. d \in Ring1Record
  <2>1. d.used \in 0 .. RING_SLOTS
    BY <1>0, <1>1
  <2> QED BY <1>1, <1>3, <2>1, Places1 DEF Ring1Record
<1> DEFINE t == Tail(bl)
<1>7. /\ t \in Seq(Seq(Things)) /\ Len(t) = b.used - 1
      /\ \A i \in 1 .. b.used - 1 : t[i] = bl[i + 1]
  <2>1. bl # <<>>
    BY <1>0
  <2> QED BY <1>0, <2>1, HeadTailProperties
<1> HIDE DEF t
<1>8. ASSUME NEW i \in 1 .. b.used - 1 PROVE Shows(d.slots[Place1(d, i)], t[i])
  <2>1. i - 1 \in Nat /\ 1 + (i - 1) = (i + 1) - 1 /\ i + 1 \in 1 .. b.used
    BY <1>0
  <2>2. Place1(d, i) = Place1(b, i + 1)
    BY <1>4, <2>1 DEF Place1
  <2>3. Shows(b.slots[Place1(b, i + 1)], bl[i + 1])
    BY <2>1 DEF IsRing1
  <2> QED BY <1>1, <1>7, <2>2, <2>3
<1>9. IsRing1(d, t)
  BY <1>1, <1>5, <1>6, <1>7, <1>8 DEF IsRing1
<1> QED BY <1>9 DEF t

\* Neither a write in place nor the part already read moves what
\* ringbuffer_read_next shows of the appended slots (ring1, ringbuffer.c 54-89),
\* for every number of slots.
THEOREM Ring1Keeps == SmallRingsSpec => []Ring1KeepsUnread
<1>1. SmallRingsInit => Ring1Inv
  <2> SUFFICES ASSUME SmallRingsInit PROVE Ring1Inv
    OBVIOUS
  <2>1. ring1 = ringbuffer_init /\ block = <<>>
    BY DEF SmallRingsInit
  <2>2. <<>> \in Seq(Seq(Things)) /\ <<>> \in Seq(Things) /\ Len(<<>>) = 0
    BY EmptySeq
  <2>3. 0 \in 0 .. RING_SLOTS - 1 /\ 0 \in 0 .. RING_SLOTS /\ (0 + 0) % RING_SLOTS = 0
    OBVIOUS
  <2>4. ringbuffer_init \in Ring1Record
    BY <2>2, <2>3 DEF ringbuffer_init, Ring1Record, Slot
  <2>5. IsRing1(ring1, block)
    BY <2>1, <2>2, <2>3, <2>4 DEF IsRing1, ringbuffer_init
  <2> QED BY <2>5, Ring1Forms
<1>2. Ring1Inv /\ [Ring3Next \/ Ring1Next]_smallRingVars => Ring1Inv'
  <2> SUFFICES ASSUME Ring1Inv, [Ring3Next \/ Ring1Next]_smallRingVars
               PROVE  IsRing1(ring1', block')
    BY Ring1Forms
  <2>0. IsRing1(ring1, block)
    BY Ring1Forms
  <2>1. ASSUME NEW bytes \in Blocks, WriteInPlace(bytes) PROVE IsRing1(ring1', block')
    <3>1. bytes \in Seq(Things)
      BY SmallRingsAssumption DEF Blocks
    <3>2. /\ ring1' = [ring1 EXCEPT !.slots[ring1.tail].data = bytes]
          /\ block' = block /\ ring1.used # RING_SLOTS
      BY <2>1 DEF WriteInPlace, ringbuffer_is_full
    <3> QED BY <2>0, <3>1, <3>2, Write1
  <2>2. CASE ringbuffer_write_append
    BY <2>0, <2>2, Append1 DEF ringbuffer_write_append, ringbuffer_is_full
  <2>3. CASE ringbuffer_read_pop
    BY <2>0, <2>3, Pop1 DEF ringbuffer_read_pop, ringbuffer_is_empty
  <2>4. ASSUME NEW n \in 1 .. BlockLen, ringbuffer_read_skip(n) PROVE IsRing1(ring1', block')
    <3>1. n \in Nat
      OBVIOUS
    <3> DEFINE d == [ring1 EXCEPT !.slots[ring1.head].ptr = @ + n,
                                  !.slots[ring1.head].left = @ - n]
               cl == [block EXCEPT ![1] = SubSeq(@, n + 1, Len(@))]
    <3>2. ring1.used # 0 /\ n <= ring1.slots[ring1.head].left /\ ring1' = d /\ block' = cl
      BY <2>4 DEF ringbuffer_read_skip, ringbuffer_is_empty
    <3>3. IsRing1(d, cl)
      BY <2>0, <3>1, <3>2, Skip1
    <3> QED BY <3>2, <3>3
  <2>5. CASE UNCHANGED <<ring1, block>>
    BY <2>0, <2>5
  <2> QED BY <2>1, <2>2, <2>3, <2>4, <2>5 DEF Ring1Next, Ring3Next, smallRingVars
<1>3. Ring1Inv => Ring1KeepsUnread
  BY DEF Ring1Inv
<1> QED BY <1>1, <1>2, <1>3, PTL DEF SmallRingsSpec


-----------------------------------------------------------------------------
(* ring2: where bytes lie.                                                  *)

HIDE SmallRingsAssumption

\* A whole turn changes no index.
LEMMA ModTurn ==
  ASSUME NEW z \in Nat \ {0}, NEW a \in Nat
  PROVE  (a + z) % z = a % z
<1>1. a % z \in 0 .. z - 1 /\ a \div z \in Nat /\ a = z * (a \div z) + (a % z)
  BY DivMod
<1> DEFINE q == a \div z
           r == a % z
<1>2. q \in Nat /\ r \in 0 .. z - 1 /\ a = z * q + r
  BY <1>1
<1> HIDE DEF q, r
<1>3. z * (q + 1) = z * q + z * 1 /\ z * q \in Nat /\ z * 1 = z
  BY <1>2, Distributes
<1>4. a + z = z * (q + 1) + r
  BY <1>2, <1>3
<1>5. q + 1 \in Nat
  BY <1>2
<1>6. (z * (q + 1) + r) % z = r
  BY <1>2, <1>5, ModOf
<1> QED BY <1>4, <1>6 DEF r

\* The distance from t round to h.
LEMMA Distance ==
  ASSUME NEW z \in Nat \ {0}, NEW h \in 0 .. z - 1, NEW t \in 0 .. z - 1, NEW u,
         u = IF h >= t THEN h - t ELSE h + z - t
  PROVE  u \in 0 .. z - 1 /\ h = (t + u) % z
<1>1. u \in 0 .. z - 1 /\ t + u = IF h >= t THEN h ELSE h + z
  OBVIOUS
<1>2. h % z = h
  OBVIOUS
<1>3. (h + z) % z = h % z
  <2>1. h \in Nat
    OBVIOUS
  <2> QED BY <2>1, ModTurn
<1> QED BY <1>1, <1>2, <1>3

\* The copy of a byte to the j-th index after head is the first one there when
\* j is less than the size.
LEMMA FirstCopy ==
  ASSUME NEW z \in Nat \ {0}, NEW h \in 0 .. z - 1, NEW j \in Nat
  PROVE  (((h + j) % z) + z - h) % z = j % z
<1>1. z - h \in Nat /\ h + j \in Nat
  OBVIOUS
<1>2. (((h + j) % z) + (z - h)) % z = (h + j + (z - h)) % z
  BY <1>1, ModAdd
<1>3. h + j + (z - h) = j + z
  OBVIOUS
<1>4. (j + z) % z = j % z
  BY ModTurn
<1>5. (h + j) % z \in 0 .. z - 1
  BY <1>1, DivMod
<1>6. ((h + j) % z) + z - h = ((h + j) % z) + (z - h)
  BY <1>5
<1> QED BY <1>2, <1>3, <1>4, <1>6

\* Of n bytes the m-th is the last one copied to its index when it is one of
\* the last z.
LEMMA LastCopy ==
  ASSUME NEW z \in Nat \ {0}, NEW n \in Nat, NEW m \in 1 .. n, n < m + z,
         NEW f, f = ((m - 1) % z) + 1
  PROVE  f <= n /\ f + z * ((n - f) \div z) = m
<1> DEFINE q == (m - 1) \div z
           r == (m - 1) % z
<1>1. q \in Nat /\ r \in 0 .. z - 1 /\ m - 1 = z * q + r
  <2>1. m - 1 \in Nat
    OBVIOUS
  <2> QED BY <2>1, DivMod
<1>2. f = r + 1
  OBVIOUS
<1> HIDE DEF q, r
<1>3. z * q \in Nat /\ n - m \in 0 .. z - 1
  BY <1>1
<1>4. n - f = z * q + (n - m)
  BY <1>1, <1>2, <1>3
<1>5. (z * q + (n - m)) \div z = q
  BY <1>1, <1>3, ModOf
<1> QED BY <1>1, <1>2, <1>3, <1>4, <1>5

\* Every copied byte is one of the n.
LEMMA CopyIsThere ==
  ASSUME NEW z \in Nat \ {0}, NEW n \in Nat, NEW f \in 1 .. n
  PROVE  f + z * ((n - f) \div z) \in 1 .. n
<1>1. n - f \in Nat
  OBVIOUS
<1> DEFINE q == (n - f) \div z
           r == (n - f) % z
<1>2. q \in Nat /\ r \in 0 .. z - 1 /\ n - f = z * q + r
  BY <1>1, DivMod
<1> HIDE DEF q, r
<1>3. z * q \in Nat
  BY <1>2
<1>4. f + z * q \in 1 .. n
  BY <1>2, <1>3
<1> QED BY <1>4 DEF q

\* The p-th of the bytes that start at index t is one of the u that end at
\* head h, or one of those that follow.
LEMMA PlaceFromHead ==
  ASSUME NEW z \in Nat \ {0}, NEW t \in 0 .. z - 1, NEW u \in 0 .. z - 1,
         NEW h \in Nat, h = (t + u) % z, NEW p \in Nat \ {0}
  PROVE  /\ p > u => (t + (p - 1)) % z = (h + (p - u - 1)) % z
         /\ p <= u => (t + (p - 1)) % z = (h + (z - u + p - 1)) % z
<1>1. t + u \in Nat
  OBVIOUS
<1>2. ASSUME NEW k \in Nat PROVE (h + k) % z = (t + u + k) % z
  BY <1>1, ModAdd
<1>3. CASE p > u
  <2>1. p - u - 1 \in Nat /\ t + u + (p - u - 1) = t + (p - 1)
    BY <1>3
  <2>2. (h + (p - u - 1)) % z = (t + u + (p - u - 1)) % z
    BY <1>2, <2>1
  <2> QED BY <1>3, <2>1, <2>2
<1>4. CASE p <= u
  <2>1. /\ z - u + p - 1 \in Nat /\ t + (p - 1) \in Nat
        /\ t + u + (z - u + p - 1) = (t + (p - 1)) + z
    BY <1>4
  <2>2. (h + (z - u + p - 1)) % z = (t + u + (z - u + p - 1)) % z
    BY <1>2, <2>1
  <2>3. ((t + (p - 1)) + z) % z = (t + (p - 1)) % z
    BY <2>1, ModTurn
  <2> QED BY <1>4, <2>1, <2>2, <2>3
<1> QED BY <1>3, <1>4

-----------------------------------------------------------------------------
(* ring2: one buffer.                                                       *)

\* The struct ringbuf_t of a buffer for c bytes.
BufRecord(c) ==
  [size : {c + 1}, buf : [0 .. c -> Bytes \cup {Junk}], head : 0 .. c, tail : 0 .. c]

\* What is in it, and that it is no junk.
Content2(b)    == Read(b, bytes_used(b))
IsBuffer(b, c) == b \in BufRecord(c) /\ Content2(b) \in Seq(Bytes)

\* The number of bytes in a buffer is the distance from tail to head.
LEMMA Used2 ==
  ASSUME NEW c \in Nat, NEW b \in BufRecord(c)
  PROVE  /\ bytes_used(b) \in 0 .. c /\ bytes_free(b) = c - bytes_used(b)
         /\ b.head = (b.tail + bytes_used(b)) % (c + 1)
         /\ \A v \in 0 .. c : b.head = (b.tail + v) % (c + 1) => v = bytes_used(b)
<1> DEFINE z == c + 1
           h == b.head
           t == b.tail
           u == IF h >= t THEN h - t ELSE h + z - t
<1>1. z \in Nat \ {0} /\ h \in 0 .. z - 1 /\ t \in 0 .. z - 1 /\ b.size = z /\ c = z - 1
  BY DEF BufRecord
<1>2. bytes_free(b) = IF h >= t THEN (z - 1) - (h - t) ELSE t - h - 1
  BY <1>1 DEF bytes_free
<1>3. bytes_used(b) = (z - 1) - (IF h >= t THEN (z - 1) - (h - t) ELSE t - h - 1)
  BY <1>1, <1>2 DEF bytes_used
<1> HIDE DEF z, h, t
<1>4. u = IF h >= t THEN h - t ELSE h + z - t
  OBVIOUS
<1>5. bytes_used(b) = u /\ bytes_free(b) = c - u
  BY <1>1, <1>2, <1>3
<1> HIDE DEF u
<1>8. u \in 0 .. z - 1 /\ h = (t + u) % z
  <2>1. z \in Nat \ {0} /\ h \in 0 .. z - 1 /\ t \in 0 .. z - 1
    BY <1>1
  <2> QED BY <2>1, <1>4, Distance
<1>6. \A v \in 0 .. z - 1 : h = (t + v) % z => v = u
  BY <1>1, <1>8, ModApart
<1>7. 0 .. c = 0 .. z - 1
  BY <1>1
<1> QED BY <1>5, <1>6, <1>7, <1>8 DEF z, h, t

\* A buffer whose bytes from tail on are those of w holds w.
LEMMA ContentIs ==
  ASSUME NEW c \in Nat, NEW b \in BufRecord(c), NEW w \in Seq(Bytes), Len(w) \in 0 .. c,
         b.head = (b.tail + Len(w)) % (c + 1),
         \A i \in 1 .. Len(w) : b.buf[(b.tail + (i - 1)) % (c + 1)] = w[i]
  PROVE  IsBuffer(b, c) /\ Content2(b) = w /\ bytes_used(b) = Len(w)
<1>1. bytes_used(b) = Len(w)
  BY Used2
<1>2. b.size = c + 1 /\ b.tail \in Nat
  BY DEF BufRecord
<1>3. Content2(b) = [i \in 1 .. Len(w) |-> w[i]]
  <2>1. \A i \in 1 .. Len(w) : b.buf[(b.tail + i - 1) % b.size] = w[i]
    BY <1>2
  <2> QED BY <1>1, <2>1 DEF Content2, Read
<1>4. w = [i \in 1 .. Len(w) |-> w[i]]
  OBVIOUS
<1> QED BY <1>1, <1>3, <1>4 DEF IsBuffer

\* The content of a buffer as a sequence.
LEMMA ContentFacts ==
  ASSUME NEW c \in Nat, NEW b, IsBuffer(b, c), NEW n \in 0 .. bytes_used(b)
  PROVE  /\ Read(b, n) \in Seq(Bytes) /\ Len(Read(b, n)) = n
         /\ Content2(b) \in Seq(Bytes) /\ Len(Content2(b)) = bytes_used(b)
         /\ \A i \in 1 .. n : Read(b, n)[i] = Content2(b)[i]
         /\ \A i \in 1 .. bytes_used(b) :
              Content2(b)[i] = b.buf[(b.tail + (i - 1)) % (c + 1)]
<1>1. b \in BufRecord(c) /\ Content2(b) \in Seq(Bytes)
  BY DEF IsBuffer
<1>2. bytes_used(b) \in Nat /\ b.size = c + 1 /\ b.tail \in Nat
  <2>1. b.size = c + 1 /\ b.tail \in Nat
    BY <1>1 DEF BufRecord
  <2> QED BY <1>1, <2>1, Used2
<1>3. ASSUME NEW k \in Nat
      PROVE  Read(b, k) = [i \in 1 .. k |-> b.buf[(b.tail + (i - 1)) % (c + 1)]]
  BY <1>2 DEF Read
<1>4. Content2(b) = [i \in 1 .. bytes_used(b) |-> b.buf[(b.tail + (i - 1)) % (c + 1)]]
  BY <1>2, <1>3 DEF Content2
<1>5. Len(Content2(b)) = bytes_used(b)
  BY <1>2, <1>4
<1>6. \A i \in 1 .. bytes_used(b) :
        Content2(b)[i] \in Bytes /\ Content2(b)[i] = b.buf[(b.tail + (i - 1)) % (c + 1)]
  <2>1. \A i \in 1 .. bytes_used(b) : Content2(b)[i] = b.buf[(b.tail + (i - 1)) % (c + 1)]
    BY <1>4
  <2>2. \A i \in 1 .. Len(Content2(b)) : Content2(b)[i] \in Bytes
    BY <1>1
  <2> QED BY <1>5, <2>1, <2>2
<1>7. n \in Nat /\ \A i \in 1 .. n : i \in 1 .. bytes_used(b)
  BY <1>2
<1>8. Read(b, n) = [i \in 1 .. n |-> Content2(b)[i]]
  BY <1>3, <1>6, <1>7
<1>9. [i \in 1 .. n |-> Content2(b)[i]] \in Seq(Bytes)
  BY <1>6, <1>7
<1> QED BY <1>1, <1>5, <1>6, <1>7, <1>8, <1>9

\* The array after Write, index by index from head: one of the last bytes of s,
\* or what was there before.
LEMMA WrittenBytes ==
  ASSUME NEW c \in Nat, NEW b \in BufRecord(c), NEW s \in Seq(Bytes), NEW d, d = Write(b, s)
  PROVE  /\ d \in BufRecord(c) /\ d.head = (b.head + Len(s)) % (c + 1)
         /\ d.tail = IF Len(s) > bytes_free(b) THEN (d.head + 1) % (c + 1) ELSE b.tail
         /\ \A m \in 1 .. Len(s) :
              Len(s) < m + (c + 1) => d.buf[(b.head + (m - 1)) % (c + 1)] = s[m]
         /\ \A j \in 0 .. c :
              j >= Len(s) => d.buf[(b.head + j) % (c + 1)] = b.buf[(b.head + j) % (c + 1)]
<1> DEFINE z == c + 1
           h == b.head
           n == Len(s)
           f(k) == ((k + z - h) % z) + 1
           l(k) == f(k) + z * ((n - f(k)) \div z)
           buf == [k \in 0 .. c |-> IF f(k) <= n THEN s[l(k)] ELSE b.buf[k]]
           head == (h + n) % z
           tail == IF n > bytes_free(b) THEN (head + 1) % z ELSE b.tail
<1>1. /\ z \in Nat \ {0} /\ h \in 0 .. z - 1 /\ b.size = z /\ n \in Nat /\ 0 .. c = 0 .. z - 1
      /\ b.buf \in [0 .. c -> Bytes \cup {Junk}] /\ b.tail \in 0 .. c
      /\ b = [size |-> z, buf |-> b.buf, head |-> h, tail |-> b.tail]
  BY DEF BufRecord
<1>2. /\ d = [size |-> z, buf |-> buf, head |-> head, tail |-> tail]
      /\ d.buf = buf /\ d.head = head /\ d.tail = tail
  <2>1. Indices(b) = 0 .. c
    BY <1>1 DEF Indices
  <2>2. \A k : FirstTo(b, k) = f(k) /\ LastTo(b, n, k) = l(k)
    BY <1>1 DEF FirstTo, LastTo
  <2>3. nextp(b, head) = (head + 1) % z
    BY <1>1 DEF nextp
  <2>4. d = [b EXCEPT !.buf = buf, !.head = head, !.tail = tail]
    BY <1>1, <2>1, <2>2, <2>3 DEF Write
  <2> HIDE DEF buf, head, tail
  <2> QED BY <1>1, <2>4
<1> HIDE DEF z, h, n
<1>3. ASSUME NEW k \in 0 .. c PROVE f(k) \in Nat \ {0}
  <2>1. k + z - h \in Nat
    BY <1>1, <1>3
  <2>2. (k + z - h) % z \in 0 .. z - 1
    BY <1>1, <2>1, DivMod
  <2> QED BY <2>2
<1>4. buf \in [0 .. c -> Bytes \cup {Junk}]
  <2>1. ASSUME NEW k \in 0 .. c, f(k) <= n PROVE s[l(k)] \in Bytes
    <3>1. f(k) \in 1 .. n
      BY <1>1, <1>3, <2>1
    <3> HIDE DEF f
    <3>2. l(k) \in 1 .. n
      BY <1>1, <3>1, CopyIsThere
    <3> HIDE DEF l
    <3> QED BY <3>2 DEF n
  <2> HIDE DEF f, l
  <2> QED BY <1>1, <2>1
<1>5. head \in 0 .. c /\ tail \in 0 .. c
  <2>1. h + n \in Nat
    BY <1>1
  <2>2. head \in 0 .. z - 1
    BY <1>1, <2>1, DivMod
  <2>3. head + 1 \in Nat
    BY <2>2
  <2>4. (head + 1) % z \in 0 .. z - 1
    BY <1>1, <2>3, DivMod
  <2> QED BY <1>1, <2>2, <2>4
<1>6. d \in BufRecord(c)
  <2> HIDE DEF buf, head, tail
  <2> QED BY <1>2, <1>4, <1>5 DEF BufRecord, z
<1>7. ASSUME NEW j \in Nat PROVE (h + j) % z \in 0 .. c /\ f((h + j) % z) = (j % z) + 1
  <2>1. h + j \in Nat
    BY <1>1
  <2>2. (h + j) % z \in 0 .. z - 1
    BY <1>1, <2>1, DivMod
  <2>3. (((h + j) % z) + z - h) % z = j % z
    BY <1>1, FirstCopy
  <2> QED BY <1>1, <2>2, <2>3
<1>8. ASSUME NEW m \in 1 .. n, n < m + z PROVE d.buf[(h + (m - 1)) % z] = s[m]
  <2> DEFINE k == (h + (m - 1)) % z
  <2>1. m - 1 \in Nat
    BY <1>8
  <2>2. k \in 0 .. c /\ f(k) = ((m - 1) % z) + 1
    BY <1>7, <2>1
  <2> HIDE DEF k, f
  <2>3. f(k) <= n /\ f(k) + z * ((n - f(k)) \div z) = m
    BY <1>1, <1>8, <2>2, LastCopy
  <2>4. l(k) = m
    BY <2>3
  <2> HIDE DEF l
  <2>5. buf[k] = s[m]
    BY <2>2, <2>3, <2>4
  <2> QED BY <1>2, <2>5 DEF k
<1>9. ASSUME NEW j \in 0 .. c, j >= n PROVE d.buf[(h + j) % z] = b.buf[(h + j) % z]
  <2> DEFINE k == (h + j) % z
  <2>1. j \in Nat /\ j % z = j
    BY <1>1, <1>9
  <2>2. k \in 0 .. c /\ f(k) = j + 1
    BY <1>7, <2>1
  <2> HIDE DEF k, f, l
  <2>3. buf[k] = b.buf[k]
    BY <1>1, <1>9, <2>2
  <2> QED BY <1>2, <2>3 DEF k
<1>10. d.head = (b.head + Len(s)) % (c + 1)
  BY <1>2 DEF z, h, n
<1>11. d.tail = IF Len(s) > bytes_free(b) THEN (d.head + 1) % (c + 1) ELSE b.tail
  BY <1>2 DEF z, n
<1> QED BY <1>6, <1>8, <1>9, <1>10, <1>11 DEF z, h, n

\* u is the content of b and then s.
Joined(b, s, u) == u = Content2(b) \o s

\* The array of d shows u from tail on, as far as it holds u.
ShowsEnd(b, c, d, u) ==
  \A p \in 1 .. Len(u) : Len(u) <= p + c => d.buf[(b.tail + (p - 1)) % (c + 1)] = u[p]

\* The bytes that were in the buffer and those of s after them are in the array,
\* as far as it holds them.
LEMMA Stream ==
  ASSUME NEW c \in Nat, NEW b, IsBuffer(b, c), NEW s \in Seq(Bytes), NEW d, d = Write(b, s),
         NEW u, Joined(b, s, u)
  PROVE  /\ u \in Seq(Bytes) /\ Len(u) = bytes_used(b) + Len(s) /\ ShowsEnd(b, c, d, u)
<1> DEFINE z == c + 1
           h == b.head
           t == b.tail
           o == bytes_used(b)
           n == Len(s)
           w == Content2(b)
<1>1. /\ b \in BufRecord(c) /\ z \in Nat \ {0} /\ c = z - 1 /\ t \in 0 .. z - 1
      /\ o \in 0 .. z - 1 /\ h = (t + o) % z /\ n \in Nat
  <2>1. b \in BufRecord(c)
    BY DEF IsBuffer
  <2>2. t \in 0 .. c
    BY <2>1 DEF BufRecord
  <2>3. o \in 0 .. c /\ h = (t + o) % z
    BY <2>1, Used2
  <2> HIDE DEF t, o, h
  <2> QED BY <2>1, <2>2, <2>3
<1>2. /\ w \in Seq(Bytes) /\ Len(w) = o
      /\ \A i \in 1 .. o : w[i] = b.buf[(t + (i - 1)) % z]
  <2>1. 0 \in 0 .. o
    BY <1>1
  <2> QED BY <2>1, ContentFacts
<1> HIDE DEF w, o
<1>3. /\ u \in Seq(Bytes) /\ Len(u) = o + n
      /\ \A p \in 1 .. o : u[p] = w[p]
      /\ \A p \in 1 .. o + n : p > o => u[p] = s[p - o]
  <2>1. u = w \o s
    BY DEF w, Joined
  <2>2. o \in Nat /\ n \in Nat
    BY <1>1
  <2>3. /\ w \o s \in Seq(Bytes) /\ Len(w \o s) = o + n
        /\ \A p \in 1 .. o + n : (w \o s)[p] = IF p <= o THEN w[p] ELSE s[p - o]
    BY <1>2, <2>2, ConcatProperties
  <2> HIDE DEF n, h, t, z
  <2>4. \A p \in 1 .. o : p \in 1 .. o + n /\ p <= o
    BY <2>2
  <2>5. \A p \in 1 .. o + n : p > o => ~(p <= o)
    BY <2>2
  <2> QED BY <2>1, <2>3, <2>4, <2>5
<1>4. /\ \A m \in 1 .. n : n < m + z => d.buf[(h + (m - 1)) % z] = s[m]
      /\ \A j \in 0 .. c : j >= n => d.buf[(h + j) % z] = b.buf[(h + j) % z]
  <2>1. b \in BufRecord(c)
    BY <1>1
  <2> QED BY <2>1, WrittenBytes
<1> HIDE DEF z, h, t, n
<1>6. ASSUME NEW p \in Nat \ {0}
      PROVE  /\ p > o => (t + (p - 1)) % z = (h + (p - o - 1)) % z
             /\ p <= o => (t + (p - 1)) % z = (h + (z - o + p - 1)) % z
  <2>1. z \in Nat \ {0} /\ t \in 0 .. z - 1 /\ o \in 0 .. z - 1 /\ h = (t + o) % z /\ h \in Nat
    BY <1>1
  <2> QED BY <2>1, PlaceFromHead, ZenonT(30)
<1>5. ASSUME NEW p \in 1 .. o + n, o + n <= p + c PROVE d.buf[(t + (p - 1)) % z] = u[p]
  <2>1. p \in Nat \ {0} /\ o \in Nat
    BY <1>1
  <2>2. CASE p > o
    <3>1. p - o \in 1 .. n /\ n < (p - o) + z
      BY <1>1, <1>5, <2>2
    <3>2. d.buf[(h + (p - o - 1)) % z] = s[p - o]
      BY <1>4, <3>1
    <3>3. (t + (p - 1)) % z = (h + (p - o - 1)) % z
      BY <1>6, <2>1, <2>2
    <3> QED BY <1>3, <2>2, <3>2, <3>3
  <2>3. CASE p <= o
    <3>1. z - o + p - 1 \in 0 .. c /\ z - o + p - 1 >= n
      BY <1>1, <1>5, <2>1, <2>3
    <3>2. (t + (p - 1)) % z = (h + (z - o + p - 1)) % z
      BY <1>6, <2>1, <2>3
    <3>3. d.buf[(h + (z - o + p - 1)) % z] = b.buf[(h + (z - o + p - 1)) % z]
      BY <1>4, <3>1
    <3>4. p \in 1 .. o
      BY <2>1, <2>3
    <3>5. u[p] = b.buf[(t + (p - 1)) % z]
      BY <1>2, <1>3, <3>4
    <3> DEFINE k == (t + (p - 1)) % z
               j == (h + (z - o + p - 1)) % z
    <3>6. k = j /\ d.buf[j] = b.buf[j] /\ u[p] = b.buf[k]
      BY <3>2, <3>3, <3>5
    <3> HIDE DEF k, j
    <3>7. d.buf[k] = u[p]
      BY <3>6
    <3> QED BY <3>7 DEF k
  <2>4. p > o \/ p <= o
    BY <2>1
  <2> QED BY <2>2, <2>3, <2>4
<1> QED BY <1>3, <1>5 DEF z, t, o, n, ShowsEnd

\* Writing is putting in, and drops the oldest bytes when there are too many.
LEMMA WriteContent ==
  ASSUME NEW c \in Nat, NEW b, IsBuffer(b, c), NEW s \in Seq(Bytes), NEW d, d = Write(b, s)
  PROVE  IsBuffer(d, c) /\ Content2(d) = Fifo!Overwrite(Content2(b), s, c)
<1> DEFINE z == c + 1
           t == b.tail
           o == bytes_used(b)
           n == Len(s)
           u == Content2(b) \o s
           k == Len(u)
<1>1. /\ u \in Seq(Bytes) /\ k = o + n
      /\ \A p \in 1 .. k : k <= p + c => d.buf[(t + (p - 1)) % z] = u[p]
  <2> DEFINE x == u
  <2>1. Joined(b, s, x)
    BY DEF Joined
  <2> HIDE DEF x
  <2>2. x \in Seq(Bytes) /\ Len(x) = bytes_used(b) + Len(s) /\ ShowsEnd(b, c, d, x)
    <3> HIDE DEF k, n, o, t, z, u
    <3> QED BY <2>1, Stream
  <2> QED BY <2>2 DEF x, ShowsEnd
<1> HIDE DEF u
<1>2. b \in BufRecord(c)
  BY DEF IsBuffer
<1>3. /\ z \in Nat \ {0} /\ c = z - 1 /\ t \in Nat /\ o \in 0 .. c /\ n \in Nat
      /\ b.head = (t + o) % z /\ bytes_free(b) = c - o
  <2>1. t \in 0 .. c
    BY <1>2 DEF BufRecord
  <2>2. o \in 0 .. c /\ b.head = (t + o) % z /\ bytes_free(b) = c - o
    BY <1>2, Used2
  <2> HIDE DEF t, o
  <2> QED BY <2>1, <2>2
<1>4. /\ d \in BufRecord(c) /\ d.head = (b.head + n) % z
      /\ d.tail = IF n > bytes_free(b) THEN (d.head + 1) % z ELSE t
  BY <1>2, WrittenBytes
<1> HIDE DEF z, t, o, n, k
<1>5. k \in Nat /\ k = o + n
  BY <1>1, <1>3
<1>6. d.head = (t + k) % z
  <2>1. t + o \in Nat /\ t + o + n = t + k
    BY <1>3, <1>5
  <2>2. (((t + o) % z) + n) % z = (t + o + n) % z
    BY <1>3, <2>1, ModAdd
  <2> QED BY <1>3, <1>4, <2>1, <2>2
<1>7. CASE k <= c
  <2>1. d.tail = t /\ k \in 0 .. c
    BY <1>3, <1>4, <1>5, <1>7
  <2>2. \A i \in 1 .. k : d.buf[(d.tail + (i - 1)) % z] = u[i]
    BY <1>1, <1>3, <1>5, <1>7, <2>1
  <2>3. IsBuffer(d, c) /\ Content2(d) = u
    BY <1>1, <1>4, <1>6, <2>1, <2>2, ContentIs DEF k, z
  <2> QED BY <1>5, <1>7, <2>3 DEF Fifo!Overwrite, u, k
<1>8. CASE k > c
  <2> DEFINE m == k - c
             v == SubSeq(u, m + 1, k)
  <2>1. m \in Nat /\ m + 1 \in Nat \ {0} /\ m + 1 <= k + 1 /\ k + 1 - (m + 1) = c
        /\ \A i \in 1 .. c : (m + 1) + i - 1 = m + i
    BY <1>3, <1>5, <1>8
  <2>2. v \in Seq(Bytes) /\ Len(v) = c /\ \A i \in 1 .. c : v[i] = u[m + i]
    <3> DEFINE g == m + 1
    <3>1. g \in Nat \ {0} /\ g <= k + 1 /\ k <= Len(u) /\ k \in Nat
      BY <1>5, <2>1 DEF k
    <3>3. k + 1 - g = c /\ \A i \in 1 .. c : g + i - 1 = m + i
      BY <2>1
    <3> HIDE DEF g
    <3>2. /\ SubSeq(u, g, k) \in Seq(Bytes) /\ Len(SubSeq(u, g, k)) = k + 1 - g
          /\ \A i \in 1 .. k + 1 - g : SubSeq(u, g, k)[i] = u[g + i - 1]
      BY <1>1, <3>1, Slice
    <3>4. v = SubSeq(u, g, k)
      BY DEF g
    <3> HIDE DEF m, v
    <3> QED BY <3>2, <3>3, <3>4
  <2>3. d.tail = (d.head + 1) % z
    BY <1>3, <1>4, <1>5, <1>8
  <2>4. ASSUME NEW j \in Nat PROVE (d.tail + j) % z = (t + (k + 1 + j)) % z
    <3>1. t + k \in Nat /\ t + k + 1 \in Nat /\ t + k + 1 + j = t + (k + 1 + j)
      BY <1>3, <1>5
    <3>2. (((t + k) % z) + 1) % z = (t + k + 1) % z
      BY <1>3, <3>1, ModAdd
    <3>3. (((t + k + 1) % z) + j) % z = (t + k + 1 + j) % z
      BY <1>3, <3>1, ModAdd
    <3> QED BY <1>6, <2>3, <3>1, <3>2, <3>3
  <2>5. ASSUME NEW a \in Nat PROVE (t + (a + z)) % z = (t + a) % z
    <3>1. t + a \in Nat /\ t + (a + z) = (t + a) + z
      BY <1>3
    <3> QED BY <1>3, <3>1, ModTurn
  <2>6. d.head = (d.tail + Len(v)) % z
    <3>1. k + 1 + c = k + z /\ c \in Nat
      BY <1>3, <1>5
    <3>2. (d.tail + c) % z = (t + (k + z)) % z
      BY <2>4, <3>1
    <3> QED BY <1>5, <1>6, <2>2, <2>5, <3>2
  <2>7. ASSUME NEW i \in 1 .. c PROVE d.buf[(d.tail + (i - 1)) % z] = v[i]
    <3> HIDE DEF v
    <3>1. /\ i - 1 \in Nat /\ m + i - 1 \in Nat /\ k + 1 + (i - 1) = (m + i - 1) + z
          /\ m + i \in 1 .. k /\ k <= (m + i) + c
      BY <1>3, <1>5, <1>8, <2>7
    <3> HIDE DEF m
    <3>2. (d.tail + (i - 1)) % z = (t + (m + i - 1)) % z
      <4>1. ASSUME NEW a \in Nat, NEW e \in Nat, k + 1 + e = a + z
            PROVE  (d.tail + e) % z = (t + a) % z
        <5>1. (d.tail + e) % z = (t + (k + 1 + e)) % z
          BY <2>4
        <5>2. (t + (a + z)) % z = (t + a) % z
          BY <2>5
        <5> QED BY <4>1, <5>1, <5>2
      <4>2. i - 1 \in Nat /\ m + i - 1 \in Nat /\ k + 1 + (i - 1) = (m + i - 1) + z
        BY <3>1
      <4> QED BY <4>1, <4>2
    <3> DEFINE q == m + i
    <3>3. q \in 1 .. k /\ k <= q + c /\ m + i - 1 = q - 1
      BY <2>1, <3>1
    <3> HIDE DEF q
    <3>4. d.buf[(t + (q - 1)) % z] = u[q]
      BY <1>1, <3>3
    <3>5. d.buf[(d.tail + (i - 1)) % z] = u[m + i]
      BY <3>2, <3>3, <3>4 DEF q
    <3> QED BY <2>2, <3>5
  <2> HIDE DEF v
  <2>8. Len(v) \in 0 .. c /\ \A i \in 1 .. Len(v) : d.buf[(d.tail + (i - 1)) % z] = v[i]
    BY <2>2, <2>7
  <2> HIDE DEF m
  <2>9. Fifo!Overwrite(Content2(b), s, c) = v
    BY <1>8 DEF Fifo!Overwrite, Fifo!Drop, u, k, m, v
  <2>10. IsBuffer(d, c) /\ Content2(d) = v
    BY <1>4, <2>2, <2>6, <2>8, ContentIs DEF z
  <2> QED BY <2>9, <2>10
<1> QED BY <1>3, <1>5, <1>7, <1>8

\* Consuming is dropping the oldest bytes.
LEMMA ConsumeContent ==
  ASSUME NEW c \in Nat, NEW b, IsBuffer(b, c), NEW n \in 0 .. bytes_used(b),
         NEW d, d = Consume(b, n)
  PROVE  /\ IsBuffer(d, c) /\ Content2(d) = Fifo!Drop(Content2(b), n)
         /\ Read(b, n) = SubSeq(Content2(b), 1, n) /\ Read(b, n) \in Seq(Bytes)
         /\ n \in 0 .. c /\ n <= Len(Content2(b))
<1> DEFINE z == c + 1
           t == b.tail
           o == bytes_used(b)
           w == Content2(b)
           v == SubSeq(w, n + 1, o)
<1>1. b \in BufRecord(c)
  BY DEF IsBuffer
<1>2. /\ z \in Nat \ {0} /\ c = z - 1 /\ t \in Nat /\ o \in 0 .. c /\ b.head = (t + o) % z
      /\ n \in 0 .. o
  <2>1. t \in 0 .. c
    BY <1>1 DEF BufRecord
  <2>2. o \in 0 .. c /\ b.head = (t + o) % z
    BY <1>1, Used2
  <2> HIDE DEF t
  <2> QED BY <2>1, <2>2
<1>3. /\ Read(b, n) \in Seq(Bytes) /\ Len(Read(b, n)) = n /\ w \in Seq(Bytes) /\ Len(w) = o
      /\ \A i \in 1 .. n : Read(b, n)[i] = w[i]
      /\ \A i \in 1 .. o : w[i] = b.buf[(t + (i - 1)) % z]
  BY ContentFacts
<1>4. /\ d \in BufRecord(c) /\ d.tail = (t + n) % z /\ d.head = b.head /\ d.buf = b.buf
  <2>1. /\ b.size = z /\ b = [size |-> b.size, buf |-> b.buf, head |-> b.head, tail |-> b.tail]
        /\ b.buf \in [0 .. c -> Bytes \cup {Junk}] /\ b.head \in 0 .. c
    BY <1>1 DEF BufRecord
  <2>2. d = [size |-> z, buf |-> b.buf, head |-> b.head, tail |-> (t + n) % z]
    BY <2>1 DEF Consume
  <2>3. t + n \in Nat
    BY <1>2
  <2>4. (t + n) % z \in 0 .. c
    BY <1>2, <2>3, DivMod
  <2> QED BY <2>1, <2>2, <2>4 DEF BufRecord
<1> HIDE DEF z, t, w, o
<1>5. ASSUME NEW j \in Nat PROVE (d.tail + j) % z = (t + (n + j)) % z
  <2>1. t + n \in Nat /\ t + n + j = t + (n + j)
    BY <1>2
  <2>2. (((t + n) % z) + j) % z = (t + n + j) % z
    BY <1>2, <2>1, ModAdd
  <2> QED BY <1>4, <2>1, <2>2
<1>6. v \in Seq(Bytes) /\ Len(v) = o - n /\ \A i \in 1 .. o - n : v[i] = w[n + i]
  <2> DEFINE g == n + 1
  <2>1. /\ g \in Nat \ {0} /\ g <= o + 1 /\ o <= Len(w) /\ o \in Nat /\ o + 1 - g = o - n
        /\ \A i \in 1 .. o - n : g + i - 1 = n + i
    BY <1>2, <1>3
  <2> HIDE DEF g
  <2>2. /\ SubSeq(w, g, o) \in Seq(Bytes) /\ Len(SubSeq(w, g, o)) = o + 1 - g
        /\ \A i \in 1 .. o + 1 - g : SubSeq(w, g, o)[i] = w[g + i - 1]
    BY <1>3, <2>1, Slice
  <2>3. v = SubSeq(w, g, o)
    BY DEF g
  <2> HIDE DEF v
  <2> QED BY <2>1, <2>2, <2>3
<1>7. d.head = (d.tail + (o - n)) % z
  <2>1. o - n \in Nat /\ n + (o - n) = o
    BY <1>2
  <2> QED BY <1>2, <1>4, <1>5, <2>1
<1>8. ASSUME NEW i \in 1 .. o - n PROVE d.buf[(d.tail + (i - 1)) % z] = v[i]
  <2>1. i - 1 \in Nat /\ n + (i - 1) = (n + i) - 1 /\ n + i \in 1 .. o
    BY <1>2
  <2> HIDE DEF v
  <2>2. (d.tail + (i - 1)) % z = (t + ((n + i) - 1)) % z
    BY <1>5, <2>1
  <2>3. w[n + i] = b.buf[(t + ((n + i) - 1)) % z]
    BY <1>3, <2>1
  <2> QED BY <1>4, <1>6, <2>2, <2>3
<1>9. Fifo!Drop(w, n) = v
  BY <1>3 DEF Fifo!Drop
<1> HIDE DEF v
<1>10. Len(v) \in 0 .. c /\ d.head = (d.tail + Len(v)) % z
       /\ \A i \in 1 .. Len(v) : d.buf[(d.tail + (i - 1)) % z] = v[i]
  BY <1>2, <1>6, <1>7, <1>8
<1>11. IsBuffer(d, c) /\ Content2(d) = v
  BY <1>4, <1>6, <1>10, ContentIs DEF z
<1>12. Read(b, n) = SubSeq(w, 1, n)
  <2>1. 1 \in Nat \ {0} /\ n \in Nat /\ 1 <= n + 1 /\ n <= Len(w) /\ n + 1 - 1 = n
        /\ \A i \in 1 .. n : 1 + i - 1 = i
    BY <1>2, <1>3
  <2>2. /\ SubSeq(w, 1, n) \in Seq(Bytes) /\ Len(SubSeq(w, 1, n)) = n + 1 - 1
        /\ \A i \in 1 .. n + 1 - 1 : SubSeq(w, 1, n)[i] = w[1 + i - 1]
    BY <1>3, <2>1, Slice
  <2> QED BY <1>3, <2>1, <2>2, SeqEqual
<1>13. n \in 0 .. c /\ n <= Len(w)
  BY <1>2, <1>3
<1> QED BY <1>3, <1>9, <1>11, <1>12, <1>13 DEF w

\* A buffer whose head is its tail is empty.
LEMMA EmptyContent ==
  ASSUME NEW c \in Nat, NEW b \in BufRecord(c), b.head = 0, b.tail = 0
  PROVE  IsBuffer(b, c) /\ Content2(b) = <<>>
<1> DEFINE w == <<>>
<1>1. w \in Seq(Bytes) /\ Len(w) = 0 /\ 0 \in 0 .. c /\ b.head = (b.tail + 0) % (c + 1)
  OBVIOUS
<1> HIDE DEF w
<1>2. Len(w) \in 0 .. c /\ b.head = (b.tail + Len(w)) % (c + 1)
      /\ \A i \in 1 .. Len(w) : b.buf[(b.tail + (i - 1)) % (c + 1)] = w[i]
  BY <1>1
<1>3. IsBuffer(b, c) /\ Content2(b) = w
  BY <1>1, <1>2, ContentIs
<1> QED BY <1>3 DEF w

-----------------------------------------------------------------------------
(* ring2: the buffers are FIFOs.                                            *)

Content(q) == [r \in Buffers |-> Content2(q[r])]

AreBuffers(q) ==
  /\ q = [r \in Buffers |-> q[r]]
  /\ \A r \in Buffers : IsBuffer(q[r], Capacity[r])

\* The inductive invariant: every array is a buffer, and what was copied out of
\* one is no junk.
RingInv == AreBuffers(rb) /\ taken \in Seq(Bytes)

\* What a call does to one buffer it does to its content.
LEMMA OneChanges ==
  ASSUME NEW q, AreBuffers(q), NEW r \in Buffers, NEW d, IsBuffer(d, Capacity[r]),
         NEW p, p = [q EXCEPT ![r] = d]
  PROVE  AreBuffers(p) /\ Content(p) = [Content(q) EXCEPT ![r] = Content2(d)]
<1>1. p = [x \in Buffers |-> IF x = r THEN d ELSE q[x]]
  BY DEF AreBuffers
<1>2. AreBuffers(p)
  BY <1>1 DEF AreBuffers
<1>3. Content(p) = [x \in Buffers |-> IF x = r THEN Content2(d) ELSE Content2(q[x])]
  BY <1>1 DEF Content
<1>4. [Content(q) EXCEPT ![r] = Content2(d)]
        = [x \in Buffers |-> IF x = r THEN Content2(d) ELSE Content2(q[x])]
  BY DEF Content
<1> QED BY <1>2, <1>3, <1>4

\* The same of a step.
LEMMA OneStep ==
  ASSUME RingInv, NEW r \in Buffers, NEW d, IsBuffer(d, Capacity[r]),
         rb' = [rb EXCEPT ![r] = d]
  PROVE  /\ AreBuffers(rb') /\ Content(rb') = [Content(rb) EXCEPT ![r] = Content2(d)]
         /\ Content(rb)[r] = Content2(rb[r])
<1> DEFINE p == [rb EXCEPT ![r] = d]
<1>1. p = [rb EXCEPT ![r] = d]
  OBVIOUS
<1> HIDE DEF p
<1>2. AreBuffers(rb)
  BY DEF RingInv
<1>3. AreBuffers(p) /\ Content(p) = [Content(rb) EXCEPT ![r] = Content2(d)]
  BY <1>1, <1>2, OneChanges
<1>4. Content(rb)[r] = Content2(rb[r])
  BY DEF Content
<1> QED BY <1>1, <1>3, <1>4

\* A buffer before a step, and its field in the functions of the step.
LEMMA BufferBefore ==
  ASSUME RingInv, NEW r \in Buffers
  PROVE  /\ Capacity[r] \in Nat /\ IsBuffer(rb[r], Capacity[r]) /\ rb[r] \in BufRecord(Capacity[r])
         /\ bytes_used(rb[r]) \in 0 .. Capacity[r]
         /\ \A d : [rb EXCEPT ![r] = d][r] = d
<1>1. Capacity[r] \in Nat /\ AreBuffers(rb) /\ IsBuffer(rb[r], Capacity[r])
  BY RingAssumption DEF RingInv, AreBuffers
<1>2. rb[r] \in BufRecord(Capacity[r])
  BY <1>1 DEF IsBuffer
<1>3. bytes_used(rb[r]) \in 0 .. Capacity[r]
  BY <1>1, <1>2, Used2
<1> QED BY <1>1, <1>2, <1>3 DEF AreBuffers

\* Every call that writes s to r puts s into r.
LEMMA PutStep ==
  ASSUME RingInv, NEW r \in Buffers, NEW k \in 0 .. MaxCount, NEW s \in [1 .. k -> Bytes],
         rb' = [rb EXCEPT ![r] = Write(rb[r], s)], UNCHANGED taken
  PROVE  RingInv' /\ Fifo!Next
<1>1. k \in Nat /\ s \in Seq(Bytes)
  BY RingAssumption
<1>2. Capacity[r] \in Nat /\ IsBuffer(rb[r], Capacity[r])
  BY BufferBefore
<1> DEFINE d == Write(rb[r], s)
<1>3. /\ IsBuffer(d, Capacity[r])
      /\ Content2(d) = Fifo!Overwrite(Content2(rb[r]), s, Capacity[r])
  BY <1>1, <1>2, WriteContent
<1>4. rb' = [rb EXCEPT ![r] = d]
  OBVIOUS
<1> HIDE DEF d
<1>5. /\ AreBuffers(rb') /\ Content(rb') = [Content(rb) EXCEPT ![r] = Content2(d)]
      /\ Content(rb)[r] = Content2(rb[r])
  BY <1>3, <1>4, OneStep
<1>6. Fifo!Put(r, s)
  BY <1>3, <1>5 DEF Fifo!Put, Content, Content2
<1> QED BY <1>5, <1>6 DEF RingInv, Fifo!Next

\* Every call that copies n bytes out of r takes them out of it.
LEMMA TakeStep ==
  ASSUME RingInv, NEW r \in Buffers, NEW n \in 0 .. bytes_used(rb[r]),
         rb' = [rb EXCEPT ![r] = Consume(rb[r], n)], taken' = Read(rb[r], n)
  PROVE  RingInv' /\ Fifo!Next
<1>1. Capacity[r] \in Nat /\ IsBuffer(rb[r], Capacity[r])
  BY BufferBefore
<1> DEFINE d == Consume(rb[r], n)
<1>2. /\ IsBuffer(d, Capacity[r]) /\ Content2(d) = Fifo!Drop(Content2(rb[r]), n)
      /\ taken' = SubSeq(Content2(rb[r]), 1, n) /\ taken' \in Seq(Bytes)
      /\ n \in 0 .. Capacity[r] /\ n <= Len(Content2(rb[r]))
  BY <1>1, ConsumeContent
<1>3. rb' = [rb EXCEPT ![r] = d]
  OBVIOUS
<1> HIDE DEF d
<1>4. /\ AreBuffers(rb') /\ Content(rb') = [Content(rb) EXCEPT ![r] = Content2(d)]
      /\ Content(rb)[r] = Content2(rb[r])
  BY <1>2, <1>3, OneStep
<1>5. Fifo!Take(r, n)
  BY <1>2, <1>4 DEF Fifo!Take, Content, Content2
<1> QED BY <1>2, <1>4, <1>5 DEF RingInv, Fifo!Next

\* A buffer that is made anew or reset is empty.
LEMMA ClearStep ==
  ASSUME RingInv, NEW r \in Buffers, NEW d \in BufRecord(Capacity[r]), d.head = 0, d.tail = 0,
         rb' = [rb EXCEPT ![r] = d], UNCHANGED taken
  PROVE  RingInv' /\ Fifo!Next
<1>1. Capacity[r] \in Nat
  BY BufferBefore
<1>2. IsBuffer(d, Capacity[r]) /\ Content2(d) = <<>>
  BY <1>1, EmptyContent
<1>3. AreBuffers(rb') /\ Content(rb') = [Content(rb) EXCEPT ![r] = Content2(d)]
  BY <1>2, OneStep
<1>4. Fifo!Clear(r)
  BY <1>2, <1>3 DEF Fifo!Clear, Content, Content2
<1> QED BY <1>3, <1>4 DEF RingInv, Fifo!Next

\* ringbuf_copy moves bytes from one buffer to another.
LEMMA MoveStep ==
  ASSUME RingInv, NEW dst \in Buffers, NEW src \in Buffers, dst # src,
         NEW n \in 0 .. bytes_used(rb[src]), UNCHANGED taken,
         rb' = [rb EXCEPT ![dst] = Write(rb[dst], Read(rb[src], n)),
                          ![src] = Consume(rb[src], n)]
  PROVE  RingInv' /\ Fifo!Next
<1> DEFINE s == Read(rb[src], n)
           d == Write(rb[dst], s)
           e == Consume(rb[src], n)
           p == [rb EXCEPT ![dst] = d]
           q == [p EXCEPT ![src] = e]
<1>1. /\ Capacity[src] \in Nat /\ IsBuffer(rb[src], Capacity[src])
      /\ Capacity[dst] \in Nat /\ IsBuffer(rb[dst], Capacity[dst])
  BY BufferBefore
<1>2. /\ IsBuffer(e, Capacity[src]) /\ Content2(e) = Fifo!Drop(Content2(rb[src]), n)
      /\ s = SubSeq(Content2(rb[src]), 1, n) /\ s \in Seq(Bytes)
      /\ n \in 0 .. Capacity[src] /\ n <= Len(Content2(rb[src]))
  BY <1>1, ConsumeContent
<1> HIDE DEF s
<1>3. /\ IsBuffer(d, Capacity[dst])
      /\ Content2(d) = Fifo!Overwrite(Content2(rb[dst]), s, Capacity[dst])
  BY <1>1, <1>2, WriteContent
<1> HIDE DEF d, e
<1>4. p = [rb EXCEPT ![dst] = d] /\ q = [p EXCEPT ![src] = e] /\ rb' = q
  BY DEF d, e, s
<1> HIDE DEF p, q
<1>5. AreBuffers(rb)
  BY DEF RingInv
<1>6. AreBuffers(p) /\ Content(p) = [Content(rb) EXCEPT ![dst] = Content2(d)]
  <2>1. IsBuffer(d, Capacity[dst]) /\ p = [rb EXCEPT ![dst] = d]
    BY <1>3, <1>4
  <2> QED BY <1>5, <2>1, OneChanges
<1>7. AreBuffers(q) /\ Content(q) = [Content(p) EXCEPT ![src] = Content2(e)]
  <2>1. IsBuffer(e, Capacity[src]) /\ q = [p EXCEPT ![src] = e] /\ AreBuffers(p)
    BY <1>2, <1>4, <1>6
  <2> QED BY <2>1, OneChanges
<1>8. Content(rb)[src] = Content2(rb[src]) /\ Content(rb)[dst] = Content2(rb[dst])
  BY DEF Content
<1>9. AreBuffers(rb') /\ Content(rb') = [Content(p) EXCEPT ![src] = Content2(e)]
  BY <1>4, <1>7
<1>10. Content(rb') = [Content(rb) EXCEPT
                         ![dst] = Fifo!Overwrite(@, SubSeq(Content(rb)[src], 1, n), Capacity[dst]),
                         ![src] = Fifo!Drop(@, n)]
  BY <1>2, <1>3, <1>6, <1>8, <1>9
<1>11. Fifo!Move(dst, src, n)
  BY <1>2, <1>8, <1>10 DEF Fifo!Move, Content, Content2
<1> QED BY <1>2, <1>9, <1>11 DEF RingInv, Fifo!Next

\* Every call on the buffers is a step of the FIFOs.
LEMMA RingStep ==
  ASSUME RingInv, RingNext
  PROVE  RingInv' /\ Fifo!Next
<1>1. ASSUME NEW r \in Buffers, NEW a, NEW k, a \in Nat, k \in Nat
      PROVE  Least(a, k) \in 0 .. a /\ Least(a, k) \in 0 .. k
  BY <1>1 DEF Least
<1>2. ASSUME NEW r \in Buffers
      PROVE  /\ rb[r].size - rb[r].head \in Nat /\ rb[r].size - rb[r].tail \in Nat
             /\ rb[r].size \in Nat /\ bytes_used(rb[r]) \in Nat /\ MaxCount \in Nat
  <2>1. rb[r].size = Capacity[r] + 1 /\ rb[r].head \in 0 .. Capacity[r]
        /\ rb[r].tail \in 0 .. Capacity[r] /\ Capacity[r] \in Nat
    BY BufferBefore DEF BufRecord
  <2>2. bytes_used(rb[r]) \in Nat
    BY BufferBefore
  <2> QED BY <2>1, <2>2, RingAssumption
<1>3. ASSUME NEW r \in Buffers, Renew(r) \/ ringbuf_reset(r) PROVE RingInv' /\ Fifo!Next
  <2>1. Capacity[r] \in Nat /\ rb[r] \in BufRecord(Capacity[r])
    BY BufferBefore
  <2>2. CASE Renew(r)
    <3>1. New(Capacity[r]) \in BufRecord(Capacity[r])
      BY <2>1 DEF New, BufRecord
    <3>2. New(Capacity[r]).head = 0 /\ New(Capacity[r]).tail = 0
      BY DEF New
    <3> QED BY <2>2, <3>1, <3>2, ClearStep DEF Renew
  <2>3. CASE ringbuf_reset(r)
    <3> DEFINE d == [rb[r] EXCEPT !.head = 0, !.tail = 0]
    <3>1. d \in BufRecord(Capacity[r]) /\ d.head = 0 /\ d.tail = 0
      <4> DEFINE c == Capacity[r]
                 b == rb[r]
      <4>1. c \in Nat /\ b \in BufRecord(c) /\ d = [b EXCEPT !.head = 0, !.tail = 0]
        BY <2>1
      <4> HIDE DEF b, c, d
      <4>2. b.size = c + 1 /\ b.buf \in [0 .. c -> Bytes \cup {Junk}] /\ 0 \in 0 .. c
        BY <4>1 DEF BufRecord
      <4>3. d = [size |-> b.size, buf |-> b.buf, head |-> 0, tail |-> 0]
        BY <4>1 DEF BufRecord
      <4>4. d \in BufRecord(c) /\ d.head = 0 /\ d.tail = 0
        BY <4>2, <4>3 DEF BufRecord
      <4> QED BY <4>4 DEF c
    <3>2. rb' = [rb EXCEPT ![r] = d] /\ UNCHANGED taken
      BY <2>3 DEF ringbuf_reset, RingInv, AreBuffers
    <3> HIDE DEF d
    <3> QED BY <3>1, <3>2, ClearStep
  <2> QED BY <1>3, <2>2, <2>3
<1>4. ASSUME NEW r \in Buffers, ringbuf_memset(r) PROVE RingInv' /\ Fifo!Next
  <2>1. PICK c \in Bytes, len \in 0 .. MaxCount :
          rb' = [rb EXCEPT ![r] = Write(rb[r], [i \in 1 .. MemsetCount(rb[r], len) |-> c])]
    BY <1>4 DEF ringbuf_memset
  <2> DEFINE k == MemsetCount(rb[r], len)
             s == [i \in 1 .. k |-> c]
  <2>2. k \in 0 .. MaxCount
    BY <1>2 DEF MemsetCount, Least
  <2>3. s \in [1 .. k -> Bytes] /\ rb' = [rb EXCEPT ![r] = Write(rb[r], s)]
    BY <2>1
  <2>4. UNCHANGED taken
    BY <1>4 DEF ringbuf_memset
  <2> HIDE DEF s, k
  <2> QED BY <2>2, <2>3, <2>4, PutStep
<1>5. ASSUME NEW r \in Buffers, ringbuf_memcpy_into(r) PROVE RingInv' /\ Fifo!Next
  <2>1. PICK s \in Strings(MaxCount) : rb' = [rb EXCEPT ![r] = Write(rb[r], s)]
    BY <1>5 DEF ringbuf_memcpy_into
  <2>2. PICK k \in 0 .. MaxCount : s \in [1 .. k -> Bytes]
    BY DEF Strings
  <2>3. UNCHANGED taken
    BY <1>5 DEF ringbuf_memcpy_into
  <2> QED BY <2>1, <2>2, <2>3, PutStep
<1>6. ASSUME NEW r \in Buffers, ringbuf_read(r) PROVE RingInv' /\ Fifo!Next
  <2>1. PICK count \in 0 .. MaxCount :
          \E s \in Strings(ReadCount(rb[r], count)) : rb' = [rb EXCEPT ![r] = Write(rb[r], s)]
    BY <1>6 DEF ringbuf_read
  <2>2. PICK s \in Strings(ReadCount(rb[r], count)) : rb' = [rb EXCEPT ![r] = Write(rb[r], s)]
    BY <2>1
  <2>3. PICK k \in 0 .. ReadCount(rb[r], count) : s \in [1 .. k -> Bytes]
    BY DEF Strings
  <2>4. k \in 0 .. MaxCount
    BY <1>2 DEF ReadCount, Least
  <2>5. UNCHANGED taken
    BY <1>6 DEF ringbuf_read
  <2> QED BY <2>2, <2>3, <2>4, <2>5, PutStep
<1>7. ASSUME NEW r \in Buffers, ringbuf_memcpy_from(r) PROVE RingInv' /\ Fifo!Next
  <2>1. PICK n \in 0 .. Least(MaxCount, bytes_used(rb[r])) :
          taken' = Read(rb[r], n) /\ rb' = [rb EXCEPT ![r] = Consume(rb[r], n)]
    BY <1>7 DEF ringbuf_memcpy_from
  <2>2. n \in 0 .. bytes_used(rb[r])
    BY <1>2 DEF Least
  <2> QED BY <2>1, <2>2, TakeStep
<1>8. ASSUME NEW r \in Buffers, ringbuf_write(r) PROVE RingInv' /\ Fifo!Next
  <2>1. PICK count \in 0 .. MaxCount :
          \E n \in 1 .. WriteCount(rb[r], count) :
            taken' = Read(rb[r], n) /\ rb' = [rb EXCEPT ![r] = Consume(rb[r], n)]
    BY <1>8 DEF ringbuf_write
  <2>2. PICK n \in 1 .. WriteCount(rb[r], count) :
          taken' = Read(rb[r], n) /\ rb' = [rb EXCEPT ![r] = Consume(rb[r], n)]
    BY <2>1
  <2>3. n \in 0 .. bytes_used(rb[r])
    BY <1>2 DEF WriteCount, Least
  <2> QED BY <2>2, <2>3, TakeStep
<1>9. ASSUME NEW dst \in Buffers, NEW src \in Buffers, dst # src, ringbuf_copy(dst, src)
      PROVE  RingInv' /\ Fifo!Next
  <2>1. PICK n \in 0 .. Least(MaxCount, bytes_used(rb[src])) :
          rb' = [rb EXCEPT ![dst] = Write(rb[dst], Read(rb[src], n)),
                           ![src] = Consume(rb[src], n)]
    BY <1>9 DEF ringbuf_copy, RingInv, AreBuffers
  <2>2. n \in 0 .. bytes_used(rb[src])
    BY <1>2 DEF Least
  <2>3. UNCHANGED taken
    BY <1>9 DEF ringbuf_copy
  <2> QED BY <1>9, <2>1, <2>2, <2>3, MoveStep
<1> QED BY <1>3, <1>4, <1>5, <1>6, <1>7, <1>8, <1>9 DEF RingNext

\* Each buffer is a buffer in the initial state.
LEMMA RingStart ==
  ASSUME RingInit
  PROVE  RingInv /\ Fifo!Init
<1>1. ASSUME NEW r \in Buffers
      PROVE  IsBuffer(rb[r], Capacity[r]) /\ Content2(rb[r]) = <<>>
  <2>1. rb[r] = New(Capacity[r]) /\ Capacity[r] \in Nat
    BY RingAssumption DEF RingInit
  <2>2. rb[r] \in BufRecord(Capacity[r]) /\ rb[r].head = 0 /\ rb[r].tail = 0
    BY <2>1 DEF New, BufRecord
  <2> QED BY <2>1, <2>2, EmptyContent
<1>2. rb = [r \in Buffers |-> rb[r]] /\ taken = <<>>
  BY DEF RingInit
<1>3. RingInv
  BY <1>1, <1>2 DEF RingInv, AreBuffers
<1>4. Content(rb) = [r \in Buffers |-> <<>>]
  BY <1>1 DEF Content
<1> QED BY <1>2, <1>3, <1>4 DEF Fifo!Init, Content, Content2

\* The invariant holds in every state.
LEMMA RingInvariance == RingSpec => []RingInv
<1>1. RingInit => RingInv
  BY RingStart
<1>2. RingInv /\ [RingNext]_ringVars => RingInv'
  <2> SUFFICES ASSUME RingInv, [RingNext]_ringVars PROVE RingInv'
    OBVIOUS
  <2>1. CASE RingNext
    BY <2>1, RingStep
  <2>2. CASE UNCHANGED ringVars
    BY <2>2 DEF ringVars, RingInv
  <2> QED BY <2>1, <2>2
<1> QED BY <1>1, <1>2, PTL DEF RingSpec

\* The positions of every ring buffer stay in its array, and no call leaves a byte
\* in it that was never put there (ringbuf.c 144-172, 196-330), for any capacities.
THEOREM RingPositions == RingSpec => []RingTypeOK
<1>1. RingInv => RingTypeOK
  <2> SUFFICES ASSUME RingInv PROVE RingTypeOK
    OBVIOUS
  <2>1. ASSUME NEW r \in Buffers
        PROVE  /\ rb[r].size = Capacity[r] + 1
               /\ rb[r].buf \in [Indices(rb[r]) -> Bytes \cup {Junk}]
               /\ rb[r].head \in Indices(rb[r]) /\ rb[r].tail \in Indices(rb[r])
    <3>1. rb[r] \in BufRecord(Capacity[r]) /\ Capacity[r] \in Nat
      BY BufferBefore
    <3>2. rb[r].size = Capacity[r] + 1 /\ Indices(rb[r]) = 0 .. Capacity[r]
      BY <3>1 DEF BufRecord, Indices
    <3> QED BY <3>1, <3>2 DEF BufRecord
  <2>2. ASSUME NEW r \in Buffers PROVE Read(rb[r], bytes_used(rb[r])) \in Seq(Bytes)
    BY DEF RingInv, AreBuffers, IsBuffer, Content2
  <2> QED BY <2>1, <2>2 DEF RingTypeOK, RingInv
<1> QED BY <1>1, RingInvariance, PTL

\* The ring buffers are FIFOs (ringbuf.h 120-241), for any capacities: every byte
\* comes out once and in order whatever the head and the tail were, and too many
\* bytes drop the oldest ones only.
THEOREM RingImplementsFifo == RingSpec => FifoSpec
<1>1. RingInit => Fifo!Init
  BY RingStart
<1>2. RingInv /\ [RingNext]_ringVars
        => [Fifo!Next]_<<[r \in Buffers |-> Read(rb[r], bytes_used(rb[r]))], taken>>
  <2>1. ASSUME RingInv, RingNext PROVE Fifo!Next
    BY <2>1, RingStep
  <2>2. ASSUME UNCHANGED ringVars
        PROVE  UNCHANGED <<[r \in Buffers |-> Read(rb[r], bytes_used(rb[r]))], taken>>
    BY <2>2 DEF ringVars
  <2> QED BY <2>1, <2>2
<1> QED BY <1>1, <1>2, RingInvariance, PTL DEF RingSpec, FifoSpec, Fifo!Spec

-----------------------------------------------------------------------------
(* ring2: the search.                                                       *)

\* The least number of a set.
FirstOf(T) == CHOOSE i \in T : \A j \in T : i <= j

\* It is in the set, and no other number is least.
LEMMA FirstIs ==
  ASSUME NEW T, T \subseteq Nat, T # {}
  PROVE  /\ FirstOf(T) \in T /\ \A j \in T : FirstOf(T) <= j
         /\ \A x \in T : (\A j \in T : x <= j) => x = FirstOf(T)
<1>1. \E x \in T : \A y \in T : x <= y
  BY LeastNat
<1>2. FirstOf(T) \in T /\ \A j \in T : FirstOf(T) <= j
  BY <1>1, Zenon DEF FirstOf
<1>3. ASSUME NEW x \in T, \A j \in T : x <= j PROVE x = FirstOf(T)
  <2>1. x <= FirstOf(T) /\ FirstOf(T) <= x
    BY <1>2, <1>3
  <2>2. x \in Nat /\ FirstOf(T) \in Nat
    BY <1>2
  <2> HIDE DEF FirstOf
  <2> QED BY <2>1, <2>2
<1> QED BY <1>2, <1>3

\* Where c is in the content from an offset on, and what ringbuf_findchr is to return.
Hits(b, c, o) == {i \in o .. bytes_used(b) - 1 : b.buf[(b.tail + i) % b.size] = c}

FirstHit(b, c, o) == IF Hits(b, c, o) = {} THEN bytes_used(b) ELSE FirstOf(Hits(b, c, o))

\* The piece that one memchr searches, and what it finds.
PieceStart(b, o) == (b.tail + o) % b.size
PieceLen(b, o)   == Least(b.size - PieceStart(b, o), bytes_used(b) - o)
Found(b, c, o)   == {i \in 0 .. PieceLen(b, o) - 1 : b.buf[PieceStart(b, o) + i] = c}

\* One call of ringbuf_findchr: what f returns for the rest.
FindBody(b, c, f, o) ==
  IF o >= bytes_used(b) THEN bytes_used(b)
  ELSE IF Found(b, c, o) # {} THEN o + FirstOf(Found(b, c, o)) ELSE f[o + PieceLen(b, o)]

\* The piece is of one byte at least, and its bytes lie one after the other.
LEMMA Piece ==
  ASSUME NEW k \in Nat, NEW b \in BufRecord(k), NEW o \in Nat, o < bytes_used(b)
  PROVE  /\ PieceLen(b, o) \in 1 .. bytes_used(b) - o
         /\ \A i \in 0 .. PieceLen(b, o) - 1 :
              PieceStart(b, o) + i = (b.tail + (o + i)) % b.size
<1> DEFINE z == k + 1
           t == b.tail
           u == bytes_used(b)
           s == PieceStart(b, o)
           n == PieceLen(b, o)
<1>1. z \in Nat \ {0} /\ t \in Nat /\ b.size = z /\ u \in Nat
  BY Used2 DEF BufRecord
<1>2. s = (t + o) % z /\ n = Least(z - s, u - o)
  BY <1>1 DEF PieceStart, PieceLen
<1> HIDE DEF z, t, u, s, n
<1>3. s \in 0 .. z - 1
  BY <1>1, <1>2, DivMod
<1>4. o < u
  BY DEF u
<1>5. n \in 1 .. u - o /\ n <= z - s
  BY <1>1, <1>2, <1>3, <1>4 DEF Least
<1>6. ASSUME NEW i \in 0 .. n - 1 PROVE s + i = (t + (o + i)) % z
  <2>1. i \in Nat /\ s + i \in 0 .. z - 1 /\ t + o \in Nat
    BY <1>1, <1>3, <1>5
  <2>2. (s + i) % z = ((t + o) + i) % z
    BY <1>1, <1>2, <2>1, ModAdd
  <2>3. (s + i) % z = s + i
    BY <1>1, <2>1
  <2>4. (t + o) + i = t + (o + i)
    BY <1>1, <2>1
  <2> QED BY <2>2, <2>3, <2>4
<1>7. n \in 1 .. u - o /\ \A i \in 0 .. n - 1 : s + i = (t + (o + i)) % b.size
  BY <1>1, <1>5, <1>6
<1> QED BY <1>7 DEF s, n, t, u

\* The first one of a piece is the first one of all, and with none in the piece
\* it is the first one after it.
LEMMA SearchOn ==
  ASSUME NEW k \in Nat, NEW b \in BufRecord(k), NEW c, NEW o \in Nat, o < bytes_used(b)
  PROVE  /\ Found(b, c, o) # {} => FirstHit(b, c, o) = o + FirstOf(Found(b, c, o))
         /\ Found(b, c, o) = {} => FirstHit(b, c, o) = FirstHit(b, c, o + PieceLen(b, o))
<1> DEFINE n == PieceLen(b, o)
           u == bytes_used(b)
           F == Found(b, c, o)
           H == Hits(b, c, o)
<1>1. n \in 1 .. u - o /\ u \in Nat
  BY Piece, Used2
<1>2. \A i \in 0 .. n - 1 : i \in F <=> o + i \in H
  <2>1. ASSUME NEW i \in 0 .. n - 1
        PROVE  /\ PieceStart(b, o) + i = (b.tail + (o + i)) % b.size
               /\ o + i \in o .. u - 1
    BY <1>1, Piece
  <2> HIDE DEF n, u
  <2> QED BY <2>1 DEF Found, Hits, n, u
<1>3. F \subseteq 0 .. n - 1 /\ H \subseteq o .. u - 1
  BY DEF Found, Hits
<1>4. Hits(b, c, o + n) = {i \in H : i >= o + n}
  BY <1>1 DEF Hits
<1>5. FirstHit(b, c, o) = (IF H = {} THEN u ELSE FirstOf(H))
  BY DEF FirstHit
<1>6. FirstHit(b, c, o + n)
        = (IF Hits(b, c, o + n) = {} THEN u ELSE FirstOf(Hits(b, c, o + n)))
  BY DEF FirstHit
<1> HIDE DEF n, u, F, H
<1>7. CASE F # {}
  <2>1. F \subseteq Nat /\ H \subseteq Nat
    BY <1>1, <1>3
  <2>2. PICK m \in F : m = FirstOf(F) /\ \A j \in F : m <= j
    BY <1>7, <2>1, FirstIs
  <2>3. m \in 0 .. n - 1 /\ o + m \in H
    BY <1>2, <1>3
  <2>4. ASSUME NEW h \in H PROVE o + m <= h
    <3>1. h \in o .. u - 1
      BY <1>3
    <3>2. CASE h - o \in 0 .. n - 1
      <4>1. o + (h - o) = h
        BY <3>1
      <4>2. h - o \in F
        BY <1>2, <3>2, <4>1
      <4> QED BY <2>2, <2>3, <3>1, <4>2
    <3>3. CASE h - o \notin 0 .. n - 1
      BY <1>1, <2>3, <3>1, <3>3
    <3> QED BY <3>2, <3>3
  <2>5. o + m = FirstOf(H)
    BY <2>1, <2>3, <2>4, FirstIs
  <2> QED BY <1>5, <1>7, <2>2, <2>3, <2>5 DEF F
<1>8. CASE F = {}
  <2>1. ASSUME NEW h \in H PROVE h >= o + n
    <3>1. h \in o .. u - 1 /\ o + (h - o) = h
      BY <1>1, <1>3
    <3>2. h - o \notin 0 .. n - 1
      BY <1>2, <1>8, <3>1
    <3> QED BY <1>1, <3>1, <3>2
  <2>2. Hits(b, c, o + n) = H
    BY <1>4, <2>1
  <2> QED BY <1>5, <1>6, <1>8, <2>2 DEF F, n
<1> QED BY <1>7, <1>8 DEF F

\* At the end of the content nothing is found.
LEMMA NoHitAfterEnd ==
  ASSUME NEW k \in Nat, NEW b \in BufRecord(k), NEW c, NEW o \in Nat, o >= bytes_used(b)
  PROVE  FirstHit(b, c, o) = bytes_used(b)
<1>1. Hits(b, c, o) = {}
  BY Used2 DEF Hits
<1> QED BY <1>1 DEF FirstHit

\* ringbuf_findchr returns the first place from the offset on that has c, and
\* bytes_used when there is none (least counterexample, in the distance to the end).
LEMMA FindchrReturns ==
  ASSUME NEW k \in Nat, NEW b \in BufRecord(k), NEW c, NEW offset \in Nat
  PROVE  ringbuf_findchr(b, c, offset) = FirstHit(b, c, offset)
<1> DEFINE find == CHOOSE f : f = [o \in Nat |-> FindBody(b, c, f, o)]
           u == bytes_used(b)
<1>1. ringbuf_findchr(b, c, offset) = find[offset]
  BY Zenon DEF ringbuf_findchr, FindBody, Found, PieceLen, PieceStart, FirstOf
<1>2. u \in Nat
  BY Used2
<1>3. \A o \in Nat : o < u => PieceLen(b, o) \in 1 .. u - o
  BY Piece
<1>4. ASSUME NEW f, NEW o \in Nat,
             o < u => f[o + PieceLen(b, o)] = FirstHit(b, c, o + PieceLen(b, o))
      PROVE  FindBody(b, c, f, o) = FirstHit(b, c, o)
  <2>1. CASE o >= u
    BY <2>1, NoHitAfterEnd DEF FindBody
  <2>2. CASE o < u
    BY <1>2, <1>4, <2>2, SearchOn DEF FindBody
  <2> QED BY <1>2, <2>1, <2>2
<1> HIDE DEF u
<1>5. find = [o \in Nat |-> FindBody(b, c, find, o)]
  <2> DEFINE g == [o \in Nat |-> FirstHit(b, c, o)]
  <2>1. ASSUME NEW o \in Nat PROVE FindBody(b, c, g, o) = FirstHit(b, c, o)
    <3>1. o < u => o + PieceLen(b, o) \in Nat
      BY <1>2, <1>3
    <3>2. o < u => g[o + PieceLen(b, o)] = FirstHit(b, c, o + PieceLen(b, o))
      BY <3>1
    <3> HIDE DEF g
    <3> QED BY <1>4, <3>2
  <2>2. g = [o \in Nat |-> FindBody(b, c, g, o)]
    BY <2>1
  <2> HIDE DEF g
  <2>3. \E f : f = [o \in Nat |-> FindBody(b, c, f, o)]
    BY <2>2
  <2> QED BY <2>3, Zenon
<1> HIDE DEF find
<1>6. \A o \in Nat : find[o] = FindBody(b, c, find, o)
  BY <1>5
<1> DEFINE Wrong == {d \in Nat : d <= u /\ find[u - d] # FirstHit(b, c, u - d)}
<1>7. Wrong = {}
  <2>1. SUFFICES ASSUME Wrong # {} PROVE FALSE
    OBVIOUS
  <2>2. PICK d \in Wrong : \A e \in Wrong : d <= e
    BY <2>1, LeastNat
  <2>3. PICK o \in Nat : o = u - d /\ d \in Nat /\ d <= u /\ find[o] # FirstHit(b, c, o)
    BY <1>2
  <2>4. ASSUME o < u
        PROVE  find[o + PieceLen(b, o)] = FirstHit(b, c, o + PieceLen(b, o))
    <3>1. PICK n \in 1 .. u - o : n = PieceLen(b, o)
      BY <1>3, <2>4
    <3>2. d - n \in Nat /\ d - n <= u /\ ~(d <= d - n) /\ u - (d - n) = o + n
      BY <1>2, <2>3, <3>1
    <3>3. d - n \notin Wrong
      BY <2>2, <3>2
    <3>4. find[o + n] = FirstHit(b, c, o + n)
      BY <3>2, <3>3
    <3> QED BY <3>1, <3>4
  <2>5. FindBody(b, c, find, o) = FirstHit(b, c, o)
    BY <1>4, <2>4
  <2> QED BY <1>6, <2>3, <2>5
<1>8. CASE offset >= u
  <2>1. FindBody(b, c, find, offset) = FirstHit(b, c, offset)
    BY <1>2, <1>4, <1>8
  <2> QED BY <1>1, <1>6, <2>1
<1>9. CASE offset < u
  <2>1. u - offset \in Nat /\ u - offset <= u /\ u - (u - offset) = offset
    BY <1>2, <1>9
  <2>2. find[offset] = FirstHit(b, c, offset)
    BY <1>7, <2>1
  <2> QED BY <1>1, <2>2
<1> QED BY <1>2, <1>8, <1>9

\* The search of every buffer finds the first byte at or after the offset
\* (ringbuf.c 155-172), for any capacity and wherever the content lies.
THEOREM SearchFindsFirst == RingSpec => []FindchrFindsFirst
<1>1. RingInv => FindchrFindsFirst
  <2> SUFFICES ASSUME RingInv, NEW r \in Buffers, NEW c \in Bytes, NEW offset \in 0 .. MaxCount
               PROVE  LET used    == bytes_used(rb[r])
                          content == Read(rb[r], used)
                          at      == {i \in offset .. used - 1 : content[i + 1] = c}
                          result  == ringbuf_findchr(rb[r], c, offset)
                      IN  IF at = {} THEN result = used
                          ELSE result \in at /\ \A i \in at : result <= i
    BY DEF FindchrFindsFirst
  <2> DEFINE b == rb[r]
             u == bytes_used(b)
             at == {i \in offset .. u - 1 : Read(b, u)[i + 1] = c}
  <2>1. PICK k \in Nat : b \in BufRecord(k) /\ u \in Nat /\ b.tail \in Nat /\ b.size = k + 1
    <3>1. Capacity[r] \in Nat /\ b \in BufRecord(Capacity[r]) /\ u \in 0 .. Capacity[r]
      BY BufferBefore
    <3>2. b.tail \in 0 .. Capacity[r] /\ b.size = Capacity[r] + 1
      BY <3>1 DEF BufRecord
    <3>3. u \in Nat /\ b.tail \in Nat
      BY <3>1, <3>2
    <3> HIDE DEF b, u
    <3> QED BY <3>1, <3>2, <3>3
  <2>2. offset \in Nat
    BY RingAssumption
  <2>3. ASSUME NEW i \in offset .. u - 1
        PROVE  Read(b, u)[i + 1] = b.buf[(b.tail + i) % b.size]
    <3>1. i + 1 \in 1 .. u /\ b.tail + (i + 1) - 1 = b.tail + i
      BY <2>1
    <3> QED BY <3>1 DEF Read
  <2>4. at = Hits(b, c, offset)
    BY <2>3 DEF Hits
  <2>5. ringbuf_findchr(b, c, offset) = FirstHit(b, c, offset)
    BY <2>1, <2>2, FindchrReturns
  <2>6. at \subseteq Nat
    BY <2>2
  <2> HIDE DEF at, u, b
  <2>7. at # {} => FirstOf(at) \in at /\ \A i \in at : FirstOf(at) <= i
    BY <2>6, FirstIs
  <2>8. IF at = {} THEN ringbuf_findchr(b, c, offset) = u
        ELSE /\ ringbuf_findchr(b, c, offset) \in at
             /\ \A i \in at : ringbuf_findchr(b, c, offset) <= i
    BY <2>4, <2>5, <2>7 DEF FirstHit, u
  <2> QED BY <2>8, Zenon DEF at, u, b
<1> QED BY <1>1, RingInvariance, PTL

\* The three parts together, for any sizes of ring1 and ring2.
THEOREM RingsKeepWhatTheyHold == RingsSpec => []RingsInv
BY RingPositions, SearchFindsFirst, Ring1Keeps, PTL DEF RingsSpec, RingsInv
================================================================================
