----------------------------- MODULE SigSlotProofs -----------------------------
(***************************************************************************)
(* Proofs about SigSlot for any threads, signals, objects and connections: *)
(* what holds of the library for threads that use it at the same time.     *)
(*                                                                         *)
(* The invariant says for every step of an operation which of the two      *)
(* sides of a connection knows of the other.  A thread that is between the *)
(* change of one side and that of the other still has the mutex of one of  *)
(* them, so each disagreement has a thread that will end it, or the pair   *)
(* of a signal and an object is in doubled.                                *)
(***************************************************************************)
EXTENDS SigSlot, FiniteSetTheorems, SequenceTheorems, TLAPS

SigOps == {"connect", "disconnect", "clear", "emit", "slot"}
Lives  == {"none", "live", "dying", "dead"}

Works  == [op : SigOps \cup {"idle", "leave"}, sig : Signals \cup {"none"},
           recv : Receivers \cup {"none"}, dies : BOOLEAN,
           it : Connections0 \cup {End}, itNext : Connections0 \cup {End},
           rest : SUBSET Signals]

\* Everything has its type.
SigTypeOK ==
  /\ m_connected_slots \in [Signals -> Seq(Connections0)]
  /\ m_senders \in [Receivers -> SUBSET Signals]
  /\ life \in [Signals \cup Receivers -> Lives]
  /\ holder \in [Signals \cup Receivers -> SigThreads \cup {"none"}]
  /\ doing \in [SigThreads -> Works]
  /\ doubled \subseteq Signals \X Receivers

\* Thread t is inside of an operation of signal s, or of object o.
OnSignal(t, s) == doing[t].op \in SigOps /\ doing[t].sig = s
OnObject(t, o) == doing[t].op = "leave" /\ doing[t].recv = o

\* A mutex is held by the one thread that is inside of its owner.
Locking ==
  /\ \A t \in SigThreads :
       /\ doing[t].op \in SigOps => doing[t].sig \in Signals
       /\ doing[t].op \in {"connect", "disconnect", "leave"} => doing[t].recv \in Receivers
  /\ \A t \in SigThreads, s \in Signals : holder[s] = t <=> OnSignal(t, s)
  /\ \A t \in SigThreads, o \in Receivers : holder[o] = t <=> OnObject(t, o)
  /\ \A t \in SigThreads : doing[t].op = "idle" => doing[t] = Idle

\* No connection is in a list twice.
Apart(conns) == \A i, j \in DOMAIN conns : conns[i] = conns[j] => i = j
NoTwins == \A s \in Signals : Apart(m_connected_slots[s])

\* Who is used is alive: what is being connected or disconnected, and what leaves.
\* A signal or an object that was not made yet has no connections.
Living ==
  /\ \A t \in SigThreads :
       /\ doing[t].op \in {"connect", "disconnect"} => life[doing[t].recv] = "live"
       /\ doing[t].op = "leave" =>
            life[doing[t].recv] = (IF doing[t].dies THEN "dying" ELSE "live")
  /\ \A s \in Signals : \A i \in DOMAIN m_connected_slots[s] :
       life[s] # "none" /\ life[m_connected_slots[s][i].dest] # "none"

\* disconnect_all of s has told the object of the i-th connection, and freed that.
Passed(s, i) ==
  \E t \in SigThreads :
    /\ doing[t].op = "clear" /\ doing[t].sig = s
    /\ \/ doing[t].it = End
       \/ \E j \in DOMAIN m_connected_slots[s] : m_connected_slots[s][j] = doing[t].it /\ i < j

\* Object o is being disconnected, and signal s has removed it.
HasLeft(s, o) == \E t \in SigThreads : OnObject(t, o) /\ s \notin doing[t].rest

\* One of the two sides is about to follow the other.
Connecting(s, o) ==
  \E t \in SigThreads : doing[t].op = "connect" /\ doing[t].sig = s /\ doing[t].recv = o
Disconnecting(s, o) ==
  \E t \in SigThreads : doing[t].op = "disconnect" /\ doing[t].sig = s /\ doing[t].recv = o

\* While a signal tells an object of the end of its first connection, another
\* one is counted in doubled; while it tells of a new connection, that is there.
OneSideFirst ==
  \A t \in SigThreads :
    /\ doing[t].op = "connect" => Connected(doing[t].sig, doing[t].recv)
    /\ doing[t].op = "disconnect" /\ Connected(doing[t].sig, doing[t].recv) =>
         <<doing[t].sig, doing[t].recv>> \in doubled

\* What the object knows of is connected.
KnownIsConnected(s) ==
  \A o \in Receivers :
    s \in m_senders[o] => Connected(s, o) \/ Disconnecting(s, o) \/ HasLeft(s, o)

\* What is connected and not freed is known by the object, and that is not destroyed.
Known(s, o) == \/ <<s, o>> \in doubled \/ Connecting(s, o)
               \/ s \in m_senders[o] /\ ~HasLeft(s, o) /\ life[o] # "dead"
ConnectedIsKnown(s) ==
  \A i \in DOMAIN m_connected_slots[s] :
    LET o == m_connected_slots[s][i].dest
    IN  IF Passed(s, i) THEN s \notin m_senders[o] ELSE Known(s, o)

Sides == OneSideFirst /\ \A s \in Signals : KnownIsConnected(s) /\ ConnectedIsKnown(s)

SigInd ==
  /\ SigTypeOK /\ Locking /\ NoTwins /\ Living /\ EmissionKeepsItsPlace /\ Sides

-----------------------------------------------------------------------------
(* Lists.                                                                  *)

\* What a list has at some of its places: each of them once, and nothing else.
IsPart(q, conns, P) ==
  /\ q \in Seq(Connections0)
  /\ \A n \in DOMAIN q : \E i \in P : q[n] = conns[i]
  /\ \A i \in P : \E n \in DOMAIN q : q[n] = conns[i]
  /\ Apart(conns) => Apart(q)

LEMMA AtPlacesFacts ==
  ASSUME NEW conns \in Seq(Connections0), NEW P \in SUBSET DOMAIN conns
  PROVE  IsPart(AtPlaces(conns, P), conns, P)
<1> DEFINE UpTo(i) == {k \in P : k <= i}
           c == Cardinality(P)
           rank == [i \in P |-> Cardinality(UpTo(i))]
           q == AtPlaces(conns, P)
<1>1. Len(conns) \in Nat /\ DOMAIN conns = 1 .. Len(conns) /\ P \subseteq 1 .. Len(conns)
  OBVIOUS
<1>2. IsFiniteSet(P) /\ c \in Nat
  <2>1. IsFiniteSet(1 .. Len(conns))
    BY <1>1, FS_Interval
  <2> QED BY <1>1, <2>1, FS_Subset, FS_CardinalityType
<1>3. ASSUME NEW i \in P PROVE IsFiniteSet(UpTo(i)) /\ rank[i] \in 1 .. c
  <2>1. UpTo(i) \in SUBSET P /\ i \in UpTo(i)
    BY <1>1
  <2>2. IsFiniteSet(UpTo(i)) /\ Cardinality(UpTo(i)) <= c
    BY <1>2, <2>1, FS_Subset
  <2>3. Cardinality(UpTo(i)) \in Nat /\ Cardinality(UpTo(i)) # 0
    BY <2>1, <2>2, FS_CardinalityType, FS_EmptySet
  <2> QED BY <1>2, <2>2, <2>3
<1>4. ASSUME NEW i \in P, NEW j \in P, rank[i] = rank[j] PROVE i = j
  <2>1. ASSUME NEW a \in P, NEW b \in P, a < b PROVE rank[a] # rank[b]
    <3>1. UpTo(a) \in SUBSET UpTo(b) /\ b \in UpTo(b) /\ b \notin UpTo(a)
      BY <1>1, <2>1
    <3>2. rank[a] = Cardinality(UpTo(a)) /\ rank[b] = Cardinality(UpTo(b))
      BY <2>1
    <3>3. IsFiniteSet(UpTo(b)) /\ UpTo(a) # UpTo(b)
      BY <1>3, <3>1
    <3> HIDE DEF UpTo, rank
    <3> QED BY <3>1, <3>2, <3>3, FS_Subset
  <2>2. i \in Nat /\ j \in Nat
    BY <1>1
  <2> HIDE DEF rank
  <2> QED BY <1>4, <2>1, <2>2
<1>5. \A n \in 1 .. c : \E i \in P : rank[i] = n
  <2> HIDE DEF rank, c
  <2>1. rank \in Injection(P, 1 .. c)
    BY <1>3, <1>4 DEF rank, Injection, IsInjective
  <2>2. IsFiniteSet(1 .. c) /\ Cardinality(1 .. c) = c
    BY <1>2, FS_Interval
  <2>3. rank \in Surjection(P, 1 .. c)
    BY <2>1, <2>2, FS_Injection DEF c
  <2> QED BY <2>3 DEF Surjection
<1> DEFINE place(n) == CHOOSE i \in P : Cardinality({k \in P : k <= i}) = n
<1>6. \A n \in 1 .. c : place(n) \in P /\ rank[place(n)] = n
  BY <1>5
<1>7. q = [n \in 1 .. c |-> conns[place(n)]]
  BY DEF AtPlaces
<1> HIDE DEF place, rank, c
<1> HIDE DEF q
<1>8. \A n \in 1 .. c : q[n] = conns[place(n)] /\ q[n] \in Connections0
  BY <1>1, <1>6, <1>7
<1>9. q \in Seq(Connections0) /\ Len(q) = c /\ DOMAIN q = 1 .. c
  BY <1>2, <1>7, <1>8
<1>10. ASSUME NEW i \in P PROVE rank[i] \in 1 .. c /\ q[rank[i]] = conns[i]
  BY <1>3, <1>4, <1>6, <1>8
<1>11. ASSUME Apart(conns) PROVE Apart(q)
  <2>1. ASSUME NEW m \in 1 .. c, NEW n \in 1 .. c, q[m] = q[n] PROVE m = n
    <3>1. place(m) = place(n)
      BY <1>1, <1>6, <1>8, <1>11, <2>1 DEF Apart
    <3> QED BY <1>6, <3>1
  <2> QED BY <1>9, <2>1 DEF Apart
<1>12. \A n \in DOMAIN q : \E i \in P : q[n] = conns[i]
  BY <1>6, <1>8, <1>9
<1>13. \A i \in P : \E n \in DOMAIN q : q[n] = conns[i]
  BY <1>9, <1>10
<1> QED BY <1>9, <1>11, <1>12, <1>13 DEF IsPart, q

\* erase takes one connection out of the list.
LEMMA RemoveAtFacts ==
  ASSUME NEW conns \in Seq(Connections0), NEW i \in DOMAIN conns
  PROVE  IsPart(RemoveAt(conns, i), conns, DOMAIN conns \ {i})
<1> DEFINE a == SubSeq(conns, 1, i - 1)
           b == SubSeq(conns, i + 1, Len(conns))
           q == a \o b
<1>1. Len(conns) \in Nat \ {0} /\ i \in Nat /\ DOMAIN conns = 1 .. Len(conns)
      /\ i \in 1 .. Len(conns)
  OBVIOUS
<1>2. a \in Seq(Connections0) /\ Len(a) = i - 1 /\ \A j \in 1 .. i - 1 : a[j] = conns[j]
  BY <1>1
<1>3. /\ b \in Seq(Connections0) /\ Len(b) = Len(conns) - i
      /\ \A j \in 1 .. Len(conns) - i : b[j] = conns[i + j]
  BY <1>1
<1> HIDE DEF a, b
<1>4. /\ q \in Seq(Connections0) /\ Len(q) = Len(conns) - 1 /\ DOMAIN q = 1 .. Len(conns) - 1
      /\ \A j \in 1 .. Len(conns) - 1 : q[j] = IF j <= i - 1 THEN a[j] ELSE b[j - (i - 1)]
  <2>1. /\ q \in Seq(Connections0) /\ Len(q) = Len(a) + Len(b)
        /\ \A j \in 1 .. Len(a) + Len(b) : q[j] = IF j <= Len(a) THEN a[j] ELSE b[j - Len(a)]
    BY <1>2, <1>3, ConcatProperties, Zenon
  <2>2. Len(a) + Len(b) = Len(conns) - 1
    BY <1>1, <1>2, <1>3
  <2> HIDE DEF q
  <2> QED BY <1>2, <2>1, <2>2
<1> HIDE DEF q
<1>5. ASSUME NEW j \in 1 .. Len(conns) - 1
      PROVE  q[j] = IF j < i THEN conns[j] ELSE conns[j + 1]
  <2>1. CASE j < i
    BY <1>1, <1>2, <1>4, <2>1
  <2>2. CASE ~(j < i)
    <3>1. j - (i - 1) \in 1 .. Len(conns) - i /\ i + (j - (i - 1)) = j + 1
      BY <1>1, <2>2
    <3>2. q[j] = b[j - (i - 1)]
      BY <1>1, <1>4, <2>2
    <3> QED BY <1>3, <2>2, <3>1, <3>2
  <2> QED BY <2>1, <2>2
<1>6. ASSUME NEW j \in DOMAIN q
      PROVE  \E k \in DOMAIN conns \ {i} : q[j] = conns[k]
  <2>1. CASE j < i
    BY <1>1, <1>4, <1>5, <2>1
  <2>2. CASE ~(j < i)
    <3>1. j + 1 \in DOMAIN conns \ {i}
      BY <1>1, <1>4, <2>2
    <3> QED BY <1>4, <1>5, <2>2, <3>1
  <2> QED BY <2>1, <2>2
<1>7. ASSUME NEW k \in DOMAIN conns \ {i}
      PROVE  \E j \in DOMAIN q : q[j] = conns[k]
  <2>1. CASE k < i
    <3>1. k \in 1 .. Len(conns) - 1
      BY <1>1, <2>1
    <3> QED BY <1>4, <1>5, <2>1, <3>1
  <2>2. CASE ~(k < i)
    <3>1. k - 1 \in 1 .. Len(conns) - 1 /\ ~(k - 1 < i) /\ (k - 1) + 1 = k
      BY <1>1, <2>2
    <3> QED BY <1>4, <1>5, <3>1
  <2> QED BY <2>1, <2>2
<1>8. ASSUME Apart(conns) PROVE Apart(q)
  <2>1. ASSUME NEW j \in 1 .. Len(conns) - 1, NEW k \in 1 .. Len(conns) - 1, q[j] = q[k]
        PROVE  j = k
    <3> DEFINE old(n) == IF n < i THEN n ELSE n + 1
    <3>1. /\ q[j] = conns[old(j)] /\ old(j) \in DOMAIN conns
          /\ q[k] = conns[old(k)] /\ old(k) \in DOMAIN conns
      BY <1>1, <1>5
    <3>2. old(j) = old(k)
      BY <1>8, <2>1, <3>1 DEF Apart
    <3> QED BY <1>1, <3>2
  <2> QED BY <1>4, <2>1 DEF Apart
<1>9. RemoveAt(conns, i) = q
  BY <1>1 DEF RemoveAt, q, a, b
<1> QED BY <1>4, <1>6, <1>7, <1>8, <1>9 DEF IsPart

\* slot_disconnect takes out all of an object's connections.
LEMMA WithoutFacts ==
  ASSUME NEW conns \in Seq(Connections0), NEW o
  PROVE  IsPart(Without(conns, o), conns, DOMAIN conns \ PlacesTo(conns, o))
BY AtPlacesFacts DEF Without

\* slot_duplicate leaves what is there, and adds a connection to the copy for each one of
\* the object that is copied.
IsDuplicate(q, conns, o, copy) ==
  /\ q \in Seq(Connections0)
  /\ \A n \in DOMAIN q : (\E i \in DOMAIN conns : q[n] = conns[i]) \/ q[n].dest = copy
  /\ \A i \in DOMAIN conns : \E n \in DOMAIN q : q[n] = conns[i]
  /\ (\E i \in DOMAIN conns : conns[i].dest = o) => \E n \in DOMAIN q : q[n].dest = copy
  /\ Apart(conns) => Apart(q)

LEMMA DuplicateFacts ==
  ASSUME NEW conns \in Seq(Connections0), NEW o \in Receivers, NEW copy \in Receivers,
         \A i \in DOMAIN conns : conns[i].dest # copy
  PROVE  IsDuplicate(slot_duplicate(conns, o, copy), conns, o, copy)
<1> DEFINE places == PlacesTo(conns, o)
           old == AtPlaces(conns, places)
           dup == [i \in DOMAIN old |-> [dest |-> copy, slot |-> old[i].slot]]
<1>1. places \in SUBSET DOMAIN conns /\ \A i \in DOMAIN conns : i \in places <=> conns[i].dest = o
  BY DEF PlacesTo
<1>2. IsPart(old, conns, places)
  BY <1>1, AtPlacesFacts
<1>3. PICK q : q = slot_duplicate(conns, o, copy)
  OBVIOUS
<1>4. q = conns \o dup
  BY <1>3 DEF slot_duplicate
<1> HIDE DEF old, places
<1>5. old \in Seq(Connections0) /\ DOMAIN old = 1 .. Len(old) /\ Len(old) \in Nat
  BY <1>2 DEF IsPart
<1>6. \A n \in DOMAIN old : old[n] \in Connections0 /\ old[n].dest = o
  <2>1. \A n \in DOMAIN old : old[n] \in Connections0
    BY <1>5
  <2> QED BY <1>1, <1>2, <2>1 DEF IsPart
<1>7. \A n \in DOMAIN old :
        dup[n] \in Connections0 /\ dup[n].dest = copy /\ dup[n].slot = old[n].slot
  BY <1>6 DEF Connections0
<1>8. dup \in Seq(Connections0) /\ Len(dup) = Len(old) /\ DOMAIN dup = 1 .. Len(old)
  BY <1>5, <1>7
<1> HIDE DEF dup
<1>9. Len(conns) \in Nat /\ DOMAIN conns = 1 .. Len(conns)
  OBVIOUS
<1>10. /\ q \in Seq(Connections0) /\ Len(q) = Len(conns) + Len(dup)
      /\ \A n \in 1 .. Len(conns) + Len(dup) :
           q[n] = IF n <= Len(conns) THEN conns[n] ELSE dup[n - Len(conns)]
  <2>1. conns \in Seq(Connections0) /\ dup \in Seq(Connections0)
    BY <1>8
  <2> DEFINE r == conns \o dup
  <2>2. /\ r \in Seq(Connections0) /\ Len(r) = Len(conns) + Len(dup)
        /\ \A n \in 1 .. Len(conns) + Len(dup) :
             r[n] = IF n <= Len(conns) THEN conns[n] ELSE dup[n - Len(conns)]
    BY <2>1, ConcatProperties, Zenon
  <2>3. q = r
    BY <1>4
  <2> HIDE DEF r
  <2> QED BY <2>2, <2>3
<1>11. DOMAIN q = 1 .. Len(conns) + Len(old)
  BY <1>8, <1>10
<1>12. \A i \in DOMAIN conns : i \in DOMAIN q /\ q[i] = conns[i]
  BY <1>5, <1>8, <1>9, <1>10, <1>11
<1>13. ASSUME NEW i \in DOMAIN old
       PROVE  Len(conns) + i \in DOMAIN q /\ q[Len(conns) + i] = dup[i]
  <2>1. Len(conns) + i \in 1 .. Len(conns) + Len(dup) /\ ~(Len(conns) + i <= Len(conns))
        /\ (Len(conns) + i) - Len(conns) = i
    BY <1>5, <1>8, <1>9
  <2> QED BY <1>8, <1>10, <1>11, <2>1
<1>14. ASSUME NEW n \in DOMAIN q
       PROVE  n \in DOMAIN conns \/ \E i \in DOMAIN old : n = Len(conns) + i
  <2>1. CASE n <= Len(conns)
    BY <1>9, <1>11, <2>1
  <2>2. CASE ~(n <= Len(conns))
    <3>1. n - Len(conns) \in 1 .. Len(old) /\ n = Len(conns) + (n - Len(conns))
      BY <1>5, <1>9, <1>11, <2>2
    <3> QED BY <1>5, <3>1
  <2> QED BY <2>1, <2>2
<1>15. ASSUME NEW n \in DOMAIN q
       PROVE  (\E i \in DOMAIN conns : q[n] = conns[i]) \/ q[n].dest = copy
  <2>1. CASE n \in DOMAIN conns
    BY <1>12, <2>1
  <2>2. CASE \E i \in DOMAIN old : n = Len(conns) + i
    BY <1>7, <1>13, <2>2
  <2> QED BY <1>14, <2>1, <2>2
<1>16. (\E i \in DOMAIN conns : conns[i].dest = o) => \E n \in DOMAIN q : q[n].dest = copy
  <2>1. ASSUME NEW i \in DOMAIN conns, conns[i].dest = o
        PROVE  \E n \in DOMAIN q : q[n].dest = copy
    <3>1. PICK m \in DOMAIN old : old[m] = conns[i]
      BY <1>1, <1>2, <2>1 DEF IsPart
    <3> QED BY <1>7, <1>13, <3>1
  <2> QED BY <2>1
<1>17. ASSUME Apart(conns), NEW m \in DOMAIN q, NEW n \in DOMAIN q, q[m] = q[n]
       PROVE  m = n
  <2>1. CASE m \in DOMAIN conns /\ n \in DOMAIN conns
    BY <1>12, <1>17, <2>1 DEF Apart
  <2>2. CASE m \in DOMAIN conns /\ n \notin DOMAIN conns
    BY <1>7, <1>12, <1>13, <1>14, <1>17, <2>2
  <2>3. CASE m \notin DOMAIN conns /\ n \in DOMAIN conns
    BY <1>7, <1>12, <1>13, <1>14, <1>17, <2>3
  <2>4. CASE m \notin DOMAIN conns /\ n \notin DOMAIN conns
    <3>1. PICK i \in DOMAIN old, k \in DOMAIN old : m = Len(conns) + i /\ n = Len(conns) + k
      BY <1>14, <2>4
    <3>2. old[i].slot = old[k].slot /\ old[i].dest = old[k].dest
      BY <1>6, <1>7, <1>13, <1>17, <3>1
    <3>3. old[i] = old[k]
      BY <1>6, <3>2 DEF Connections0
    <3> QED BY <1>2, <1>17, <3>1, <3>3 DEF IsPart, Apart
  <2> QED BY <2>1, <2>2, <2>3, <2>4
<1>18. Apart(conns) => Apart(q)
  BY <1>17 DEF Apart
<1>19. \A i \in DOMAIN conns : \E n \in DOMAIN q : q[n] = conns[i]
  BY <1>12
<1> QED BY <1>3, <1>10, <1>15, <1>16, <1>18, <1>19 DEF IsDuplicate

\* The list of a signal, and where an emission begins and goes on in it.
LEMMA ListFacts ==
  ASSUME SigTypeOK, NEW s \in Signals, NEW conns, conns = m_connected_slots[s]
  PROVE  /\ conns \in Seq(Connections0) /\ Len(conns) \in Nat /\ DOMAIN conns = 1 .. Len(conns)
         /\ \A i \in DOMAIN conns : conns[i] \in Connections0 /\ conns[i].dest \in Receivers
         /\ \A o : Connected(s, o) <=> \E i \in DOMAIN conns : conns[i].dest = o
<1>1. conns \in Seq(Connections0)
  BY DEF SigTypeOK
<1>2. \A i \in DOMAIN conns : conns[i] \in Connections0
  BY <1>1
<1> QED BY <1>1, <1>2 DEF Connected, ToSet, Connections0

LEMMA FirstFacts ==
  ASSUME SigTypeOK, NEW s \in Signals, NEW conns, conns = m_connected_slots[s]
  PROVE  \/ First(s) = End /\ DOMAIN conns = {}
         \/ First(s) = conns[1] /\ 1 \in DOMAIN conns
<1>1. conns \in Seq(Connections0) /\ Len(conns) \in Nat /\ DOMAIN conns = 1 .. Len(conns)
  BY ListFacts
<1>2. CASE conns = <<>>
  BY <1>2 DEF First
<1>3. CASE conns # <<>>
  BY <1>1, <1>3 DEF First
<1> QED BY <1>2, <1>3

LEMMA AfterFacts ==
  ASSUME SigTypeOK, NoTwins, NEW s \in Signals, NEW conns, conns = m_connected_slots[s],
         NEW i \in DOMAIN conns
  PROVE  /\ PlaceOf(conns, conns[i]) = i
         /\ \/ i = Len(conns) /\ After(s, conns[i]) = End
            \/ i + 1 \in DOMAIN conns /\ After(s, conns[i]) = conns[i + 1]
<1>1. PlaceOf(conns, conns[i]) = i
  BY DEF PlaceOf, NoTwins, Apart
<1>2. Len(conns) \in Nat /\ DOMAIN conns = 1 .. Len(conns)
  BY ListFacts
<1> QED BY <1>1, <1>2 DEF After

\* The end of a list is no connection.
LEMMA EndIsNone == End \notin Connections0
BY SigSlotAssumption DEF End, Connections0

-----------------------------------------------------------------------------
(* Types.                                                                  *)

LEMMA IdleType == Idle \in Works /\ Idle.op = "idle"
BY DEF Idle, Works

\* Where a thread that emits or frees a list is.
LEMMA PlaceFacts ==
  ASSUME SigInd, NEW t \in SigThreads, doing[t].op \in {"emit", "slot", "clear"},
         NEW s, s = doing[t].sig, NEW conns, conns = m_connected_slots[s]
  PROVE  /\ s \in Signals
         /\ doing[t].it = End \/ \E i \in DOMAIN conns : doing[t].it = conns[i]
         /\ doing[t].itNext = End \/ \E i \in DOMAIN conns : doing[t].itNext = conns[i]
<1>1. s \in Signals
  BY DEF SigInd, Locking, SigOps
<1>2. \A c : c \in ToSet(conns) <=> \E i \in DOMAIN conns : c = conns[i]
  BY DEF ToSet
<1>3. {doing[t].it, doing[t].itNext} \subseteq ToSet(conns) \cup {End}
  BY DEF SigInd, EmissionKeepsItsPlace
<1> QED BY <1>1, <1>2, <1>3

LEMMA NextIsTyped ==
  ASSUME SigInd, NEW t \in SigThreads, doing[t].op \in {"emit", "clear"}, doing[t].it # End
  PROVE  After(doing[t].sig, doing[t].it) \in Connections0 \cup {End}
<1> DEFINE s == doing[t].sig
           conns == m_connected_slots[s]
<1>1. s \in Signals
  BY PlaceFacts
<1>2. PICK i \in DOMAIN conns : doing[t].it = conns[i]
  BY PlaceFacts
<1>3. \A k \in DOMAIN conns : conns[k] \in Connections0
  BY <1>1, ListFacts DEF SigInd
<1>4. After(s, conns[i]) = End \/ \E k \in DOMAIN conns : After(s, conns[i]) = conns[k]
  BY <1>1, <1>2, AfterFacts DEF SigInd
<1> QED BY <1>2, <1>3, <1>4

\* The operations that a thread enters.
LEMMA EnterTypes ==
  ASSUME SigTypeOK, NEW t \in SigThreads, NEW x \in Signals \cup Receivers, NEW now \in Works,
         Enter(t, x, now)
  PROVE  /\ doing' \in [SigThreads -> Works]
         /\ holder' \in [Signals \cup Receivers -> SigThreads \cup {"none"}]
BY DEF Enter, SigTypeOK

LEMMA FinishTypes ==
  ASSUME SigTypeOK, NEW t \in SigThreads, NEW x, Finish(t, x)
  PROVE  /\ doing' \in [SigThreads -> Works]
         /\ holder' \in [Signals \cup Receivers -> SigThreads \cup {"none"}]
BY IdleType DEF Finish, SigTypeOK

\* Every step keeps the types.
LEMMA SigTypeStep ==
  ASSUME SigInd, SigNext
  PROVE  SigTypeOK'
<1>0. SigTypeOK /\ Locking
  BY DEF SigInd
<1>1. ASSUME NEW t \in SigThreads, NEW s \in Signals, NEW o \in Receivers, NEW f \in Slots,
             connect(t, s, o, f)
      PROVE  SigTypeOK'
  <2>1. [Idle EXCEPT !.op = "connect", !.sig = s, !.recv = o] \in Works
    BY IdleType DEF Works, SigOps
  <2>2. [dest |-> o, slot |-> f] \in Connections0
    BY DEF Connections0
  <2> QED BY <1>0, <1>1, <2>1, <2>2, EnterTypes DEF connect, SigTypeOK
<1>2. ASSUME NEW t \in SigThreads, signal_connect(t)
      PROVE  SigTypeOK'
  <2>1. doing[t].sig \in Signals /\ doing[t].recv \in Receivers
    BY <1>0, <1>2 DEF signal_connect, Locking, SigOps
  <2> QED BY <1>0, <1>2, <2>1, FinishTypes DEF signal_connect, SigTypeOK
<1>3. ASSUME NEW t \in SigThreads, NEW s \in Signals, NEW o \in Receivers, disconnect(t, s, o)
      PROVE  SigTypeOK'
  <2>1. [Idle EXCEPT !.op = "disconnect", !.sig = s, !.recv = o] \in Works
    BY IdleType DEF Works, SigOps
  <2>2. PICK i \in DOMAIN m_connected_slots[s] :
          m_connected_slots' = [m_connected_slots EXCEPT ![s] = RemoveAt(@, i)]
    BY <1>3 DEF disconnect, PlacesTo
  <2>3. RemoveAt(m_connected_slots[s], i) \in Seq(Connections0)
    BY <1>0, RemoveAtFacts DEF SigTypeOK, IsPart
  <2>4. doubled' \subseteq Signals \X Receivers
    BY <1>0, <1>3 DEF disconnect, SigTypeOK
  <2> QED BY <1>0, <1>3, <2>1, <2>2, <2>3, <2>4, EnterTypes DEF disconnect, SigTypeOK
<1>4. ASSUME NEW t \in SigThreads, signal_disconnect(t)
      PROVE  SigTypeOK'
  <2>1. doing[t].sig \in Signals /\ doing[t].recv \in Receivers
    BY <1>0, <1>4 DEF signal_disconnect, Locking, SigOps
  <2> QED BY <1>0, <1>4, <2>1, FinishTypes DEF signal_disconnect, SigTypeOK
<1>5. ASSUME NEW t \in SigThreads, NEW s \in Signals, NEW dies \in BOOLEAN,
             disconnect_all(t, s, dies)
      PROVE  SigTypeOK'
  <2>1. First(s) \in Connections0 \cup {End}
    BY <1>0, FirstFacts, ListFacts
  <2>2. [Idle EXCEPT !.op = "clear", !.sig = s, !.dies = dies, !.it = First(s)] \in Works
    BY <2>1, IdleType DEF Works, SigOps
  <2> QED BY <1>0, <1>5, <2>2, EnterTypes DEF disconnect_all, SigTypeOK, Lives
<1>6. ASSUME NEW t \in SigThreads, disconnect_all_one(t)
      PROVE  SigTypeOK'
  <2> DEFINE s == doing[t].sig
             c == doing[t].it
  <2>1. s \in Signals /\ c \in Connections0
    BY <1>0, <1>6 DEF disconnect_all_one, Locking, SigOps, SigTypeOK, Works
  <2>2. c.dest \in Receivers
    BY <2>1 DEF Connections0
  <2>3. After(s, c) \in Connections0 \cup {End}
    BY <1>6, NextIsTyped DEF disconnect_all_one
  <2>4. doing' \in [SigThreads -> Works]
    <3> DEFINE now == [doing[t] EXCEPT !.it = After(s, c)]
    <3>1. doing[t] \in Works /\ doing' = [doing EXCEPT ![t] = now]
      BY <1>0, <1>6 DEF disconnect_all_one, SigTypeOK
    <3>2. now \in Works
      BY <2>3, <3>1 DEF Works
    <3> HIDE DEF now
    <3> QED BY <1>0, <3>1, <3>2 DEF SigTypeOK
  <2>5. doubled' \subseteq Signals \X Receivers
    BY <1>0, <1>6, <2>1, <2>2 DEF disconnect_all_one, SigTypeOK
  <2>6. m_senders' \in [Receivers -> SUBSET Signals]
    BY <1>0, <1>6, <2>1, <2>2 DEF disconnect_all_one, SigTypeOK
  <2> QED BY <1>0, <1>6, <2>4, <2>5, <2>6 DEF disconnect_all_one, SigTypeOK
<1>7. ASSUME NEW t \in SigThreads, disconnect_all_ends(t)
      PROVE  SigTypeOK'
  <2>1. doing[t].sig \in Signals /\ <<>> \in Seq(Connections0)
    BY <1>0, <1>7 DEF disconnect_all_ends, Locking, SigOps
  <2> QED BY <1>0, <1>7, <2>1, FinishTypes DEF disconnect_all_ends, SigTypeOK, Lives
<1>8. ASSUME NEW t \in SigThreads, NEW s \in Signals, emit(t, s)
      PROVE  SigTypeOK'
  <2>1. First(s) \in Connections0 \cup {End}
    BY <1>0, FirstFacts, ListFacts
  <2>2. [Idle EXCEPT !.op = "emit", !.sig = s, !.it = First(s)] \in Works
    BY <2>1, IdleType DEF Works, SigOps
  <2> QED BY <1>0, <1>8, <2>2, EnterTypes DEF emit, SigTypeOK
<1>9. ASSUME NEW t \in SigThreads, emit_calls(t)
      PROVE  SigTypeOK'
  <2>1. After(doing[t].sig, doing[t].it) \in Connections0 \cup {End}
    BY <1>9, NextIsTyped DEF emit_calls
  <2> DEFINE now == [doing[t] EXCEPT !.op = "slot",
                                     !.itNext = After(doing[t].sig, doing[t].it)]
  <2>2. doing[t] \in Works /\ doing' = [doing EXCEPT ![t] = now]
    BY <1>0, <1>9 DEF emit_calls, SigTypeOK
  <2>3. now \in Works
    BY <2>1, <2>2 DEF Works, SigOps
  <2> HIDE DEF now
  <2>4. doing' \in [SigThreads -> Works]
    BY <1>0, <2>2, <2>3 DEF SigTypeOK
  <2> QED BY <1>0, <1>9, <2>4 DEF emit_calls, SigTypeOK
<1>10. ASSUME NEW t \in SigThreads, slot_returns(t)
       PROVE  SigTypeOK'
  <2> DEFINE now == [doing[t] EXCEPT !.op = "emit", !.it = doing[t].itNext]
  <2>1. doing[t] \in Works /\ doing' = [doing EXCEPT ![t] = now]
    BY <1>0, <1>10 DEF slot_returns, SigTypeOK
  <2>2. now \in Works
    BY <2>1 DEF Works, SigOps
  <2> HIDE DEF now
  <2>3. doing' \in [SigThreads -> Works]
    BY <1>0, <2>1, <2>2 DEF SigTypeOK
  <2> QED BY <1>0, <1>10, <2>3 DEF slot_returns, SigTypeOK
<1>11. ASSUME NEW t \in SigThreads, emit_ends(t)
       PROVE  SigTypeOK'
  BY <1>0, <1>11, FinishTypes DEF emit_ends, SigTypeOK
<1>12. ASSUME NEW t \in SigThreads, NEW o \in Receivers, NEW dies \in BOOLEAN,
              leave_all(t, o, dies)
       PROVE  SigTypeOK'
  <2>1. [Idle EXCEPT !.op = "leave", !.recv = o, !.dies = dies, !.rest = m_senders[o]] \in Works
    BY <1>0, IdleType DEF Works, SigTypeOK
  <2> QED BY <1>0, <1>12, <2>1, EnterTypes DEF leave_all, SigTypeOK, Lives
<1>13. ASSUME NEW t \in SigThreads, NEW s \in Signals, slot_disconnect(t, s)
       PROVE  SigTypeOK'
  <2>1. Without(m_connected_slots[s], doing[t].recv) \in Seq(Connections0)
    BY <1>0, WithoutFacts DEF SigTypeOK, IsPart
  <2> DEFINE now == [doing[t] EXCEPT !.rest = @ \ {s}]
  <2>2. doing[t] \in Works /\ doing' = [doing EXCEPT ![t] = now]
    BY <1>0, <1>13 DEF slot_disconnect, SigTypeOK
  <2>3. now \in Works
    BY <2>2 DEF Works
  <2> HIDE DEF now
  <2>4. doing' \in [SigThreads -> Works]
    BY <1>0, <2>2, <2>3 DEF SigTypeOK
  <2> QED BY <1>0, <1>13, <2>1, <2>4 DEF slot_disconnect, SigTypeOK
<1>14. ASSUME NEW t \in SigThreads, leave_all_ends(t)
       PROVE  SigTypeOK'
  <2>1. doing[t].recv \in Receivers
    BY <1>0, <1>14 DEF leave_all_ends, Locking
  <2> QED BY <1>0, <1>14, <2>1, FinishTypes DEF leave_all_ends, SigTypeOK, Lives
<1>15. ASSUME NEW s \in Signals, NEW copy \in Signals, signal_copy(s, copy)
       PROVE  SigTypeOK'
  BY <1>0, <1>15 DEF signal_copy, Quiet, SigTypeOK, Lives
<1>16. ASSUME NEW o \in Receivers, NEW copy \in Receivers, has_slots_copy(o, copy)
       PROVE  SigTypeOK'
  <2>1. ASSUME NEW s \in Signals
        PROVE  slot_duplicate(m_connected_slots[s], o, copy) \in Seq(Connections0)
    <3>1. \A i \in DOMAIN m_connected_slots[s] : m_connected_slots[s][i].dest # copy
      BY <1>16 DEF has_slots_copy, Quiet, SigInd, Living
    <3> QED BY <1>0, <3>1, DuplicateFacts DEF SigTypeOK, IsDuplicate
  <2> QED BY <1>0, <1>16, <2>1 DEF has_slots_copy, Quiet, SigTypeOK, Lives
<1> QED BY <1>1, <1>2, <1>3, <1>4, <1>5, <1>6, <1>7, <1>8, <1>9, <1>10, <1>11, <1>12, <1>13,
     <1>14, <1>15, <1>16 DEF SigNext, SigThreadStep

-----------------------------------------------------------------------------
(* Mutexes.                                                                *)

\* Only one thread is inside of a signal or an object, and nobody if that is free.
Alone ==
  /\ \A s \in Signals, t, u \in SigThreads : OnSignal(t, s) /\ OnSignal(u, s) => t = u
  /\ \A o \in Receivers, t, u \in SigThreads : OnObject(t, o) /\ OnObject(u, o) => t = u
  /\ \A s \in Signals, t \in SigThreads : Free(s) => ~OnSignal(t, s)
  /\ \A o \in Receivers, t \in SigThreads : Free(o) => ~OnObject(t, o)

LEMMA LockedAlone == Locking => Alone
BY SigSlotAssumption DEF Locking, Alone, Free

\* A step of thread t changes what t is doing, and not what the others are.
LEMMA OthersGoOn ==
  ASSUME SigTypeOK, NEW t \in SigThreads, NEW now, doing' = [doing EXCEPT ![t] = now]
  PROVE  doing'[t] = now /\ \A u \in SigThreads : u # t => doing'[u] = doing[u]
BY DEF SigTypeOK

LEMMA EnterLocks ==
  ASSUME SigTypeOK, Locking, NEW t \in SigThreads, NEW x \in Signals \cup Receivers, NEW now,
         Enter(t, x, now),
         \/ /\ x \in Signals /\ now.op \in SigOps /\ now.sig = x
            /\ now.op \in {"connect", "disconnect"} => now.recv \in Receivers
         \/ x \in Receivers /\ now.op = "leave" /\ now.recv = x
  PROVE  Locking'
<1>1. doing'[t] = now /\ \A u \in SigThreads : u # t => doing'[u] = doing[u]
  BY OthersGoOn DEF Enter
<1>2. holder'[x] = t /\ \A y \in Signals \cup Receivers : y # x => holder'[y] = holder[y]
  BY DEF Enter, SigTypeOK
<1>3. holder[x] = "none" /\ doing[t].op = "idle"
  BY IdleType DEF Enter, Free
<1>4. ASSUME NEW u \in SigThreads
      PROVE  /\ doing'[u].op \in SigOps => doing'[u].sig \in Signals
             /\ doing'[u].op \in {"connect", "disconnect", "leave"} => doing'[u].recv \in Receivers
             /\ doing'[u].op = "idle" => doing'[u] = Idle
  BY <1>1 DEF Locking, SigOps
<1>5. ASSUME NEW u \in SigThreads, NEW s \in Signals
      PROVE  holder'[s] = u <=> doing'[u].op \in SigOps /\ doing'[u].sig = s
  BY <1>1, <1>2, <1>3, SigSlotAssumption DEF Locking, OnSignal, SigOps
<1>6. ASSUME NEW u \in SigThreads, NEW o \in Receivers
      PROVE  holder'[o] = u <=> doing'[u].op = "leave" /\ doing'[u].recv = o
  BY <1>1, <1>2, <1>3, SigSlotAssumption DEF Locking, OnObject, SigOps
<1> QED BY <1>4, <1>5, <1>6 DEF Locking, OnSignal, OnObject

LEMMA FinishLocks ==
  ASSUME SigTypeOK, Locking, NEW t \in SigThreads, NEW x \in Signals \cup Receivers,
         Finish(t, x), holder[x] = t
  PROVE  Locking'
<1>1. doing'[t] = Idle /\ \A u \in SigThreads : u # t => doing'[u] = doing[u]
  BY OthersGoOn DEF Finish
<1>2. holder'[x] = "none" /\ \A y \in Signals \cup Receivers : y # x => holder'[y] = holder[y]
  BY DEF Finish, SigTypeOK
<1>3. ASSUME NEW u \in SigThreads
      PROVE  /\ doing'[u].op \in SigOps => doing'[u].sig \in Signals
             /\ doing'[u].op \in {"connect", "disconnect", "leave"} => doing'[u].recv \in Receivers
             /\ doing'[u].op = "idle" => doing'[u] = Idle
  BY <1>1, IdleType DEF Locking, SigOps
<1>4. ASSUME NEW u \in SigThreads, NEW s \in Signals
      PROVE  holder'[s] = u <=> doing'[u].op \in SigOps /\ doing'[u].sig = s
  BY <1>1, <1>2, SigSlotAssumption, IdleType DEF Locking, OnSignal, OnObject, SigOps
<1>5. ASSUME NEW u \in SigThreads, NEW o \in Receivers
      PROVE  holder'[o] = u <=> doing'[u].op = "leave" /\ doing'[u].recv = o
  BY <1>1, <1>2, SigSlotAssumption, IdleType DEF Locking, OnSignal, OnObject, SigOps
<1> QED BY <1>3, <1>4, <1>5 DEF Locking, OnSignal, OnObject

\* A step inside of an operation leaves the mutex where it is.
LEMMA StayLocks ==
  ASSUME SigTypeOK, Locking, NEW t \in SigThreads, NEW now,
         doing' = [doing EXCEPT ![t] = now], holder' = holder,
         \/ /\ doing[t].op \in {"emit", "slot", "clear"} /\ now.op \in {"emit", "slot", "clear"}
            /\ now.sig = doing[t].sig
         \/ doing[t].op = "leave" /\ now.op = "leave" /\ now.recv = doing[t].recv
  PROVE  Locking'
<1>1. doing'[t] = now /\ \A u \in SigThreads : u # t => doing'[u] = doing[u]
  BY OthersGoOn
<1> QED BY <1>1 DEF Locking, OnSignal, OnObject, SigOps

\* Every step keeps each mutex with the thread that is inside.
LEMMA LockingStep ==
  ASSUME SigInd, SigNext
  PROVE  Locking'
<1>0. SigTypeOK /\ Locking
  BY DEF SigInd
<1>1. ASSUME NEW t \in SigThreads, NEW s \in Signals, NEW o \in Receivers, NEW f \in Slots,
             connect(t, s, o, f)
      PROVE  Locking'
  <2> DEFINE now == [Idle EXCEPT !.op = "connect", !.sig = s, !.recv = o]
  <2>1. now.op = "connect" /\ now.sig = s /\ now.recv = o
    BY IdleType DEF Idle
  <2>2. Enter(t, s, now)
    BY <1>1 DEF connect
  <2> HIDE DEF now
  <2> QED BY <1>0, <2>1, <2>2, EnterLocks DEF SigOps
<1>2. ASSUME NEW t \in SigThreads, signal_connect(t) \/ signal_disconnect(t)
      PROVE  Locking'
  <2>1. PICK s \in Signals : holder[s] = t /\ Finish(t, s)
    BY <1>0, <1>2 DEF signal_connect, signal_disconnect, Locking, OnSignal, SigOps
  <2> QED BY <1>0, <2>1, FinishLocks
<1>3. ASSUME NEW t \in SigThreads, NEW s \in Signals, NEW o \in Receivers, disconnect(t, s, o)
      PROVE  Locking'
  <2> DEFINE now == [Idle EXCEPT !.op = "disconnect", !.sig = s, !.recv = o]
  <2>1. now.op = "disconnect" /\ now.sig = s /\ now.recv = o
    BY IdleType DEF Idle
  <2>2. Enter(t, s, now)
    BY <1>3 DEF disconnect
  <2> HIDE DEF now
  <2> QED BY <1>0, <2>1, <2>2, EnterLocks DEF SigOps
<1>4. ASSUME NEW t \in SigThreads, NEW s \in Signals, NEW dies \in BOOLEAN,
             disconnect_all(t, s, dies)
      PROVE  Locking'
  <2> DEFINE now == [Idle EXCEPT !.op = "clear", !.sig = s, !.dies = dies, !.it = First(s)]
  <2>1. now.op = "clear" /\ now.sig = s
    BY DEF Idle
  <2>2. Enter(t, s, now)
    BY <1>4 DEF disconnect_all
  <2> HIDE DEF now
  <2> QED BY <1>0, <2>1, <2>2, EnterLocks DEF SigOps
<1>5. ASSUME NEW t \in SigThreads, disconnect_all_one(t)
      PROVE  Locking'
  <2> DEFINE now == [doing[t] EXCEPT !.it = After(doing[t].sig, doing[t].it)]
  <2>1. doing[t] \in Works /\ doing[t].op = "clear" /\ holder' = holder
        /\ doing' = [doing EXCEPT ![t] = now]
    BY <1>0, <1>5 DEF disconnect_all_one, SigTypeOK
  <2>2. now.op = "clear" /\ now.sig = doing[t].sig
    BY <2>1 DEF Works
  <2> HIDE DEF now
  <2> QED BY <1>0, <2>1, <2>2, StayLocks
<1>6. ASSUME NEW t \in SigThreads, disconnect_all_ends(t) \/ emit_ends(t)
      PROVE  Locking'
  <2>1. PICK s \in Signals : holder[s] = t /\ Finish(t, s)
    BY <1>0, <1>6 DEF disconnect_all_ends, emit_ends, Locking, OnSignal, SigOps
  <2> QED BY <1>0, <2>1, FinishLocks
<1>7. ASSUME NEW t \in SigThreads, NEW s \in Signals, emit(t, s)
      PROVE  Locking'
  <2> DEFINE now == [Idle EXCEPT !.op = "emit", !.sig = s, !.it = First(s)]
  <2>1. now.op = "emit" /\ now.sig = s
    BY DEF Idle
  <2>2. Enter(t, s, now)
    BY <1>7 DEF emit
  <2> HIDE DEF now
  <2> QED BY <1>0, <2>1, <2>2, EnterLocks DEF SigOps
<1>8. ASSUME NEW t \in SigThreads, emit_calls(t)
      PROVE  Locking'
  <2> DEFINE now == [doing[t] EXCEPT !.op = "slot",
                                     !.itNext = After(doing[t].sig, doing[t].it)]
  <2>1. doing[t] \in Works /\ doing[t].op = "emit" /\ holder' = holder
        /\ doing' = [doing EXCEPT ![t] = now]
    BY <1>0, <1>8 DEF emit_calls, SigTypeOK
  <2>2. now.op = "slot" /\ now.sig = doing[t].sig
    BY <2>1 DEF Works
  <2> HIDE DEF now
  <2> QED BY <1>0, <2>1, <2>2, StayLocks
<1>9. ASSUME NEW t \in SigThreads, slot_returns(t)
      PROVE  Locking'
  <2> DEFINE now == [doing[t] EXCEPT !.op = "emit", !.it = doing[t].itNext]
  <2>1. doing[t] \in Works /\ doing[t].op = "slot" /\ holder' = holder
        /\ doing' = [doing EXCEPT ![t] = now]
    BY <1>0, <1>9 DEF slot_returns, SigTypeOK
  <2>2. now.op = "emit" /\ now.sig = doing[t].sig
    BY <2>1 DEF Works
  <2> HIDE DEF now
  <2> QED BY <1>0, <2>1, <2>2, StayLocks
<1>10. ASSUME NEW t \in SigThreads, NEW o \in Receivers, NEW dies \in BOOLEAN,
              leave_all(t, o, dies)
       PROVE  Locking'
  <2> DEFINE now == [Idle EXCEPT !.op = "leave", !.recv = o, !.dies = dies, !.rest = m_senders[o]]
  <2>1. now.op = "leave" /\ now.recv = o
    BY DEF Idle
  <2>2. Enter(t, o, now)
    BY <1>10 DEF leave_all
  <2> HIDE DEF now
  <2> QED BY <1>0, <2>1, <2>2, EnterLocks
<1>11. ASSUME NEW t \in SigThreads, NEW s \in Signals, slot_disconnect(t, s)
       PROVE  Locking'
  <2> DEFINE now == [doing[t] EXCEPT !.rest = @ \ {s}]
  <2>1. doing[t] \in Works /\ doing[t].op = "leave" /\ holder' = holder
        /\ doing' = [doing EXCEPT ![t] = now]
    BY <1>0, <1>11 DEF slot_disconnect, SigTypeOK
  <2>2. now.op = "leave" /\ now.recv = doing[t].recv
    BY <2>1 DEF Works
  <2> HIDE DEF now
  <2> QED BY <1>0, <2>1, <2>2, StayLocks
<1>12. ASSUME NEW t \in SigThreads, leave_all_ends(t)
       PROVE  Locking'
  <2>1. PICK o \in Receivers : holder[o] = t /\ Finish(t, o)
    BY <1>0, <1>12 DEF leave_all_ends, Locking, OnObject
  <2> QED BY <1>0, <2>1, FinishLocks
<1>13. ASSUME UNCHANGED <<holder, doing>>
       PROVE  Locking'
  BY <1>0, <1>13 DEF Locking, OnSignal, OnObject
<1> QED BY <1>1, <1>2, <1>3, <1>4, <1>5, <1>6, <1>7, <1>8, <1>9, <1>10, <1>11, <1>12, <1>13
     DEF SigNext, SigThreadStep, signal_copy, has_slots_copy

-----------------------------------------------------------------------------
(* Lists and lives.                                                        *)

\* While a thread is inside of a signal, nobody else changes its list.
LEMMA OthersLeaveTheList ==
  ASSUME SigInd, SigNext, NEW u \in SigThreads, NEW s \in Signals, OnSignal(u, s)
  PROVE  m_connected_slots'[s] = m_connected_slots[s] \/ doing'[u] = Idle
<1>0. SigTypeOK /\ Alone
  BY LockedAlone DEF SigInd
<1>1. ~Free(s) /\ doing[u] # Idle
  BY <1>0, IdleType DEF Alone, OnSignal, SigOps
<1>2. ASSUME NEW t \in SigThreads, NEW q \in Signals, NEW o \in Receivers, NEW f \in Slots,
             connect(t, q, o, f)
      PROVE  m_connected_slots'[s] = m_connected_slots[s]
  BY <1>0, <1>1, <1>2 DEF connect, Enter, SigTypeOK
<1>3. ASSUME NEW t \in SigThreads, NEW q \in Signals, NEW o \in Receivers, disconnect(t, q, o)
      PROVE  m_connected_slots'[s] = m_connected_slots[s]
  BY <1>0, <1>1, <1>3 DEF disconnect, Enter, SigTypeOK
<1>4. ASSUME NEW t \in SigThreads, disconnect_all_ends(t)
      PROVE  m_connected_slots'[s] = m_connected_slots[s] \/ doing'[u] = Idle
  <2>1. t = u \/ doing[t].sig # s
    BY <1>0, <1>4 DEF Alone, OnSignal, SigOps, disconnect_all_ends
  <2> QED BY <1>0, <1>4, <2>1 DEF disconnect_all_ends, Finish, SigTypeOK
<1>5. ASSUME NEW t \in SigThreads, NEW q \in Signals, slot_disconnect(t, q)
      PROVE  m_connected_slots'[s] = m_connected_slots[s]
  BY <1>0, <1>1, <1>5 DEF slot_disconnect, SigTypeOK
<1>6. ~\A t \in SigThreads : doing[t] = Idle
  BY <1>1
<1>7. ASSUME m_connected_slots' = m_connected_slots
      PROVE  m_connected_slots'[s] = m_connected_slots[s]
  BY <1>7
<1> QED
  BY <1>2, <1>3, <1>4, <1>5, <1>6, <1>7
  DEF SigNext, SigThreadStep, signal_copy, has_slots_copy, Quiet, signal_connect,
      signal_disconnect, disconnect_all, disconnect_all_one, emit, emit_calls, slot_returns,
      emit_ends, leave_all, leave_all_ends

\* Every step keeps the connections of a list apart.
LEMMA NoTwinsStep ==
  ASSUME SigInd, SigNext
  PROVE  NoTwins'
<1>0. SigTypeOK /\ NoTwins /\ Living
  BY DEF SigInd
<1>1. ASSUME NEW t \in SigThreads, NEW s \in Signals, NEW o \in Receivers, NEW f \in Slots,
             connect(t, s, o, f)
      PROVE  NoTwins'
  <2> DEFINE conns == m_connected_slots[s]
             c == [dest |-> o, slot |-> f]
  <2>0. conns \in Seq(Connections0) /\ c \in Connections0
    BY <1>0, <1>1 DEF SigTypeOK, Connections0
  <2>2. \A i \in DOMAIN conns : conns[i] # c
    BY <1>1 DEF connect, ToSet
  <2> HIDE DEF conns, c
  <2>1. conns \in Seq(Connections0) /\ c \in Connections0 /\ Len(conns) \in Nat
    BY <2>0
  <2>3. /\ DOMAIN Append(conns, c) = 1 .. Len(conns) + 1
        /\ \A i \in 1 .. Len(conns) : Append(conns, c)[i] = conns[i]
        /\ Append(conns, c)[Len(conns) + 1] = c /\ DOMAIN conns = 1 .. Len(conns)
    BY <2>1
  <2>4. Apart(conns)
    BY <1>0 DEF NoTwins, conns
  <2>5. Apart(Append(conns, c))
    <3>1. ASSUME NEW i \in 1 .. Len(conns) + 1, NEW j \in 1 .. Len(conns) + 1,
                 Append(conns, c)[i] = Append(conns, c)[j]
          PROVE  i = j
      <4>1. CASE i \in 1 .. Len(conns) /\ j \in 1 .. Len(conns)
        BY <2>3, <2>4, <3>1, <4>1 DEF Apart
      <4>2. CASE i \notin 1 .. Len(conns) \/ j \notin 1 .. Len(conns)
        BY <2>1, <2>2, <2>3, <3>1, <4>2
      <4> QED BY <4>1, <4>2
    <3> QED BY <2>3, <3>1 DEF Apart
  <2>6. m_connected_slots' = [m_connected_slots EXCEPT ![s] = Append(conns, c)]
    BY <1>1 DEF connect, conns, c
  <2> QED BY <1>0, <2>5, <2>6 DEF NoTwins, SigTypeOK
<1>2. ASSUME NEW s \in Signals, NEW q, Apart(q),
             m_connected_slots' = [m_connected_slots EXCEPT ![s] = q]
      PROVE  NoTwins'
  BY <1>0, <1>2 DEF NoTwins, SigTypeOK
<1>3. ASSUME NEW t \in SigThreads, NEW s \in Signals, NEW o \in Receivers, disconnect(t, s, o)
      PROVE  NoTwins'
  <2>1. PICK i \in DOMAIN m_connected_slots[s] :
          m_connected_slots' = [m_connected_slots EXCEPT ![s] = RemoveAt(@, i)]
    BY <1>3 DEF disconnect, PlacesTo
  <2>2. Apart(RemoveAt(m_connected_slots[s], i))
    BY <1>0, RemoveAtFacts DEF SigTypeOK, IsPart, NoTwins
  <2> QED BY <1>2, <2>1, <2>2
<1>4. ASSUME NEW t \in SigThreads, disconnect_all_ends(t)
      PROVE  NoTwins'
  <2>1. Apart(<<>>) /\ doing[t].sig \in Signals
    BY <1>4 DEF disconnect_all_ends, Apart, SigInd, Locking, SigOps
  <2> QED BY <1>0, <1>4, <2>1 DEF disconnect_all_ends, NoTwins, SigTypeOK
<1>5. ASSUME NEW t \in SigThreads, NEW s \in Signals, slot_disconnect(t, s)
      PROVE  NoTwins'
  <2>1. Apart(Without(m_connected_slots[s], doing[t].recv))
    BY <1>0, WithoutFacts DEF SigTypeOK, IsPart, NoTwins
  <2> QED BY <1>2, <1>5, <2>1 DEF slot_disconnect
<1>6. ASSUME NEW s \in Signals, NEW copy \in Signals, signal_copy(s, copy)
      PROVE  NoTwins'
  BY <1>0, <1>2, <1>6 DEF signal_copy, NoTwins
<1>7. ASSUME NEW o \in Receivers, NEW copy \in Receivers, has_slots_copy(o, copy)
      PROVE  NoTwins'
  <2>1. ASSUME NEW s \in Signals
        PROVE  Apart(m_connected_slots[s])
               /\ Apart(slot_duplicate(m_connected_slots[s], o, copy))
    <3>1. \A i \in DOMAIN m_connected_slots[s] : m_connected_slots[s][i].dest # copy
      BY <1>0, <1>7 DEF has_slots_copy, Quiet, Living
    <3>2. m_connected_slots[s] \in Seq(Connections0) /\ Apart(m_connected_slots[s])
      BY <1>0 DEF SigTypeOK, NoTwins
    <3> QED BY <3>1, <3>2, DuplicateFacts DEF IsDuplicate
  <2> QED BY <1>7, <2>1 DEF has_slots_copy, NoTwins
<1>8. ASSUME m_connected_slots' = m_connected_slots
      PROVE  NoTwins'
  BY <1>0, <1>8 DEF NoTwins
<1> QED
  BY <1>1, <1>3, <1>4, <1>5, <1>6, <1>7, <1>8
  DEF SigNext, SigThreadStep, signal_connect, signal_disconnect, disconnect_all,
      disconnect_all_one, emit, emit_calls, slot_returns, emit_ends, leave_all, leave_all_ends

\* Every step keeps what is used alive.
LEMMA LivingStep ==
  ASSUME SigInd, SigNext
  PROVE  Living'
<1>0. SigTypeOK /\ Locking /\ Alone /\ Living
  BY LockedAlone DEF SigInd
<1> DEFINE Alive(u) ==
      /\ doing[u].op \in {"connect", "disconnect"} => life[doing[u].recv] = "live"
      /\ doing[u].op = "leave" =>
           life[doing[u].recv] = (IF doing[u].dies THEN "dying" ELSE "live")
    Made(s) == \A i \in DOMAIN m_connected_slots[s] :
                 life[s] # "none" /\ life[m_connected_slots[s][i].dest] # "none"
    AllAlive == \A u \in SigThreads : Alive(u)
    AllMade  == \A s \in Signals : Made(s)
    Uses(u, o) == doing[u].op \in {"connect", "disconnect", "leave"} /\ doing[u].recv = o
<1>1. AllAlive /\ AllMade
  BY <1>0 DEF Living
<1>2. ASSUME AllAlive', AllMade'
      PROVE  Living'
  BY <1>2 DEF Living
<1>3. ASSUME NEW t \in SigThreads, NEW now, doing' = [doing EXCEPT ![t] = now],
             \A u \in SigThreads, o \in Receivers : u # t /\ Uses(u, o) => life'[o] = life[o],
             now.op \in {"connect", "disconnect"} => life'[now.recv] = "live",
             now.op = "leave" => life'[now.recv] = (IF now.dies THEN "dying" ELSE "live")
      PROVE  AllAlive'
  <2>1. doing'[t] = now /\ \A u \in SigThreads : u # t => doing'[u] = doing[u]
    BY <1>0, <1>3, OthersGoOn
  <2>2. ASSUME NEW u \in SigThreads, u # t
        PROVE  Alive(u)'
    BY <1>0, <1>1, <1>3, <2>1, <2>2 DEF Locking
  <2>3. Alive(t)'
    BY <1>3, <2>1
  <2> QED BY <2>2, <2>3
<1>4. ASSUME \A x \in Signals \cup Receivers : life'[x] = "none" => life[x] = "none",
             \A s \in Signals : \A i \in DOMAIN m_connected_slots'[s] :
               \/ \E k \in DOMAIN m_connected_slots[s] :
                    m_connected_slots'[s][i] = m_connected_slots[s][k]
               \/ life'[s] # "none" /\ life'[m_connected_slots'[s][i].dest] # "none"
      PROVE  AllMade'
  <2>1. ASSUME NEW s \in Signals, NEW i \in DOMAIN m_connected_slots'[s]
        PROVE  life'[s] # "none" /\ life'[m_connected_slots'[s][i].dest] # "none"
    <3>1. CASE \E k \in DOMAIN m_connected_slots[s] :
                 m_connected_slots'[s][i] = m_connected_slots[s][k]
      <4>1. PICK k \in DOMAIN m_connected_slots[s] :
              m_connected_slots'[s][i] = m_connected_slots[s][k]
        BY <3>1
      <4>2. m_connected_slots[s][k].dest \in Receivers
        BY <1>0, ListFacts
      <4>3. life[s] # "none" /\ life[m_connected_slots[s][k].dest] # "none"
        BY <1>1
      <4> QED BY <1>4, <4>1, <4>2, <4>3
    <3>2. CASE ~\E k \in DOMAIN m_connected_slots[s] :
                 m_connected_slots'[s][i] = m_connected_slots[s][k]
      BY <1>4, <3>2
    <3> QED BY <3>1, <3>2
  <2> QED BY <2>1
<1> HIDE DEF Alive, Made, AllAlive, AllMade
<1>5. ASSUME \A x \in Signals \cup Receivers : life'[x] = "none" => life[x] = "none",
             m_connected_slots' = m_connected_slots
      PROVE  AllMade'
  BY <1>4, <1>5
<1>6. ASSUME NEW s \in Signals, NEW q, NEW P \in SUBSET DOMAIN m_connected_slots[s],
             IsPart(q, m_connected_slots[s], P), life' = life,
             m_connected_slots' = [m_connected_slots EXCEPT ![s] = q]
      PROVE  AllMade'
  <2>1. m_connected_slots'[s] = q
        /\ \A z \in Signals : z # s => m_connected_slots'[z] = m_connected_slots[z]
    BY <1>0, <1>6 DEF SigTypeOK
  <2>2. \A i \in DOMAIN q : \E k \in DOMAIN m_connected_slots[s] : q[i] = m_connected_slots[s][k]
    BY <1>6 DEF IsPart
  <2> QED BY <1>4, <1>6, <2>1, <2>2
<1>11. ASSUME NEW t \in SigThreads, NEW s \in Signals, NEW o \in Receivers, NEW f \in Slots,
              connect(t, s, o, f)
       PROVE  Living'
  <2> DEFINE now == [Idle EXCEPT !.op = "connect", !.sig = s, !.recv = o]
             conns == m_connected_slots[s]
             c == [dest |-> o, slot |-> f]
  <2>1. now.op = "connect" /\ now.recv = o
    BY DEF Idle
  <2>2. /\ doing' = [doing EXCEPT ![t] = now] /\ life' = life /\ life[o] = "live"
        /\ life[s] = "live"
        /\ m_connected_slots' = [m_connected_slots EXCEPT ![s] = Append(conns, c)]
    BY <1>11 DEF connect, Enter
  <2>3. c.dest = o
    OBVIOUS
  <2> HIDE DEF now, c
  <2>4. AllAlive'
    BY <1>3, <2>1, <2>2
  <2>5. conns \in Seq(Connections0) /\ Len(conns) \in Nat /\ DOMAIN conns = 1 .. Len(conns)
    BY <1>0, ListFacts
  <2>6. m_connected_slots'[s] = Append(conns, c)
        /\ \A z \in Signals : z # s => m_connected_slots'[z] = m_connected_slots[z]
    BY <1>0, <2>2 DEF SigTypeOK
  <2> HIDE DEF conns
  <2>7. \A i \in DOMAIN Append(conns, c) :
          Append(conns, c)[i] = c \/ \E k \in DOMAIN conns : Append(conns, c)[i] = conns[k]
    BY <2>5
  <2>8. AllMade'
    BY <1>4, <2>2, <2>3, <2>6, <2>7 DEF conns
  <2> QED BY <1>2, <2>4, <2>8
<1>12. ASSUME NEW t \in SigThreads, signal_connect(t) \/ signal_disconnect(t) \/ emit_ends(t)
       PROVE  Living'
  <2>1. doing' = [doing EXCEPT ![t] = Idle] /\ life' = life
        /\ m_connected_slots' = m_connected_slots
    BY <1>12 DEF signal_connect, signal_disconnect, emit_ends, Finish
  <2> QED BY <1>2, <1>3, <1>5, <2>1, IdleType
<1>13. ASSUME NEW t \in SigThreads, NEW s \in Signals, NEW o \in Receivers, disconnect(t, s, o)
       PROVE  Living'
  <2> DEFINE now == [Idle EXCEPT !.op = "disconnect", !.sig = s, !.recv = o]
  <2>1. now.op = "disconnect" /\ now.recv = o
    BY DEF Idle
  <2>2. doing' = [doing EXCEPT ![t] = now] /\ life' = life /\ life[o] = "live"
    BY <1>13 DEF disconnect, Enter
  <2> HIDE DEF now
  <2>3. AllAlive'
    BY <1>3, <2>1, <2>2
  <2>4. PICK i \in DOMAIN m_connected_slots[s] :
          m_connected_slots' = [m_connected_slots EXCEPT ![s] = RemoveAt(@, i)]
    BY <1>13 DEF disconnect, PlacesTo
  <2> DEFINE q == RemoveAt(m_connected_slots[s], i)
             P == DOMAIN m_connected_slots[s] \ {i}
  <2>5. IsPart(q, m_connected_slots[s], P) /\ P \in SUBSET DOMAIN m_connected_slots[s]
    BY <1>0, RemoveAtFacts DEF SigTypeOK
  <2>6. m_connected_slots' = [m_connected_slots EXCEPT ![s] = q]
    BY <2>4
  <2> HIDE DEF q, P
  <2>7. AllMade'
    BY <1>6, <2>2, <2>5, <2>6
  <2> QED BY <1>2, <2>3, <2>7
<1>14. ASSUME NEW t \in SigThreads, NEW s \in Signals, NEW dies \in BOOLEAN,
              disconnect_all(t, s, dies)
       PROVE  Living'
  <2> DEFINE now == [Idle EXCEPT !.op = "clear", !.sig = s, !.dies = dies, !.it = First(s)]
  <2>1. now.op = "clear"
    BY DEF Idle
  <2>2. doing' = [doing EXCEPT ![t] = now] /\ m_connected_slots' = m_connected_slots
        /\ life' = IF dies THEN [life EXCEPT ![s] = "dying"] ELSE life
    BY <1>14 DEF disconnect_all, Enter
  <2> HIDE DEF now
  <2>3. \A x \in Signals \cup Receivers : x # s => life'[x] = life[x]
    BY <1>0, <2>2 DEF SigTypeOK
  <2>4. life'[s] # "none" \/ life' = life
    BY <1>0, <2>2 DEF SigTypeOK
  <2>5. s \notin Receivers
    BY SigSlotAssumption
  <2>6. AllAlive'
    BY <1>3, <2>1, <2>2, <2>3, <2>5
  <2>7. AllMade'
    BY <1>5, <2>2, <2>3, <2>4
  <2> QED BY <1>2, <2>6, <2>7
<1>15. ASSUME NEW t \in SigThreads, disconnect_all_one(t) \/ emit_calls(t) \/ slot_returns(t)
       PROVE  Living'
  <2>1. PICK now : /\ now.op \in {"clear", "slot", "emit"} /\ doing' = [doing EXCEPT ![t] = now]
                   /\ life' = life /\ m_connected_slots' = m_connected_slots
    <3>1. doing[t] \in Works
      BY <1>0 DEF SigTypeOK
    <3>2. CASE disconnect_all_one(t)
      BY <3>1, <3>2 DEF disconnect_all_one, Works
    <3>3. CASE emit_calls(t)
      BY <3>1, <3>3 DEF emit_calls, Works
    <3>4. CASE slot_returns(t)
      BY <3>1, <3>4 DEF slot_returns, Works
    <3> QED BY <1>15, <3>2, <3>3, <3>4
  <2>2. AllAlive'
    BY <1>3, <2>1
  <2> QED BY <1>2, <1>5, <2>1, <2>2
<1>16. ASSUME NEW t \in SigThreads, disconnect_all_ends(t)
       PROVE  Living'
  <2> DEFINE s == doing[t].sig
  <2>1. s \in Signals /\ s \notin Receivers
    BY <1>0, <1>16, SigSlotAssumption DEF disconnect_all_ends, Locking, SigOps
  <2>2. /\ doing' = [doing EXCEPT ![t] = Idle]
        /\ m_connected_slots' = [m_connected_slots EXCEPT ![s] = <<>>]
        /\ life' = IF doing[t].dies THEN [life EXCEPT ![s] = "dead"] ELSE life
    BY <1>16 DEF disconnect_all_ends, Finish
  <2> HIDE DEF s
  <2>3. \A x \in Signals \cup Receivers : x # s => life'[x] = life[x]
    BY <1>0, <2>2 DEF SigTypeOK
  <2>4. life'[s] # "none" \/ life' = life
    BY <1>0, <2>1, <2>2 DEF SigTypeOK
  <2>5. AllAlive'
    BY <1>3, <2>1, <2>2, <2>3, IdleType
  <2>6. DOMAIN m_connected_slots'[s] = {}
        /\ \A z \in Signals : z # s => m_connected_slots'[z] = m_connected_slots[z]
    BY <1>0, <2>1, <2>2 DEF SigTypeOK
  <2>7. AllMade'
    BY <1>4, <2>3, <2>4, <2>6
  <2> QED BY <1>2, <2>5, <2>7
<1>17. ASSUME NEW t \in SigThreads, NEW s \in Signals, emit(t, s)
       PROVE  Living'
  <2> DEFINE now == [Idle EXCEPT !.op = "emit", !.sig = s, !.it = First(s)]
  <2>1. now.op = "emit"
    BY DEF Idle
  <2>2. doing' = [doing EXCEPT ![t] = now] /\ m_connected_slots' = m_connected_slots
        /\ life' = life
    BY <1>17 DEF emit, Enter
  <2> HIDE DEF now
  <2> QED BY <1>2, <1>3, <1>5, <2>1, <2>2
<1>18. ASSUME NEW t \in SigThreads, NEW o \in Receivers, NEW dies \in BOOLEAN,
              leave_all(t, o, dies)
       PROVE  Living'
  <2> DEFINE now == [Idle EXCEPT !.op = "leave", !.recv = o, !.dies = dies, !.rest = m_senders[o]]
  <2>1. now.op = "leave" /\ now.recv = o /\ now.dies = dies
    BY DEF Idle
  <2>2. doing' = [doing EXCEPT ![t] = now] /\ m_connected_slots' = m_connected_slots
        /\ life' = (IF dies THEN [life EXCEPT ![o] = "dying"] ELSE life) /\ life[o] = "live"
        /\ (dies => \A u \in SigThreads : doing[u].recv # o)
    BY <1>18 DEF leave_all, Enter
  <2> HIDE DEF now
  <2>3. \A x \in Signals \cup Receivers : x # o => life'[x] = life[x]
    BY <1>0, <2>2 DEF SigTypeOK
  <2>4. life'[o] = IF dies THEN "dying" ELSE "live"
    BY <1>0, <2>2 DEF SigTypeOK
  <2>5. \A u \in SigThreads, z \in Receivers : Uses(u, z) => life'[z] = life[z]
    BY <2>2, <2>3
  <2> HIDE DEF Uses
  <2>6. AllAlive'
    BY <1>3, <2>1, <2>2, <2>4, <2>5
  <2>7. AllMade'
    BY <1>5, <2>2, <2>3, <2>4
  <2> QED BY <1>2, <2>6, <2>7
<1>19. ASSUME NEW t \in SigThreads, NEW s \in Signals, slot_disconnect(t, s)
       PROVE  Living'
  <2> DEFINE now == [doing[t] EXCEPT !.rest = @ \ {s}]
             q == Without(m_connected_slots[s], doing[t].recv)
             P == DOMAIN m_connected_slots[s] \ PlacesTo(m_connected_slots[s], doing[t].recv)
  <2>1. /\ doing[t] \in Works /\ doing[t].op = "leave"
        /\ doing' = [doing EXCEPT ![t] = now] /\ life' = life
        /\ m_connected_slots' = [m_connected_slots EXCEPT ![s] = q]
    BY <1>0, <1>19 DEF slot_disconnect, SigTypeOK
  <2>2. now.op = "leave" /\ now.recv = doing[t].recv /\ now.dies = doing[t].dies
    BY <2>1 DEF Works
  <2>3. life[doing[t].recv] = IF doing[t].dies THEN "dying" ELSE "live"
    BY <1>1, <2>1 DEF AllAlive, Alive
  <2> HIDE DEF now
  <2>4. AllAlive'
    BY <1>3, <2>1, <2>2, <2>3
  <2>5. IsPart(q, m_connected_slots[s], P) /\ P \in SUBSET DOMAIN m_connected_slots[s]
    BY <1>0, WithoutFacts DEF SigTypeOK
  <2> HIDE DEF q, P
  <2>6. AllMade'
    BY <1>6, <2>1, <2>5
  <2> QED BY <1>2, <2>4, <2>6
<1>20. ASSUME NEW t \in SigThreads, leave_all_ends(t)
       PROVE  Living'
  <2> DEFINE o == doing[t].recv
  <2>1. o \in Receivers /\ doing[t].op = "leave"
    BY <1>0, <1>20 DEF leave_all_ends, Locking
  <2>2. /\ doing' = [doing EXCEPT ![t] = Idle] /\ m_connected_slots' = m_connected_slots
        /\ life' = IF doing[t].dies THEN [life EXCEPT ![o] = "dead"] ELSE life
    BY <1>20 DEF leave_all_ends, Finish
  <2>3. \A x \in Signals \cup Receivers : x # o => life'[x] = life[x]
    BY <1>0, <2>2 DEF SigTypeOK
  <2>4. life'[o] # "none" \/ life' = life
    BY <1>0, <2>1, <2>2 DEF SigTypeOK
  <2>5. ASSUME NEW u \in SigThreads, u # t, Uses(u, o), doing[t].dies
        PROVE  FALSE
    <3>1. life[o] = "dying"
      BY <1>1, <2>1, <2>5 DEF AllAlive, Alive
    <3>2. doing[u].op \in {"connect", "disconnect"} => life[o] = "live"
      BY <1>1, <2>5 DEF AllAlive, Alive
    <3>3. doing[u].op # "leave"
      BY <1>0, <2>1, <2>5 DEF Alone, OnObject
    <3> QED BY <2>5, <3>1, <3>2, <3>3
  <2>6. \A u \in SigThreads, z \in Receivers : u # t /\ Uses(u, z) => life'[z] = life[z]
    BY <2>2, <2>3, <2>5
  <2> HIDE DEF o, Uses
  <2>7. AllAlive'
    BY <1>3, <2>2, <2>6, IdleType
  <2>8. AllMade'
    BY <1>5, <2>2, <2>3, <2>4
  <2> QED BY <1>2, <2>7, <2>8
<1>21. ASSUME NEW x, NEW copy \in Signals \cup Receivers, Quiet(x, copy), doing' = doing
       PROVE  AllAlive' /\ \A y \in Signals \cup Receivers : life'[y] = "none" => life[y] = "none"
  BY <1>0, <1>21, IdleType DEF Quiet, SigTypeOK, AllAlive, Alive
<1>22. ASSUME NEW s \in Signals, NEW copy \in Signals, signal_copy(s, copy)
       PROVE  Living'
  <2>1. Quiet(s, copy) /\ doing' = doing
        /\ m_connected_slots' = [m_connected_slots EXCEPT ![copy] = m_connected_slots[s]]
    BY <1>22 DEF signal_copy
  <2>2. m_connected_slots'[copy] = m_connected_slots[s]
        /\ \A z \in Signals : z # copy => m_connected_slots'[z] = m_connected_slots[z]
    BY <1>0, <2>1 DEF SigTypeOK
  <2>3. life'[copy] = "live" /\ life[s] = "live"
        /\ \A z \in Receivers : life'[z] = life[z]
    BY <1>0, <2>1, SigSlotAssumption DEF Quiet, SigTypeOK
  <2>4. \A y \in Signals \cup Receivers : life'[y] = "none" => life[y] = "none"
    BY <1>21, <2>1
  <2>5. \A i \in DOMAIN m_connected_slots[s] :
          m_connected_slots[s][i].dest \in Receivers /\ life[m_connected_slots[s][i].dest] # "none"
    BY <1>0, <1>1, ListFacts DEF AllMade, Made
  <2>6. \A i \in DOMAIN m_connected_slots'[copy] :
          life'[m_connected_slots'[copy][i].dest] # "none"
    BY <2>2, <2>3, <2>5
  <2>7. AllMade'
    BY <1>4, <2>2, <2>3, <2>4, <2>6
  <2> QED BY <1>2, <1>21, <2>1, <2>7
<1>23. ASSUME NEW o \in Receivers, NEW copy \in Receivers, has_slots_copy(o, copy)
       PROVE  Living'
  <2>1. Quiet(o, copy) /\ doing' = doing
        /\ m_connected_slots' =
             [s \in Signals |->
                IF s \in m_senders[o] THEN slot_duplicate(m_connected_slots[s], o, copy)
                ELSE m_connected_slots[s]]
    BY <1>23 DEF has_slots_copy
  <2>2. life'[copy] = "live"
    BY <1>0, <2>1 DEF Quiet, SigTypeOK
  <2>3. ASSUME NEW s \in Signals, NEW n \in DOMAIN m_connected_slots'[s]
        PROVE  \/ \E k \in DOMAIN m_connected_slots[s] :
                    m_connected_slots'[s][n] = m_connected_slots[s][k]
               \/ life'[s] # "none" /\ life'[m_connected_slots'[s][n].dest] # "none"
    <3> DEFINE conns == m_connected_slots[s]
               q == slot_duplicate(conns, o, copy)
    <3>1. CASE s \notin m_senders[o]
      BY <2>1, <2>3, <3>1
    <3>2. CASE s \in m_senders[o]
      <4>1. m_connected_slots'[s] = q
        BY <2>1, <3>2
      <4>2. \A i \in DOMAIN conns : conns[i].dest # copy /\ life[s] # "none"
        BY <1>1, <2>1 DEF AllMade, Made, Quiet
      <4>3. conns \in Seq(Connections0)
        BY <1>0 DEF SigTypeOK
      <4>4. Connected(s, o)
        BY <2>1, <3>2, IdleType DEF SigInd, Sides, KnownIsConnected, Disconnecting, HasLeft,
                                   OnObject, Quiet
      <4>5. life[s] # "none"
        BY <1>0, <4>2, <4>4, ListFacts
      <4> HIDE DEF conns, q
      <4>6. (\E k \in DOMAIN conns : q[n] = conns[k]) \/ q[n].dest = copy
        BY <2>3, <4>1, <4>2, <4>3, DuplicateFacts DEF q, IsDuplicate
      <4>7. life'[s] # "none"
        BY <1>0, <2>1, <4>5 DEF Quiet, SigTypeOK
      <4> QED BY <2>2, <4>1, <4>6, <4>7 DEF conns
    <3> QED BY <3>1, <3>2
  <2>4. AllMade'
    BY <1>4, <1>21, <2>1, <2>3
  <2> QED BY <1>2, <1>21, <2>1, <2>4
<1> QED
  BY <1>11, <1>12, <1>13, <1>14, <1>15, <1>16, <1>17, <1>18, <1>19, <1>20, <1>22, <1>23
  DEF SigNext, SigThreadStep

-----------------------------------------------------------------------------
(* Emission.                                                               *)

\* Where an emission is: at a connection of the list, or at its end.
InList(s, c) ==
  c = End \/ \E i \in DOMAIN m_connected_slots[s] : c = m_connected_slots[s][i]
Emits(t) == doing[t].op \in {"emit", "slot", "clear"}
Places ==
  \A t \in SigThreads : Emits(t) =>
    InList(doing[t].sig, doing[t].it) /\ InList(doing[t].sig, doing[t].itNext)

LEMMA EmissionPlaces == EmissionKeepsItsPlace <=> Places
BY DEF EmissionKeepsItsPlace, Places, Emits, InList, ToSet

\* Every step keeps the place of every emission.
LEMMA EmissionStep ==
  ASSUME SigInd, SigNext
  PROVE  EmissionKeepsItsPlace'
<1>0. SigTypeOK /\ Locking /\ Alone /\ Places /\ NoTwins
  BY LockedAlone, EmissionPlaces DEF SigInd
<1> DEFINE There(u) == Emits(u) => InList(doing[u].sig, doing[u].it)
                                   /\ InList(doing[u].sig, doing[u].itNext)
\* An emission that is not stepped.
<1>1. ASSUME NEW u \in SigThreads, doing'[u] = doing[u]
      PROVE  There(u)'
  <2>1. CASE Emits(u)
    <3> DEFINE s == doing[u].sig
    <3>1. s \in Signals /\ OnSignal(u, s)
      BY <1>0, <2>1 DEF Locking, OnSignal, SigOps, Emits
    <3>2. doing'[u] # Idle
      BY <1>1, <2>1, IdleType DEF Emits
    <3>3. m_connected_slots'[s] = m_connected_slots[s]
      BY <3>1, <3>2, OthersLeaveTheList
    <3> QED BY <1>0, <1>1, <2>1, <3>3 DEF Places, InList
  <2>2. CASE ~Emits(u)
    BY <1>1, <2>2 DEF Emits
  <2> QED BY <2>1, <2>2
\* One that begins, one that goes on, and steps of other operations.
<1>2. ASSUME NEW t \in SigThreads, NEW now, doing' = [doing EXCEPT ![t] = now],
             now.op \in {"emit", "slot", "clear"} =>
               /\ now.sig \in Signals
               /\ m_connected_slots'[now.sig] = m_connected_slots[now.sig]
               /\ InList(now.sig, now.it) /\ InList(now.sig, now.itNext)
      PROVE  EmissionKeepsItsPlace'
  <2>1. doing'[t] = now /\ \A u \in SigThreads : u # t => doing'[u] = doing[u]
    BY <1>0, <1>2, OthersGoOn
  <2>2. There(t)'
    BY <1>2, <2>1 DEF Emits, InList
  <2>3. Places'
    BY <1>1, <2>1, <2>2 DEF Places
  <2> QED BY <2>3, EmissionPlaces, PTL
<1>3. ASSUME NEW s \in Signals PROVE InList(s, First(s)) /\ InList(s, End)
  BY <1>0, FirstFacts DEF InList
<1>4. ASSUME NEW t \in SigThreads, doing[t].op \in {"emit", "clear"}, doing[t].it # End
      PROVE  InList(doing[t].sig, After(doing[t].sig, doing[t].it))
  <2> DEFINE s == doing[t].sig
             conns == m_connected_slots[s]
  <2>1. s \in Signals
    BY <1>0, <1>4 DEF Locking, SigOps
  <2>2. PICK i \in DOMAIN conns : doing[t].it = conns[i]
    BY <1>0, <1>4 DEF Places, Emits, InList
  <2>3. After(s, conns[i]) = End \/ \E k \in DOMAIN conns : After(s, conns[i]) = conns[k]
    BY <1>0, <2>1, <2>2, AfterFacts
  <2> QED BY <2>2, <2>3 DEF InList
<1>11. ASSUME NEW t \in SigThreads, NEW s \in Signals, NEW o \in Receivers, NEW f \in Slots,
              connect(t, s, o, f)
       PROVE  EmissionKeepsItsPlace'
  <2> DEFINE now == [Idle EXCEPT !.op = "connect", !.sig = s, !.recv = o]
  <2>1. now.op = "connect" /\ doing' = [doing EXCEPT ![t] = now]
    BY <1>11 DEF connect, Enter, Idle
  <2> HIDE DEF now
  <2> QED BY <1>2, <2>1
<1>12. ASSUME NEW t \in SigThreads, NEW s \in Signals, NEW o \in Receivers, disconnect(t, s, o)
       PROVE  EmissionKeepsItsPlace'
  <2> DEFINE now == [Idle EXCEPT !.op = "disconnect", !.sig = s, !.recv = o]
  <2>1. now.op = "disconnect" /\ doing' = [doing EXCEPT ![t] = now]
    BY <1>12 DEF disconnect, Enter, Idle
  <2> HIDE DEF now
  <2> QED BY <1>2, <2>1
<1>13. ASSUME NEW t \in SigThreads, NEW x, Finish(t, x)
       PROVE  EmissionKeepsItsPlace'
  BY <1>2, <1>13, IdleType DEF Finish
<1>14. ASSUME NEW t \in SigThreads, NEW s \in Signals, NEW dies \in BOOLEAN,
              disconnect_all(t, s, dies)
       PROVE  EmissionKeepsItsPlace'
  <2> DEFINE now == [Idle EXCEPT !.op = "clear", !.sig = s, !.dies = dies, !.it = First(s)]
  <2>1. now.sig = s /\ now.it = First(s) /\ now.itNext = End
    BY DEF Idle
  <2>2. doing' = [doing EXCEPT ![t] = now] /\ m_connected_slots' = m_connected_slots
    BY <1>14 DEF disconnect_all, Enter
  <2> HIDE DEF now
  <2> QED BY <1>2, <1>3, <2>1, <2>2
<1>15. ASSUME NEW t \in SigThreads, disconnect_all_one(t)
       PROVE  EmissionKeepsItsPlace'
  <2> DEFINE now == [doing[t] EXCEPT !.it = After(doing[t].sig, doing[t].it)]
  <2>1. /\ doing[t] \in Works /\ doing[t].op = "clear" /\ doing[t].it # End
        /\ doing' = [doing EXCEPT ![t] = now] /\ m_connected_slots' = m_connected_slots
    BY <1>0, <1>15 DEF disconnect_all_one, SigTypeOK
  <2>2. /\ now.sig = doing[t].sig /\ now.it = After(doing[t].sig, doing[t].it)
        /\ now.itNext = doing[t].itNext
    BY <2>1 DEF Works
  <2>3. doing[t].sig \in Signals /\ InList(doing[t].sig, doing[t].itNext)
    BY <1>0, <2>1 DEF Locking, SigOps, Places, Emits
  <2> HIDE DEF now
  <2> QED BY <1>2, <1>4, <2>1, <2>2, <2>3
<1>16. ASSUME NEW t \in SigThreads, NEW s \in Signals, emit(t, s)
       PROVE  EmissionKeepsItsPlace'
  <2> DEFINE now == [Idle EXCEPT !.op = "emit", !.sig = s, !.it = First(s)]
  <2>1. now.sig = s /\ now.it = First(s) /\ now.itNext = End
    BY DEF Idle
  <2>2. doing' = [doing EXCEPT ![t] = now] /\ m_connected_slots' = m_connected_slots
    BY <1>16 DEF emit, Enter
  <2> HIDE DEF now
  <2> QED BY <1>2, <1>3, <2>1, <2>2
<1>17. ASSUME NEW t \in SigThreads, emit_calls(t)
       PROVE  EmissionKeepsItsPlace'
  <2> DEFINE now == [doing[t] EXCEPT !.op = "slot",
                                     !.itNext = After(doing[t].sig, doing[t].it)]
  <2>1. /\ doing[t] \in Works /\ doing[t].op = "emit" /\ doing[t].it # End
        /\ doing' = [doing EXCEPT ![t] = now] /\ m_connected_slots' = m_connected_slots
    BY <1>0, <1>17 DEF emit_calls, SigTypeOK
  <2>2. /\ now.sig = doing[t].sig /\ now.itNext = After(doing[t].sig, doing[t].it)
        /\ now.it = doing[t].it
    BY <2>1 DEF Works
  <2>3. doing[t].sig \in Signals /\ InList(doing[t].sig, doing[t].it)
    BY <1>0, <2>1 DEF Locking, SigOps, Places, Emits
  <2> HIDE DEF now
  <2> QED BY <1>2, <1>4, <2>1, <2>2, <2>3
<1>18. ASSUME NEW t \in SigThreads, slot_returns(t)
       PROVE  EmissionKeepsItsPlace'
  <2> DEFINE now == [doing[t] EXCEPT !.op = "emit", !.it = doing[t].itNext]
  <2>1. /\ doing[t] \in Works /\ doing[t].op = "slot"
        /\ doing' = [doing EXCEPT ![t] = now] /\ m_connected_slots' = m_connected_slots
    BY <1>0, <1>18 DEF slot_returns, SigTypeOK
  <2>2. /\ now.sig = doing[t].sig /\ now.itNext = doing[t].itNext
        /\ now.it = doing[t].itNext
    BY <2>1 DEF Works
  <2>3. doing[t].sig \in Signals /\ InList(doing[t].sig, doing[t].itNext)
    BY <1>0, <2>1 DEF Locking, SigOps, Places, Emits
  <2> HIDE DEF now
  <2> QED BY <1>2, <2>1, <2>2, <2>3
<1>19. ASSUME NEW t \in SigThreads, NEW o \in Receivers, NEW dies \in BOOLEAN,
              leave_all(t, o, dies)
       PROVE  EmissionKeepsItsPlace'
  <2> DEFINE now == [Idle EXCEPT !.op = "leave", !.recv = o, !.dies = dies, !.rest = m_senders[o]]
  <2>1. now.op = "leave" /\ doing' = [doing EXCEPT ![t] = now]
    BY <1>19 DEF leave_all, Enter, Idle
  <2> HIDE DEF now
  <2> QED BY <1>2, <2>1
<1>20. ASSUME NEW t \in SigThreads, NEW s \in Signals, slot_disconnect(t, s)
       PROVE  EmissionKeepsItsPlace'
  <2> DEFINE now == [doing[t] EXCEPT !.rest = @ \ {s}]
  <2>1. /\ doing[t] \in Works /\ doing[t].op = "leave" /\ doing' = [doing EXCEPT ![t] = now]
    BY <1>0, <1>20 DEF slot_disconnect, SigTypeOK
  <2>2. now.op = "leave"
    BY <2>1 DEF Works
  <2> HIDE DEF now
  <2> QED BY <1>2, <2>1, <2>2
<1>21. ASSUME doing' = doing
       PROVE  EmissionKeepsItsPlace'
  <2>1. Places'
    BY <1>1, <1>21 DEF Places
  <2> QED BY <2>1, EmissionPlaces, PTL
<1> QED
  BY <1>11, <1>12, <1>13, <1>14, <1>15, <1>16, <1>17, <1>18, <1>19, <1>20, <1>21
  DEF SigNext, SigThreadStep, signal_connect, signal_disconnect, disconnect_all_ends,
      emit_ends, leave_all_ends, signal_copy, has_slots_copy

-----------------------------------------------------------------------------
(* The two sides of a connection.                                          *)

\* What a step of thread t makes of what is under way at a signal it is not inside of.
LEMMA RolesElsewhere ==
  ASSUME SigTypeOK, NEW t \in SigThreads, NEW now, doing' = [doing EXCEPT ![t] = now],
         NEW s \in Signals, m_connected_slots'[s] = m_connected_slots[s],
         doing[t].op \in SigOps => doing[t].sig # s, now.op \in SigOps => now.sig # s
  PROVE  /\ \A i : Passed(s, i)' <=> Passed(s, i)
         /\ \A o : Connecting(s, o)' <=> Connecting(s, o)
         /\ \A o : Disconnecting(s, o)' <=> Disconnecting(s, o)
<1>1. doing'[t] = now /\ \A u \in SigThreads : u # t => doing'[u] = doing[u]
  BY OthersGoOn
<1>2. ASSUME NEW i PROVE Passed(s, i)' <=> Passed(s, i)
  BY <1>1 DEF Passed, SigOps
<1>3. ASSUME NEW o PROVE Connecting(s, o)' <=> Connecting(s, o)
  BY <1>1 DEF Connecting, SigOps
<1>4. ASSUME NEW o PROVE Disconnecting(s, o)' <=> Disconnecting(s, o)
  BY <1>1 DEF Disconnecting, SigOps
<1> QED BY <1>2, <1>3, <1>4

\* What is under way at a signal that only thread t may be inside of.
FreedBy(d, s, i, conns) ==
  /\ d.op = "clear" /\ d.sig = s
  /\ d.it = End \/ \E j \in DOMAIN conns : conns[j] = d.it /\ i < j

LEMMA RolesHere ==
  ASSUME SigTypeOK, NEW t \in SigThreads, NEW s \in Signals,
         \A u \in SigThreads : u # t => ~OnSignal(u, s)
  PROVE  /\ \A i : Passed(s, i) <=> FreedBy(doing[t], s, i, m_connected_slots[s])
         /\ \A o : Connecting(s, o) <=>
              doing[t].op = "connect" /\ doing[t].sig = s /\ doing[t].recv = o
         /\ \A o : Disconnecting(s, o) <=>
              doing[t].op = "disconnect" /\ doing[t].sig = s /\ doing[t].recv = o
BY DEF Passed, FreedBy, Connecting, Disconnecting, OnSignal, SigOps

LEMMA RolesHereAfter ==
  ASSUME SigTypeOK, NEW t \in SigThreads, NEW now, doing' = [doing EXCEPT ![t] = now],
         NEW s \in Signals, \A u \in SigThreads : u # t => ~OnSignal(u, s)
  PROVE  /\ \A i : Passed(s, i)' <=> FreedBy(now, s, i, m_connected_slots'[s])
         /\ \A o : Connecting(s, o)' <=> now.op = "connect" /\ now.sig = s /\ now.recv = o
         /\ \A o : Disconnecting(s, o)' <=>
              now.op = "disconnect" /\ now.sig = s /\ now.recv = o
<1>1. doing'[t] = now /\ \A u \in SigThreads : u # t => doing'[u] = doing[u]
  BY OthersGoOn
<1> QED BY <1>1 DEF Passed, FreedBy, Connecting, Disconnecting, OnSignal, SigOps

\* Steps that are not of an object's operation leave those where they are.
LEMMA LeavingKept ==
  ASSUME SigTypeOK, NEW t \in SigThreads, NEW now, doing' = [doing EXCEPT ![t] = now],
         doing[t].op # "leave", now.op # "leave"
  PROVE  \A s, o : HasLeft(s, o)' <=> HasLeft(s, o)
<1>1. doing'[t] = now /\ \A u \in SigThreads : u # t => doing'[u] = doing[u]
  BY OthersGoOn
<1> QED BY <1>1 DEF HasLeft, OnObject

\* The sides of a signal agree as before if what they say stays.
LEMMA SideKept ==
  ASSUME SigTypeOK, NEW s \in Signals, KnownIsConnected(s), ConnectedIsKnown(s),
         m_connected_slots'[s] = m_connected_slots[s],
         \A i : Passed(s, i)' <=> Passed(s, i),
         \A o \in Receivers :
           /\ s \in m_senders'[o] <=> s \in m_senders[o]
           /\ <<s, o>> \in doubled => <<s, o>> \in doubled'
           /\ Connecting(s, o)' <=> Connecting(s, o)
           /\ Disconnecting(s, o)' <=> Disconnecting(s, o)
           /\ HasLeft(s, o) => HasLeft(s, o)'
           /\ HasLeft(s, o)' /\ s \in m_senders[o] => HasLeft(s, o)
           /\ life'[o] = "dead" => life[o] = "dead"
  PROVE  KnownIsConnected(s)' /\ ConnectedIsKnown(s)'
<1>1. KnownIsConnected(s)'
  <2>1. \A o \in Receivers : Connected(s, o)' <=> Connected(s, o)
    BY DEF Connected
  <2> QED BY <2>1 DEF KnownIsConnected
<1>2. ASSUME NEW i \in DOMAIN m_connected_slots[s], NEW o \in Receivers,
             o = m_connected_slots[s][i].dest
      PROVE  IF Passed(s, i)' THEN s \notin m_senders'[o] ELSE Known(s, o)'
  BY <1>2 DEF ConnectedIsKnown, Known
<1>3. \A i \in DOMAIN m_connected_slots[s] : m_connected_slots[s][i].dest \in Receivers
  BY ListFacts
<1> QED BY <1>1, <1>2, <1>3 DEF ConnectedIsKnown

\* A step of an operation of signal q touches the connections of q only.
LEMMA SidesOfOne ==
  ASSUME SigInd, NEW t \in SigThreads, NEW now, doing' = [doing EXCEPT ![t] = now],
         NEW q \in Signals, \A u \in SigThreads : u # t => ~OnSignal(u, q),
         doing[t].op # "leave", now.op # "leave",
         doing[t].op \in SigOps => doing[t].sig = q, now.op \in SigOps => now.sig = q,
         \A s \in Signals : s # q =>
           /\ m_connected_slots'[s] = m_connected_slots[s]
           /\ \A o \in Receivers : /\ s \in m_senders'[o] <=> s \in m_senders[o]
                                   /\ <<s, o>> \in doubled <=> <<s, o>> \in doubled',
         \A o \in Receivers : life'[o] = life[o],
         now.op = "connect" => Connected(q, now.recv)',
         now.op = "disconnect" /\ Connected(q, now.recv)' => <<q, now.recv>> \in doubled',
         KnownIsConnected(q)', ConnectedIsKnown(q)'
  PROVE  Sides'
<1>0. SigTypeOK /\ Locking /\ Sides
  BY DEF SigInd
<1>1. doing'[t] = now /\ \A u \in SigThreads : u # t => doing'[u] = doing[u]
  BY <1>0, OthersGoOn
<1>2. \A s, o : HasLeft(s, o)' <=> HasLeft(s, o)
  BY <1>0, LeavingKept
<1>3. ASSUME NEW s \in Signals, s # q
      PROVE  KnownIsConnected(s)' /\ ConnectedIsKnown(s)'
  <2>1. /\ \A i : Passed(s, i)' <=> Passed(s, i)
        /\ \A o : Connecting(s, o)' <=> Connecting(s, o)
        /\ \A o : Disconnecting(s, o)' <=> Disconnecting(s, o)
    BY <1>0, <1>3, RolesElsewhere
  <2>2. KnownIsConnected(s) /\ ConnectedIsKnown(s)
    BY <1>0 DEF Sides
  <2> QED BY <1>0, <1>2, <1>3, <2>1, <2>2, SideKept
<1>4. ASSUME NEW u \in SigThreads, u # t, doing[u].op \in {"connect", "disconnect"}
      PROVE  /\ doing[u].op = "connect" => Connected(doing[u].sig, doing[u].recv)'
             /\ doing[u].op = "disconnect" /\ Connected(doing[u].sig, doing[u].recv)' =>
                  <<doing[u].sig, doing[u].recv>> \in doubled'
  <2> DEFINE s == doing[u].sig
             o == doing[u].recv
  <2>1. s \in Signals /\ o \in Receivers /\ s # q
    BY <1>0, <1>4 DEF Locking, SigOps, OnSignal
  <2>2. Connected(s, o)' <=> Connected(s, o)
    BY <1>1, <1>4, <2>1 DEF Connected
  <2>3. (doing[u].op = "connect" => Connected(s, o))
        /\ (doing[u].op = "disconnect" /\ Connected(s, o) => <<s, o>> \in doubled)
    BY <1>0 DEF Sides, OneSideFirst
  <2>4. doing'[u] = doing[u]
    BY <1>1, <1>4
  <2> QED BY <2>1, <2>2, <2>3, <2>4
<1>5. OneSideFirst'
  BY <1>1, <1>4, SigSlotAssumption DEF OneSideFirst, SigOps
<1> QED BY <1>3, <1>5 DEF Sides

\* A signal is connected to an object by some place of its list.
PlacesConnect ==
  \A s, o : Connected(s, o) <=>
    \E i \in DOMAIN m_connected_slots[s] : m_connected_slots[s][i].dest = o
LEMMA ConnectedPlaces == PlacesConnect
BY DEF PlacesConnect, Connected, ToSet

\* Nobody else is inside of a signal that thread t enters, or is inside of.
LEMMA AloneAtSignal ==
  ASSUME SigInd, NEW t \in SigThreads, NEW q \in Signals, Free(q) \/ OnSignal(t, q)
  PROVE  \A u \in SigThreads : u # t => ~OnSignal(u, q)
BY LockedAlone DEF SigInd, Alone

\* emit and what follows change neither side.
LEMMA EmitSides ==
  ASSUME SigInd, NEW t \in SigThreads, NEW now, doing' = [doing EXCEPT ![t] = now],
         doing[t].op \in {"idle", "emit", "slot"}, now.op \in {"idle", "emit", "slot"},
         UNCHANGED <<m_connected_slots, m_senders, life, doubled>>
  PROVE  Sides'
<1>0. SigTypeOK /\ Locking /\ Sides
  BY DEF SigInd
<1>1. doing'[t] = now /\ \A u \in SigThreads : u # t => doing'[u] = doing[u]
  BY <1>0, OthersGoOn
<1>2. \A s, o : HasLeft(s, o)' <=> HasLeft(s, o)
  BY <1>0, LeavingKept
<1>3. ASSUME NEW s \in Signals
      PROVE  KnownIsConnected(s)' /\ ConnectedIsKnown(s)'
  <2>1. /\ \A i : Passed(s, i)' <=> Passed(s, i)
        /\ \A o : Connecting(s, o)' <=> Connecting(s, o)
        /\ \A o : Disconnecting(s, o)' <=> Disconnecting(s, o)
    BY <1>1 DEF Passed, Connecting, Disconnecting
  <2>2. KnownIsConnected(s) /\ ConnectedIsKnown(s)
    BY <1>0 DEF Sides
  <2> QED BY <1>0, <1>2, <2>1, <2>2, SideKept
<1>4. OneSideFirst'
  BY <1>0, <1>1 DEF Sides, OneSideFirst, Connected
<1> QED BY <1>3, <1>4 DEF Sides

\* connect: the list has the connection, and the object is told next.
LEMMA ConnectSides ==
  ASSUME SigInd, NEW t \in SigThreads, NEW q \in Signals, NEW p \in Receivers, NEW f \in Slots,
         connect(t, q, p, f)
  PROVE  Sides'
<1> DEFINE now == [Idle EXCEPT !.op = "connect", !.sig = q, !.recv = p]
           conns == m_connected_slots[q]
           c == [dest |-> p, slot |-> f]
<1>0. SigTypeOK /\ Locking /\ Sides
  BY DEF SigInd
<1>1. /\ doing' = [doing EXCEPT ![t] = now] /\ doing[t] = Idle /\ Free(q)
      /\ m_connected_slots' = [m_connected_slots EXCEPT ![q] = Append(conns, c)]
      /\ UNCHANGED <<m_senders, life, doubled>>
  BY DEF connect, Enter
<1>2. now.op = "connect" /\ now.sig = q /\ now.recv = p /\ c.dest = p
  BY DEF Idle
<1>3. \A u \in SigThreads : u # t => ~OnSignal(u, q)
  BY <1>1, AloneAtSignal
<1>4. doing[t].op = "idle"
  BY <1>1, IdleType
<1>5. /\ m_connected_slots'[q] = Append(conns, c)
      /\ \A s \in Signals : s # q => m_connected_slots'[s] = m_connected_slots[s]
  BY <1>0, <1>1 DEF SigTypeOK
<1>6. conns \in Seq(Connections0) /\ Len(conns) \in Nat /\ DOMAIN conns = 1 .. Len(conns)
      /\ \A i \in DOMAIN conns : conns[i].dest \in Receivers
  BY <1>0, ListFacts
<1> HIDE DEF now, c, conns
<1>7. /\ DOMAIN Append(conns, c) = 1 .. Len(conns) + 1
      /\ \A i \in 1 .. Len(conns) : Append(conns, c)[i] = conns[i]
      /\ Append(conns, c)[Len(conns) + 1] = c
  BY <1>6
<1>8. /\ \A i : ~Passed(q, i)
      /\ \A o : ~Connecting(q, o) /\ ~Disconnecting(q, o)
  BY <1>0, <1>3, <1>4, RolesHere DEF FreedBy
<1>9. /\ \A i : ~Passed(q, i)'
      /\ \A o : Connecting(q, o)' <=> o = p
  <2>1. /\ \A i : Passed(q, i)' <=> FreedBy(now, q, i, m_connected_slots'[q])
        /\ \A o : Connecting(q, o)' <=> now.op = "connect" /\ now.sig = q /\ now.recv = o
    BY <1>0, <1>1, <1>3, RolesHereAfter
  <2> QED BY <1>2, <2>1 DEF FreedBy
<1>10. \A s, o : HasLeft(s, o)' <=> HasLeft(s, o)
  BY <1>0, <1>1, <1>2, <1>4, LeavingKept
<1>11. \A o : Connected(q, o)' <=> o = p \/ Connected(q, o)
  <2>1. PlacesConnect'
    BY ConnectedPlaces, PTL
  <2>2. \A o : Connected(q, o)' <=> \E i \in DOMAIN Append(conns, c) : Append(conns, c)[i].dest = o
    BY <1>5, <2>1 DEF PlacesConnect
  <2>3. \A o : Connected(q, o) <=> \E i \in DOMAIN conns : conns[i].dest = o
    BY ConnectedPlaces DEF PlacesConnect, conns
  <2> QED BY <1>2, <1>6, <1>7, <2>2, <2>3
<1>12. KnownIsConnected(q) /\ ConnectedIsKnown(q)
  BY <1>0 DEF Sides
<1>13. KnownIsConnected(q)'
  BY <1>1, <1>8, <1>10, <1>11, <1>12 DEF KnownIsConnected
<1>14. ASSUME NEW i \in DOMAIN Append(conns, c), NEW o, o = Append(conns, c)[i].dest
       PROVE  Known(q, o)'
  <2>1. CASE i \in DOMAIN conns
    <3>1. o = conns[i].dest
      BY <1>6, <1>7, <1>14, <2>1
    <3>2. Known(q, o)
      BY <1>8, <1>12, <2>1, <3>1 DEF ConnectedIsKnown, conns
    <3> QED BY <1>1, <1>8, <1>10, <3>2 DEF Known
  <2>2. CASE i \notin DOMAIN conns
    <3>1. o = p
      BY <1>2, <1>6, <1>7, <1>14, <2>2
    <3> QED BY <1>9, <3>1 DEF Known
  <2> QED BY <2>1, <2>2
<1>15. ConnectedIsKnown(q)'
  BY <1>5, <1>9, <1>14 DEF ConnectedIsKnown
<1> QED BY <1>1, <1>2, <1>3, <1>4, <1>5, <1>11, <1>13, <1>15, SidesOfOne DEF SigOps

\* signal_connect: the object knows of the signal too.
LEMMA SignalConnectSides ==
  ASSUME SigInd, NEW t \in SigThreads, signal_connect(t)
  PROVE  Sides'
<1>0. SigTypeOK /\ Locking /\ Sides /\ Alone /\ Living
  BY LockedAlone DEF SigInd
<1>1. PICK q \in Signals, p \in Receivers : q = doing[t].sig /\ p = doing[t].recv
  BY <1>0 DEF signal_connect, Locking, SigOps
<1>2. /\ doing[t].op = "connect" /\ Free(p) /\ doing' = [doing EXCEPT ![t] = Idle]
      /\ m_senders' = [m_senders EXCEPT ![p] = @ \cup {q}] /\ doubled' = doubled \ {<<q, p>>}
      /\ UNCHANGED <<m_connected_slots, life>>
  BY <1>1 DEF signal_connect, Finish
<1>3. \A u \in SigThreads : u # t => ~OnSignal(u, q)
  BY <1>1, <1>2, AloneAtSignal DEF OnSignal, SigOps
<1>4. /\ m_senders'[p] = m_senders[p] \cup {q}
      /\ \A o \in Receivers : o # p => m_senders'[o] = m_senders[o]
  BY <1>0, <1>2 DEF SigTypeOK
<1>5. /\ \A i : ~Passed(q, i)' /\ ~Passed(q, i)
      /\ \A o : Connecting(q, o) <=> o = p
      /\ \A o : ~Connecting(q, o)' /\ ~Disconnecting(q, o)
  <2>1. /\ \A i : ~Passed(q, i)
        /\ \A o : (Connecting(q, o) <=> o = p) /\ ~Disconnecting(q, o)
    BY <1>0, <1>1, <1>2, <1>3, RolesHere DEF FreedBy
  <2>2. /\ \A i : ~Passed(q, i)'
        /\ \A o : ~Connecting(q, o)'
    BY <1>0, <1>2, <1>3, IdleType, RolesHereAfter DEF FreedBy
  <2> QED BY <2>1, <2>2
<1>6. \A s, o : HasLeft(s, o)' <=> HasLeft(s, o)
  BY <1>0, <1>2, IdleType, LeavingKept
<1>7. \A o : Connected(q, o)' <=> Connected(q, o)
  BY <1>2 DEF Connected
<1>8. KnownIsConnected(q) /\ ConnectedIsKnown(q)
  BY <1>0 DEF Sides
<1>9. Connected(q, p)
  BY <1>0, <1>1, <1>2 DEF Sides, OneSideFirst
<1>10. KnownIsConnected(q)'
  BY <1>4, <1>5, <1>6, <1>7, <1>8, <1>9 DEF KnownIsConnected
<1>11. ~HasLeft(q, p) /\ life[p] # "dead"
  BY <1>0, <1>1, <1>2 DEF HasLeft, Alone, Living
<1>12. ASSUME NEW o \in Receivers, Known(q, o)
       PROVE  Known(q, o)'
  BY <1>2, <1>4, <1>5, <1>6, <1>11, <1>12 DEF Known
<1>13. \A i \in DOMAIN m_connected_slots[q] : m_connected_slots[q][i].dest \in Receivers
  BY <1>0, ListFacts
<1>14. ConnectedIsKnown(q)'
  BY <1>2, <1>5, <1>8, <1>12, <1>13 DEF ConnectedIsKnown
<1>15. \A s \in Signals, o \in Receivers :
         s # q => /\ s \in m_senders'[o] <=> s \in m_senders[o]
                  /\ <<s, o>> \in doubled <=> <<s, o>> \in doubled'
  BY <1>2, <1>4
<1> QED BY <1>1, <1>2, <1>3, <1>10, <1>14, <1>15, IdleType, SidesOfOne DEF SigOps

\* disconnect: the first connection to the object is gone, and the object is told next.
LEMMA DisconnectSides ==
  ASSUME SigInd, NEW t \in SigThreads, NEW q \in Signals, NEW p \in Receivers,
         disconnect(t, q, p)
  PROVE  Sides'
<1> DEFINE now == [Idle EXCEPT !.op = "disconnect", !.sig = q, !.recv = p]
           conns == m_connected_slots[q]
           places == PlacesTo(conns, p)
<1>0. SigTypeOK /\ Locking /\ Sides
  BY DEF SigInd
<1>1. /\ doing' = [doing EXCEPT ![t] = now] /\ doing[t] = Idle /\ Free(q)
      /\ UNCHANGED <<m_senders, life>>
  BY DEF disconnect, Enter
<1>2. PICK i \in places :
        /\ m_connected_slots' = [m_connected_slots EXCEPT ![q] = RemoveAt(conns, i)]
        /\ doubled' = IF places # {i} THEN doubled \cup {<<q, p>>} ELSE doubled \ {<<q, p>>}
  BY DEF disconnect
<1>3. now.op = "disconnect" /\ now.sig = q /\ now.recv = p
  BY DEF Idle
<1>4. \A u \in SigThreads : u # t => ~OnSignal(u, q)
  BY <1>1, AloneAtSignal
<1>5. doing[t].op = "idle"
  BY <1>1, IdleType
<1>6. conns \in Seq(Connections0) /\ i \in DOMAIN conns
      /\ \A k \in DOMAIN conns : conns[k].dest \in Receivers /\ (k \in places <=> conns[k].dest = p)
  BY <1>0, ListFacts DEF PlacesTo
<1> DEFINE list == RemoveAt(conns, i)
<1>7. IsPart(list, conns, DOMAIN conns \ {i})
  BY <1>6, RemoveAtFacts
<1>8. /\ m_connected_slots'[q] = list
      /\ \A s \in Signals : s # q => m_connected_slots'[s] = m_connected_slots[s]
  BY <1>0, <1>2 DEF SigTypeOK
<1> HIDE DEF now, conns, places, list
<1>9. /\ \A k : ~Passed(q, k)
      /\ \A o : ~Connecting(q, o) /\ ~Disconnecting(q, o)
  BY <1>0, <1>4, <1>5, RolesHere DEF FreedBy
<1>10. /\ \A k : ~Passed(q, k)'
       /\ \A o : Disconnecting(q, o)' <=> o = p
  <2>1. /\ \A k : Passed(q, k)' <=> FreedBy(now, q, k, m_connected_slots'[q])
        /\ \A o : Disconnecting(q, o)' <=> now.op = "disconnect" /\ now.sig = q /\ now.recv = o
    BY <1>0, <1>1, <1>4, RolesHereAfter
  <2> QED BY <1>3, <2>1 DEF FreedBy
<1>11. \A s, o : HasLeft(s, o)' <=> HasLeft(s, o)
  BY <1>0, <1>1, <1>3, <1>5, LeavingKept
<1>12. /\ \A o : Connected(q, o)' <=> \E n \in DOMAIN list : list[n].dest = o
       /\ \A o : Connected(q, o) <=> \E k \in DOMAIN conns : conns[k].dest = o
  <2>1. PlacesConnect'
    BY ConnectedPlaces, PTL
  <2>2. \A o : Connected(q, o)' <=> \E n \in DOMAIN list : list[n].dest = o
    BY <1>8, <2>1 DEF PlacesConnect
  <2>3. \A o : Connected(q, o) <=> \E k \in DOMAIN conns : conns[k].dest = o
    BY ConnectedPlaces DEF PlacesConnect, conns
  <2> QED BY <2>2, <2>3
<1>13. ASSUME NEW o, o # p, Connected(q, o)
       PROVE  Connected(q, o)'
  BY <1>6, <1>7, <1>12, <1>13 DEF IsPart
<1>14. KnownIsConnected(q) /\ ConnectedIsKnown(q)
  BY <1>0 DEF Sides
<1>15. KnownIsConnected(q)'
  BY <1>1, <1>9, <1>10, <1>11, <1>13, <1>14 DEF KnownIsConnected
<1>16. ASSUME NEW n \in DOMAIN list, NEW o, o = list[n].dest
       PROVE  Known(q, o)' /\ (o = p => <<q, p>> \in doubled')
  <2>1. PICK k \in DOMAIN conns \ {i} : list[n] = conns[k]
    BY <1>7 DEF IsPart
  <2>2. o = conns[k].dest
    BY <1>16, <2>1
  <2>3. Known(q, o)
    BY <1>9, <1>14, <2>2 DEF ConnectedIsKnown, conns
  <2>4. CASE o # p
    <3>1. <<q, o>> \in doubled <=> <<q, o>> \in doubled'
      BY <1>2, <2>4
    <3> QED BY <1>1, <1>9, <1>11, <2>3, <2>4, <3>1 DEF Known
  <2>5. CASE o = p
    <3>1. places # {i}
      BY <1>6, <2>1, <2>2, <2>5
    <3> QED BY <1>2, <2>5, <3>1 DEF Known
  <2> QED BY <2>4, <2>5
<1>17. ConnectedIsKnown(q)'
  BY <1>8, <1>10, <1>16 DEF ConnectedIsKnown
<1>18. Connected(q, p)' => <<q, p>> \in doubled'
  BY <1>12, <1>16
<1>19. \A s \in Signals, o \in Receivers :
         s # q => (<<s, o>> \in doubled <=> <<s, o>> \in doubled')
  BY <1>2
<1> QED BY <1>1, <1>3, <1>4, <1>5, <1>8, <1>15, <1>17, <1>18, <1>19, SidesOfOne DEF SigOps

\* signal_disconnect: the object does not know of the signal any more.
LEMMA SignalDisconnectSides ==
  ASSUME SigInd, NEW t \in SigThreads, signal_disconnect(t)
  PROVE  Sides'
<1>0. SigTypeOK /\ Locking /\ Sides
  BY DEF SigInd
<1>1. PICK q \in Signals, p \in Receivers : q = doing[t].sig /\ p = doing[t].recv
  BY <1>0 DEF signal_disconnect, Locking, SigOps
<1>2. /\ doing[t].op = "disconnect" /\ doing' = [doing EXCEPT ![t] = Idle]
      /\ m_senders' = [m_senders EXCEPT ![p] = @ \ {q}]
      /\ UNCHANGED <<m_connected_slots, life, doubled>>
  BY <1>1 DEF signal_disconnect, Finish
<1>3. \A u \in SigThreads : u # t => ~OnSignal(u, q)
  BY <1>1, <1>2, AloneAtSignal DEF OnSignal, SigOps
<1>4. /\ m_senders'[p] = m_senders[p] \ {q}
      /\ \A o \in Receivers : o # p => m_senders'[o] = m_senders[o]
  BY <1>0, <1>2 DEF SigTypeOK
<1>5. /\ \A i : ~Passed(q, i)' /\ ~Passed(q, i)
      /\ \A o : ~Connecting(q, o) /\ (Disconnecting(q, o) <=> o = p)
  <2>1. /\ \A i : ~Passed(q, i)
        /\ \A o : ~Connecting(q, o) /\ (Disconnecting(q, o) <=> o = p)
    BY <1>0, <1>1, <1>2, <1>3, RolesHere DEF FreedBy
  <2>2. \A i : ~Passed(q, i)'
    BY <1>0, <1>2, <1>3, IdleType, RolesHereAfter DEF FreedBy
  <2> QED BY <2>1, <2>2
<1>6. \A s, o : HasLeft(s, o)' <=> HasLeft(s, o)
  BY <1>0, <1>2, IdleType, LeavingKept
<1>7. \A o : Connected(q, o)' <=> Connected(q, o)
  BY <1>2 DEF Connected
<1>8. KnownIsConnected(q) /\ ConnectedIsKnown(q)
  BY <1>0 DEF Sides
<1>9. Connected(q, p) => <<q, p>> \in doubled
  BY <1>0, <1>1, <1>2 DEF Sides, OneSideFirst
<1>10. KnownIsConnected(q)'
  BY <1>4, <1>5, <1>6, <1>7, <1>8 DEF KnownIsConnected
<1>11. ASSUME NEW o \in Receivers, Connected(q, o), Known(q, o)
       PROVE  Known(q, o)'
  BY <1>2, <1>4, <1>5, <1>6, <1>9, <1>11 DEF Known
<1>12. \A i \in DOMAIN m_connected_slots[q] :
         m_connected_slots[q][i].dest \in Receivers /\ Connected(q, m_connected_slots[q][i].dest)
  BY <1>0, ListFacts
<1>13. ConnectedIsKnown(q)'
  BY <1>2, <1>5, <1>8, <1>11, <1>12 DEF ConnectedIsKnown
<1>14. \A s \in Signals, o \in Receivers :
         s # q => (s \in m_senders'[o] <=> s \in m_senders[o])
  BY <1>4
<1> QED BY <1>1, <1>2, <1>3, <1>10, <1>13, <1>14, IdleType, SidesOfOne DEF SigOps

\* disconnect_all of a signal begins: no connection is freed yet.
LEMMA ClearSides ==
  ASSUME SigInd, NEW t \in SigThreads, NEW q \in Signals, NEW dies \in BOOLEAN,
         disconnect_all(t, q, dies)
  PROVE  Sides'
<1> DEFINE now == [Idle EXCEPT !.op = "clear", !.sig = q, !.dies = dies, !.it = First(q)]
           conns == m_connected_slots[q]
<1>0. SigTypeOK /\ Locking /\ Sides /\ NoTwins
  BY DEF SigInd
<1>1. /\ doing' = [doing EXCEPT ![t] = now] /\ doing[t] = Idle /\ Free(q)
      /\ life' = IF dies THEN [life EXCEPT ![q] = "dying"] ELSE life
      /\ UNCHANGED <<m_connected_slots, m_senders, doubled>>
  BY DEF disconnect_all, Enter
<1>2. now.op = "clear" /\ now.sig = q /\ now.it = First(q)
  BY DEF Idle
<1>3. \A u \in SigThreads : u # t => ~OnSignal(u, q)
  BY <1>1, AloneAtSignal
<1>4. doing[t].op = "idle"
  BY <1>1, IdleType
<1>5. \A o \in Receivers : life'[o] = life[o]
  BY <1>0, <1>1, SigSlotAssumption DEF SigTypeOK
<1> HIDE DEF now
<1>6. /\ \A i : ~Passed(q, i)
      /\ \A o : ~Connecting(q, o) /\ ~Disconnecting(q, o)
  BY <1>0, <1>3, <1>4, RolesHere DEF FreedBy
<1>7. \A i \in DOMAIN conns : ~Passed(q, i)'
  <2>1. \A i : Passed(q, i)' => FreedBy(now, q, i, conns)
    BY <1>0, <1>1, <1>3, RolesHereAfter
  <2>2. /\ conns \in Seq(Connections0) /\ Len(conns) \in Nat /\ DOMAIN conns = 1 .. Len(conns)
        /\ Apart(conns) /\ \A i \in DOMAIN conns : conns[i] \in Connections0
    BY <1>0, ListFacts DEF NoTwins
  <2>3. (First(q) = End /\ DOMAIN conns = {}) \/ (First(q) = conns[1] /\ 1 \in DOMAIN conns)
    BY <1>0, FirstFacts
  <2> HIDE DEF conns
  <2>4. ASSUME NEW i \in DOMAIN conns PROVE ~FreedBy(now, q, i, conns)
    BY <1>2, <2>2, <2>3, EndIsNone DEF FreedBy, Apart
  <2> QED BY <2>1, <2>4
<1>8. \A s, o : HasLeft(s, o)' <=> HasLeft(s, o)
  BY <1>0, <1>1, <1>2, <1>4, LeavingKept
<1>9. \A o : Connected(q, o)' <=> Connected(q, o)
  BY <1>1 DEF Connected
<1>10. KnownIsConnected(q) /\ ConnectedIsKnown(q)
  BY <1>0 DEF Sides
<1>11. KnownIsConnected(q)'
  BY <1>1, <1>6, <1>8, <1>9, <1>10 DEF KnownIsConnected
<1>12. ASSUME NEW o \in Receivers, Known(q, o)
       PROVE  Known(q, o)'
  BY <1>1, <1>5, <1>6, <1>8, <1>12 DEF Known
<1>13. \A i \in DOMAIN m_connected_slots[q] : m_connected_slots[q][i].dest \in Receivers
  BY <1>0, ListFacts
<1>14. ConnectedIsKnown(q)'
  BY <1>1, <1>6, <1>7, <1>10, <1>12, <1>13 DEF ConnectedIsKnown
<1> QED BY <1>1, <1>2, <1>3, <1>4, <1>5, <1>11, <1>14, SidesOfOne DEF SigOps

\* disconnect_all of a signal tells one object, and frees the connection.
LEMMA ClearOneSides ==
  ASSUME SigInd, NEW t \in SigThreads, disconnect_all_one(t)
  PROVE  Sides'
<1>0. SigTypeOK /\ Locking /\ Sides /\ NoTwins /\ Places
  BY EmissionPlaces DEF SigInd
<1>1. PICK q \in Signals : q = doing[t].sig /\ OnSignal(t, q)
  BY <1>0 DEF disconnect_all_one, Locking, OnSignal, SigOps
<1>2. PICK c, p, conns, now : /\ c = doing[t].it /\ p = c.dest /\ conns = m_connected_slots[q]
                              /\ now = [doing[t] EXCEPT !.it = After(q, c)]
  OBVIOUS
<1>3. /\ doing[t] \in Works /\ doing[t].op = "clear" /\ c # End
      /\ doing' = [doing EXCEPT ![t] = now]
      /\ m_senders' = [m_senders EXCEPT ![p] = @ \ {q}]
      /\ doubled' = IF \E i \in PlacesTo(conns, p) : i > PlaceOf(conns, c)
                    THEN doubled \cup {<<q, p>>} ELSE doubled
      /\ UNCHANGED <<m_connected_slots, life>>
  BY <1>0, <1>1, <1>2 DEF disconnect_all_one, SigTypeOK
<1>4. now.op = "clear" /\ now.sig = q /\ now.it = After(q, c)
  BY <1>3, <1>1, <1>2 DEF Works
<1>5. \A u \in SigThreads : u # t => ~OnSignal(u, q)
  BY <1>1, AloneAtSignal
<1>6. PICK j \in DOMAIN conns : c = conns[j]
  BY <1>0, <1>3, <1>1, <1>2 DEF Places, Emits, InList
<1>7. /\ PlaceOf(conns, c) = j
      /\ \/ j = Len(conns) /\ After(q, c) = End
         \/ j + 1 \in DOMAIN conns /\ After(q, c) = conns[j + 1]
  BY <1>0, <1>2, <1>6, AfterFacts
<1>8. /\ conns \in Seq(Connections0) /\ Len(conns) \in Nat /\ DOMAIN conns = 1 .. Len(conns)
      /\ \A i \in DOMAIN conns : conns[i] \in Connections0 /\ conns[i].dest \in Receivers
      /\ Apart(conns)
  BY <1>0, <1>2, ListFacts DEF NoTwins
<1>9. p \in Receivers /\ p = conns[j].dest
  BY <1>6, <1>8, <1>2
<1>10. /\ m_senders'[p] = m_senders[p] \ {q}
      /\ \A o \in Receivers : o # p => m_senders'[o] = m_senders[o]
  BY <1>0, <1>3, <1>9 DEF SigTypeOK
<1>11. \A i \in DOMAIN conns : i > j /\ conns[i].dest = p => <<q, p>> \in doubled'
  BY <1>3, <1>7 DEF PlacesTo
<1>12. \A s \in Signals, o \in Receivers :
         /\ <<s, o>> \in doubled => <<s, o>> \in doubled'
         /\ s # q => (<<s, o>> \in doubled <=> <<s, o>> \in doubled')
  BY <1>3
<1>13. \A i \in DOMAIN conns : Passed(q, i) <=> i < j
  <2>1. \A i : Passed(q, i) <=> FreedBy(doing[t], q, i, conns)
    BY <1>0, <1>2, <1>5, RolesHere
  <2>2. ASSUME NEW i \in DOMAIN conns PROVE FreedBy(doing[t], q, i, conns) <=> i < j
    <3>1. FreedBy(doing[t], q, i, conns) <=> \E k \in DOMAIN conns : conns[k] = conns[j] /\ i < k
      BY <1>1, <1>2, <1>3, <1>6 DEF FreedBy
    <3>2. \A k \in DOMAIN conns : conns[k] = conns[j] <=> k = j
      BY <1>8 DEF Apart
    <3> QED BY <1>6, <3>1, <3>2
  <2> QED BY <2>1, <2>2
<1>14. \A i \in DOMAIN conns : Passed(q, i)' <=> i < j \/ i = j
  <2>1. \A i : Passed(q, i)' <=> FreedBy(now, q, i, conns)
    <3>1. \A i : Passed(q, i)' <=> FreedBy(now, q, i, m_connected_slots'[q])
      BY <1>0, <1>3, <1>5, RolesHereAfter
    <3> QED BY <1>2, <1>3, <3>1
  <2>2. ASSUME NEW i \in DOMAIN conns PROVE FreedBy(now, q, i, conns) <=> i < j \/ i = j
    <3>1. CASE j = Len(conns) /\ After(q, c) = End
      BY <1>4, <1>8, <3>1 DEF FreedBy
    <3>2. CASE j + 1 \in DOMAIN conns /\ After(q, c) = conns[j + 1]
      <4>1. now.it # End
        BY <1>4, <1>8, <3>2, EndIsNone
      <4>2. FreedBy(now, q, i, conns) <=> \E k \in DOMAIN conns : conns[k] = conns[j + 1] /\ i < k
        BY <1>4, <3>2, <4>1 DEF FreedBy
      <4>3. \A k \in DOMAIN conns : conns[k] = conns[j + 1] <=> k = j + 1
        BY <1>8, <3>2 DEF Apart
      <4> QED BY <1>8, <3>2, <4>2, <4>3
    <3> QED BY <1>7, <3>1, <3>2
  <2> QED BY <2>1, <2>2
<1>15. /\ \A o : ~Connecting(q, o) /\ ~Disconnecting(q, o)
  BY <1>0, <1>3, <1>1, <1>5, RolesHere
<1>16. \A s, o : HasLeft(s, o)' <=> HasLeft(s, o)
  BY <1>0, <1>3, <1>4, LeavingKept
<1>17. \A o : Connected(q, o)' <=> Connected(q, o)
  BY <1>3 DEF Connected
<1>18. KnownIsConnected(q) /\ ConnectedIsKnown(q)
  BY <1>0, <1>1 DEF Sides
<1>19. KnownIsConnected(q)'
  BY <1>10, <1>15, <1>16, <1>17, <1>18 DEF KnownIsConnected
<1>20. ASSUME NEW i \in DOMAIN conns, NEW o \in Receivers, o = conns[i].dest
       PROVE  IF Passed(q, i)' THEN q \notin m_senders'[o] ELSE Known(q, o)'
  <2>1. IF Passed(q, i) THEN q \notin m_senders[o] ELSE Known(q, o)
    BY <1>18, <1>20, <1>2 DEF ConnectedIsKnown
  <2>2. CASE i < j
    BY <1>10, <1>13, <1>14, <2>1, <2>2
  <2>3. CASE i = j
    BY <1>9, <1>10, <1>14, <1>20, <2>3
  <2>4. CASE ~(i < j) /\ i # j
    <3>1. ~Passed(q, i) /\ ~Passed(q, i)'
      BY <1>13, <1>14, <2>4
    <3>2. CASE o = p
      <4>1. i > j
        BY <1>8, <2>4
      <4> QED BY <1>11, <1>20, <3>1, <3>2, <4>1 DEF Known
    <3>3. CASE o # p
      BY <1>3, <1>10, <1>12, <1>15, <1>16, <2>1, <3>1, <3>3 DEF Known
    <3> QED BY <3>2, <3>3
  <2> QED BY <2>2, <2>3, <2>4
<1>21. ConnectedIsKnown(q)'
  <2>1. m_connected_slots'[q] = conns
    BY <1>3, <1>2
  <2> QED BY <1>8, <1>20, <2>1 DEF ConnectedIsKnown
<1>22. \A s \in Signals, o \in Receivers :
         s # q => (s \in m_senders'[o] <=> s \in m_senders[o])
  BY <1>10
<1> QED BY <1>3, <1>1, <1>4, <1>5, <1>12, <1>19, <1>21, <1>22, SidesOfOne DEF SigOps

\* disconnect_all of a signal ends: no object that it was connected to knows of it.
LEMMA ClearEndSides ==
  ASSUME SigInd, NEW t \in SigThreads, disconnect_all_ends(t)
  PROVE  Sides'
<1>0. SigTypeOK /\ Locking /\ Sides
  BY DEF SigInd
<1>1. PICK q \in Signals : q = doing[t].sig /\ OnSignal(t, q)
  BY <1>0 DEF disconnect_all_ends, Locking, OnSignal, SigOps
<1>2. /\ doing[t].op = "clear" /\ doing[t].it = End /\ doing' = [doing EXCEPT ![t] = Idle]
      /\ m_connected_slots' = [m_connected_slots EXCEPT ![q] = <<>>]
      /\ doubled' = {x \in doubled : x[1] # q}
      /\ life' = (IF doing[t].dies THEN [life EXCEPT ![q] = "dead"] ELSE life)
      /\ m_senders' = m_senders
  BY <1>1 DEF disconnect_all_ends, Finish
<1>3. \A u \in SigThreads : u # t => ~OnSignal(u, q)
  BY <1>1, AloneAtSignal
<1>4. \A o \in Receivers : life'[o] = life[o]
  BY <1>0, <1>2, SigSlotAssumption DEF SigTypeOK
<1>5. /\ m_connected_slots'[q] = <<>>
      /\ \A s \in Signals : s # q => m_connected_slots'[s] = m_connected_slots[s]
  BY <1>0, <1>2 DEF SigTypeOK
<1>6. /\ \A i : Passed(q, i)
      /\ \A o : ~Disconnecting(q, o)
  BY <1>0, <1>1, <1>2, <1>3, RolesHere DEF FreedBy
<1>7. \A s, o : HasLeft(s, o)' <=> HasLeft(s, o)
  BY <1>0, <1>2, IdleType, LeavingKept
<1>8. KnownIsConnected(q) /\ ConnectedIsKnown(q)
  BY <1>0 DEF Sides
<1>9. ASSUME NEW o \in Receivers, Connected(q, o)
      PROVE  q \notin m_senders[o]
  <2>1. PICK i \in DOMAIN m_connected_slots[q] : m_connected_slots[q][i].dest = o
    BY <1>9, ConnectedPlaces DEF PlacesConnect
  <2> QED BY <1>6, <1>8, <2>1 DEF ConnectedIsKnown
<1>10. KnownIsConnected(q)'
  BY <1>2, <1>6, <1>7, <1>8, <1>9 DEF KnownIsConnected
<1>11. ConnectedIsKnown(q)'
  BY <1>5 DEF ConnectedIsKnown
<1>12. \A s \in Signals, o \in Receivers :
         s # q => (<<s, o>> \in doubled <=> <<s, o>> \in doubled')
  BY <1>2
<1> QED BY <1>1, <1>2, <1>3, <1>4, <1>5, <1>10, <1>11, <1>12, IdleType, SidesOfOne DEF SigOps

\* A step of an operation of an object is none of a signal's.
LEMMA SidesOfObject ==
  ASSUME SigInd, NEW t \in SigThreads, NEW now, doing' = [doing EXCEPT ![t] = now],
         doing[t].op \in {"idle", "leave"}, now.op \in {"idle", "leave"}, doubled' = doubled,
         \A u \in SigThreads : OnSignal(u, doing[u].sig) =>
           m_connected_slots'[doing[u].sig] = m_connected_slots[doing[u].sig],
         \A s \in Signals : KnownIsConnected(s)' /\ ConnectedIsKnown(s)'
  PROVE  Sides'
<1>0. SigTypeOK /\ Locking /\ Sides
  BY DEF SigInd
<1>1. doing'[t] = now /\ \A u \in SigThreads : u # t => doing'[u] = doing[u]
  BY <1>0, OthersGoOn
<1>2. ASSUME NEW u \in SigThreads, doing[u].op \in {"connect", "disconnect"}
      PROVE  Connected(doing[u].sig, doing[u].recv)' <=> Connected(doing[u].sig, doing[u].recv)
  <2>1. u # t /\ doing'[u] = doing[u]
    BY <1>1, <1>2
  <2>2. m_connected_slots'[doing[u].sig] = m_connected_slots[doing[u].sig]
    BY <1>2 DEF OnSignal, SigOps
  <2> QED BY <2>1, <2>2 DEF Connected
<1>3. OneSideFirst'
  <2> SUFFICES ASSUME NEW u \in SigThreads, doing'[u].op \in {"connect", "disconnect"}
               PROVE  /\ doing'[u].op = "connect" => Connected(doing[u].sig, doing[u].recv)'
                      /\ doing'[u].op = "disconnect" /\ Connected(doing[u].sig, doing[u].recv)' =>
                           <<doing[u].sig, doing[u].recv>>' \in doubled'
    BY DEF OneSideFirst
  <2>1. doing'[u] = doing[u]
    BY <1>1
  <2> QED BY <1>0, <1>2, <2>1 DEF Sides, OneSideFirst
<1> QED BY <1>3 DEF Sides

\* disconnect_all of an object begins: the signals it knows of still have to remove it.
LEMMA LeaveSides ==
  ASSUME SigInd, NEW t \in SigThreads, NEW p \in Receivers, NEW dies \in BOOLEAN,
         leave_all(t, p, dies)
  PROVE  Sides'
<1> DEFINE now == [Idle EXCEPT !.op = "leave", !.recv = p, !.dies = dies, !.rest = m_senders[p]]
<1>0. SigTypeOK /\ Locking /\ Sides /\ Alone
  BY LockedAlone DEF SigInd
<1>1. /\ doing' = [doing EXCEPT ![t] = now] /\ doing[t] = Idle /\ Free(p)
      /\ life' = (IF dies THEN [life EXCEPT ![p] = "dying"] ELSE life)
      /\ UNCHANGED <<m_connected_slots, m_senders, doubled>>
  BY DEF leave_all, Enter
<1>2. now.op = "leave" /\ now.recv = p /\ now.rest = m_senders[p] /\ doing[t].op = "idle"
  BY <1>1, IdleType DEF Idle
<1>3. \A o \in Receivers : life'[o] = "dead" => life[o] = "dead"
  BY <1>0, <1>1 DEF SigTypeOK
<1> HIDE DEF now
<1>4. doing'[t] = now /\ \A u \in SigThreads : u # t => doing'[u] = doing[u]
  BY <1>0, <1>1, OthersGoOn
<1>5. ASSUME NEW s, NEW o
      PROVE  /\ HasLeft(s, o) => HasLeft(s, o)'
             /\ HasLeft(s, o)' => HasLeft(s, o) \/ (o = p /\ s \notin m_senders[p])
  BY <1>2, <1>4 DEF HasLeft, OnObject
<1>6. ASSUME NEW s \in Signals
      PROVE  KnownIsConnected(s)' /\ ConnectedIsKnown(s)'
  <2>1. /\ \A i : Passed(s, i)' <=> Passed(s, i)
        /\ \A o : Connecting(s, o)' <=> Connecting(s, o)
        /\ \A o : Disconnecting(s, o)' <=> Disconnecting(s, o)
    BY <1>0, <1>1, <1>2, RolesElsewhere DEF SigOps
  <2>2. KnownIsConnected(s) /\ ConnectedIsKnown(s)
    BY <1>0 DEF Sides
  <2> QED BY <1>0, <1>1, <1>3, <1>5, <2>1, <2>2, SideKept
<1> QED BY <1>1, <1>2, <1>6, SidesOfObject

\* A signal removes the connections to an object that leaves.
LEMMA SlotDisconnectSides ==
  ASSUME SigInd, NEW t \in SigThreads, NEW q \in Signals, slot_disconnect(t, q)
  PROVE  Sides'
<1>0. SigTypeOK /\ Locking /\ Sides /\ Alone
  BY LockedAlone DEF SigInd
<1>1. PICK p \in Receivers : p = doing[t].recv
  BY <1>0 DEF slot_disconnect, Locking
<1>2. PICK conns, list, now :
        /\ conns = m_connected_slots[q] /\ list = Without(conns, p)
        /\ now = [doing[t] EXCEPT !.rest = @ \ {q}]
  OBVIOUS
<1>3. /\ doing[t] \in Works /\ doing[t].op = "leave" /\ Free(q)
      /\ doing' = [doing EXCEPT ![t] = now]
      /\ m_connected_slots' = [m_connected_slots EXCEPT ![q] = list]
      /\ UNCHANGED <<m_senders, life, doubled>>
  BY <1>0, <1>1, <1>2 DEF slot_disconnect, SigTypeOK
<1>4. now.op = "leave" /\ now.recv = p /\ now.rest = doing[t].rest \ {q}
  BY <1>1, <1>2, <1>3 DEF Works
<1>5. doing'[t] = now /\ \A u \in SigThreads : u # t => doing'[u] = doing[u]
  BY <1>0, <1>3, OthersGoOn
<1>6. /\ m_connected_slots'[q] = list
      /\ \A s \in Signals : s # q => m_connected_slots'[s] = m_connected_slots[s]
  BY <1>0, <1>3 DEF SigTypeOK
<1>7. conns \in Seq(Connections0)
      /\ \A k \in DOMAIN conns : conns[k].dest \in Receivers
  BY <1>0, <1>2, ListFacts
<1>8. IsPart(list, conns, DOMAIN conns \ PlacesTo(conns, p))
  BY <1>2, <1>7, WithoutFacts
<1>9. ASSUME NEW s, NEW o
      PROVE  /\ HasLeft(s, o) => HasLeft(s, o)'
             /\ HasLeft(s, o)' => HasLeft(s, o) \/ (o = p /\ s = q)
  BY <1>1, <1>3, <1>4, <1>5 DEF HasLeft, OnObject
<1>10. HasLeft(q, p)'
  BY <1>4, <1>5 DEF HasLeft, OnObject
<1>11. \A u \in SigThreads : ~OnSignal(u, q)
  BY <1>0, <1>3 DEF Alone
<1>12. ASSUME NEW s \in Signals, s # q
       PROVE  KnownIsConnected(s)' /\ ConnectedIsKnown(s)'
  <2>1. /\ \A i : Passed(s, i)' <=> Passed(s, i)
        /\ \A o : Connecting(s, o)' <=> Connecting(s, o)
        /\ \A o : Disconnecting(s, o)' <=> Disconnecting(s, o)
    BY <1>0, <1>3, <1>4, <1>6, <1>12, RolesElsewhere DEF SigOps
  <2>2. KnownIsConnected(s) /\ ConnectedIsKnown(s)
    BY <1>0 DEF Sides
  <2>3. \A o \in Receivers : (HasLeft(s, o) => HasLeft(s, o)') /\ (HasLeft(s, o)' => HasLeft(s, o))
    BY <1>9, <1>12
  <2> QED BY <1>0, <1>3, <1>6, <1>12, <2>1, <2>2, <2>3, SideKept
<1>13. /\ \A i : ~Passed(q, i)
       /\ \A o : ~Connecting(q, o) /\ ~Disconnecting(q, o)
  BY <1>0, <1>3, <1>11, RolesHere DEF FreedBy
<1>14. \A i : ~Passed(q, i)'
  BY <1>0, <1>3, <1>4, <1>11, RolesHereAfter DEF FreedBy
<1>15. KnownIsConnected(q) /\ ConnectedIsKnown(q)
  BY <1>0 DEF Sides
<1>16. ASSUME NEW o \in Receivers, o # p, Connected(q, o)
       PROVE  Connected(q, o)'
  <2>1. PICK k \in DOMAIN conns : conns[k].dest = o
    BY <1>2, <1>16, ConnectedPlaces DEF PlacesConnect
  <2>2. k \in DOMAIN conns \ PlacesTo(conns, p)
    BY <1>16, <2>1 DEF PlacesTo
  <2>3. \E n \in DOMAIN list : list[n].dest = o
    BY <1>8, <2>1, <2>2 DEF IsPart
  <2>4. PlacesConnect'
    BY ConnectedPlaces, PTL
  <2> QED BY <1>6, <2>3, <2>4 DEF PlacesConnect
<1>17. KnownIsConnected(q)'
  BY <1>3, <1>9, <1>10, <1>13, <1>15, <1>16 DEF KnownIsConnected
<1>18. ASSUME NEW n \in DOMAIN list, NEW o, o = list[n].dest
       PROVE  Known(q, o)'
  <2>1. PICK k \in DOMAIN conns : k \notin PlacesTo(conns, p) /\ list[n] = conns[k]
    BY <1>8 DEF IsPart
  <2>2. o = conns[k].dest /\ o # p
    BY <1>18, <2>1 DEF PlacesTo
  <2>3. Known(q, o)
    BY <1>2, <1>13, <1>15, <2>2 DEF ConnectedIsKnown
  <2>4. ~HasLeft(q, o) => ~HasLeft(q, o)'
    BY <1>9, <2>2
  <2> QED BY <1>3, <1>13, <2>3, <2>4 DEF Known
<1>19. ConnectedIsKnown(q)'
  BY <1>6, <1>14, <1>18 DEF ConnectedIsKnown
<1>20. \A u \in SigThreads : OnSignal(u, doing[u].sig) =>
         m_connected_slots'[doing[u].sig] = m_connected_slots[doing[u].sig]
  BY <1>0, <1>6, <1>11 DEF OnSignal, Locking
<1> QED BY <1>3, <1>4, <1>12, <1>17, <1>19, <1>20, SidesOfObject

\* disconnect_all of an object ends: no signal is connected to it any more.
LEMMA LeaveEndSides ==
  ASSUME SigInd, NEW t \in SigThreads, leave_all_ends(t)
  PROVE  Sides'
<1>0. SigTypeOK /\ Locking /\ Sides /\ Alone
  BY LockedAlone DEF SigInd
<1>1. PICK p \in Receivers : p = doing[t].recv
  BY <1>0 DEF leave_all_ends, Locking
<1>2. /\ doing[t].op = "leave" /\ doing[t].rest = {}
      /\ doing' = [doing EXCEPT ![t] = Idle] /\ m_senders' = [m_senders EXCEPT ![p] = {}]
      /\ life' = (IF doing[t].dies THEN [life EXCEPT ![p] = "dead"] ELSE life)
      /\ UNCHANGED <<m_connected_slots, doubled>>
  BY <1>1 DEF leave_all_ends, Finish
<1>3. doing'[t] = Idle /\ \A u \in SigThreads : u # t => doing'[u] = doing[u]
  BY <1>0, <1>2, OthersGoOn
<1>4. /\ m_senders'[p] = {}
      /\ \A o \in Receivers : o # p => m_senders'[o] = m_senders[o] /\ life'[o] = life[o]
  BY <1>0, <1>2 DEF SigTypeOK
<1>5. \A s : HasLeft(s, p)
  BY <1>1, <1>2 DEF HasLeft, OnObject
<1>6. \A s, o : o # p => (HasLeft(s, o)' <=> HasLeft(s, o))
  BY <1>1, <1>2, <1>3, IdleType DEF HasLeft, OnObject
<1>7. ASSUME NEW s \in Signals
      PROVE  KnownIsConnected(s)' /\ ConnectedIsKnown(s)'
  <2>1. /\ \A i : Passed(s, i)' <=> Passed(s, i)
        /\ \A o : Connecting(s, o)' <=> Connecting(s, o)
        /\ \A o : Disconnecting(s, o)' <=> Disconnecting(s, o)
    BY <1>0, <1>2, IdleType, RolesElsewhere DEF SigOps
  <2>2. KnownIsConnected(s) /\ ConnectedIsKnown(s)
    BY <1>0 DEF Sides
  <2>3. \A o : Connected(s, o)' <=> Connected(s, o)
    BY <1>2 DEF Connected
  <2>4. KnownIsConnected(s)'
    BY <1>4, <1>6, <2>1, <2>2, <2>3 DEF KnownIsConnected
  <2>5. ASSUME NEW i \in DOMAIN m_connected_slots[s], NEW o \in Receivers,
               o = m_connected_slots[s][i].dest
        PROVE  IF Passed(s, i)' THEN s \notin m_senders'[o] ELSE Known(s, o)'
    <3>1. IF Passed(s, i) THEN s \notin m_senders[o] ELSE Known(s, o)
      BY <2>2, <2>5 DEF ConnectedIsKnown
    <3>2. CASE o = p
      BY <1>2, <1>4, <1>5, <2>1, <3>1, <3>2 DEF Known
    <3>3. CASE o # p
      BY <1>2, <1>4, <1>6, <2>1, <3>1, <3>3 DEF Known
    <3> QED BY <3>2, <3>3
  <2>6. \A i \in DOMAIN m_connected_slots[s] : m_connected_slots[s][i].dest \in Receivers
    BY <1>0, ListFacts
  <2>7. ConnectedIsKnown(s)'
    BY <1>2, <2>5, <2>6 DEF ConnectedIsKnown
  <2> QED BY <2>4, <2>7
<1> QED BY <1>2, <1>7, IdleType, SidesOfObject

\* While nobody is at work, nothing is under way.
LEMMA QuietRoles ==
  ASSUME \A t \in SigThreads : doing[t] = Idle
  PROVE  /\ \A s, i : ~Passed(s, i)
         /\ \A s, o : ~Connecting(s, o) /\ ~Disconnecting(s, o) /\ ~HasLeft(s, o)
BY IdleType DEF Passed, Connecting, Disconnecting, HasLeft, OnObject

LEMMA QuietRolesAfter ==
  ASSUME \A t \in SigThreads : doing[t] = Idle, doing' = doing
  PROVE  /\ \A s, i : ~Passed(s, i)'
         /\ \A s, o : ~HasLeft(s, o)'
BY IdleType DEF Passed, HasLeft, OnObject

\* A signal is copied: the objects that it is connected to know of the copy too.
LEMMA SignalCopySides ==
  ASSUME SigInd, NEW q \in Signals, NEW copy \in Signals, signal_copy(q, copy)
  PROVE  Sides'
<1>0. SigTypeOK /\ Sides /\ Living
  BY DEF SigInd
<1>1. /\ \A t \in SigThreads : doing[t] = Idle
      /\ life[q] = "live" /\ life[copy] = "none" /\ life' = [life EXCEPT ![copy] = "live"]
      /\ \A i \in DOMAIN m_connected_slots[q] : life[m_connected_slots[q][i].dest] # "dead"
      /\ m_connected_slots' = [m_connected_slots EXCEPT ![copy] = m_connected_slots[q]]
      /\ m_senders' = [o \in Receivers |->
                         IF Connected(q, o) THEN m_senders[o] \cup {copy} ELSE m_senders[o]]
      /\ UNCHANGED <<doing, doubled>>
  BY DEF signal_copy, Quiet, ToSet
<1>2. /\ m_connected_slots'[copy] = m_connected_slots[q]
      /\ \A s \in Signals : s # copy => m_connected_slots'[s] = m_connected_slots[s]
      /\ \A o \in Receivers : life'[o] = life[o]
  BY <1>0, <1>1, SigSlotAssumption DEF SigTypeOK
<1>3. /\ \A s, i : ~Passed(s, i)
      /\ \A s, o : ~Connecting(s, o) /\ ~Disconnecting(s, o) /\ ~HasLeft(s, o)
  BY <1>1, QuietRoles
<1>4. /\ \A s, i : ~Passed(s, i)'
      /\ \A s, o : ~HasLeft(s, o)'
  BY <1>1, QuietRolesAfter
<1>5. PlacesConnect /\ PlacesConnect'
  BY ConnectedPlaces, PTL
<1>6. /\ \A o : Connected(copy, o)' <=> Connected(q, o)
      /\ \A s \in Signals : s # copy => \A o : Connected(s, o)' <=> Connected(s, o)
  BY <1>2, <1>5 DEF PlacesConnect
<1>7. \A s \in Signals : KnownIsConnected(s) /\ ConnectedIsKnown(s)
  BY <1>0 DEF Sides
<1>8. \A o \in Receivers : copy \notin m_senders[o]
  <2>1. \A o : ~Connected(copy, o)
    BY <1>0, <1>1, <1>5 DEF PlacesConnect, Living
  <2> QED BY <1>3, <1>7, <2>1 DEF KnownIsConnected
<1>9. ASSUME NEW s \in Signals, s # copy
      PROVE  KnownIsConnected(s)' /\ ConnectedIsKnown(s)'
  <2>1. \A o \in Receivers : s \in m_senders'[o] <=> s \in m_senders[o]
    BY <1>1, <1>9
  <2>2. KnownIsConnected(s)'
    BY <1>3, <1>6, <1>7, <1>9, <2>1 DEF KnownIsConnected
  <2>3. ASSUME NEW i \in DOMAIN m_connected_slots[s], NEW o \in Receivers,
               o = m_connected_slots[s][i].dest
        PROVE  Known(s, o)'
    <3>1. Known(s, o)
      BY <1>3, <1>7, <2>3 DEF ConnectedIsKnown
    <3> QED BY <1>1, <1>2, <1>3, <1>4, <2>1, <3>1 DEF Known
  <2>4. \A i \in DOMAIN m_connected_slots[s] : m_connected_slots[s][i].dest \in Receivers
    BY <1>0, ListFacts
  <2>5. ConnectedIsKnown(s)'
    BY <1>2, <1>4, <1>9, <2>3, <2>4 DEF ConnectedIsKnown
  <2> QED BY <2>2, <2>5
<1>10. KnownIsConnected(copy)'
  BY <1>1, <1>6, <1>8 DEF KnownIsConnected
<1>11. ASSUME NEW i \in DOMAIN m_connected_slots[q], NEW o, o = m_connected_slots[q][i].dest
       PROVE  Known(copy, o)'
  <2>1. o \in Receivers /\ life[o] # "dead" /\ Connected(q, o)
    BY <1>0, <1>1, <1>11, ListFacts
  <2> QED BY <1>1, <1>2, <1>4, <2>1 DEF Known
<1>12. ConnectedIsKnown(copy)'
  BY <1>2, <1>4, <1>11 DEF ConnectedIsKnown
<1>13. OneSideFirst'
  BY <1>1, IdleType DEF OneSideFirst
<1> QED BY <1>9, <1>10, <1>12, <1>13 DEF Sides

\* An object is copied: the signals it knows of are connected to the copy too.
LEMMA ObjectCopySides ==
  ASSUME SigInd, NEW p \in Receivers, NEW copy \in Receivers, has_slots_copy(p, copy)
  PROVE  Sides'
<1>0. SigTypeOK /\ Sides /\ Living
  BY DEF SigInd
<1>1. /\ \A t \in SigThreads : doing[t] = Idle
      /\ life[p] = "live" /\ life[copy] = "none" /\ life' = [life EXCEPT ![copy] = "live"]
      /\ m_connected_slots' =
           [s \in Signals |->
              IF s \in m_senders[p] THEN slot_duplicate(m_connected_slots[s], p, copy)
              ELSE m_connected_slots[s]]
      /\ m_senders' = [m_senders EXCEPT ![copy] = m_senders[p]]
      /\ UNCHANGED <<doing, doubled>>
  BY DEF has_slots_copy, Quiet
<1>2. /\ m_senders'[copy] = m_senders[p] /\ life'[copy] = "live"
      /\ \A o \in Receivers : o # copy => m_senders'[o] = m_senders[o] /\ life'[o] = life[o]
  BY <1>0, <1>1 DEF SigTypeOK
<1>3. /\ \A s, i : ~Passed(s, i)
      /\ \A s, o : ~Connecting(s, o) /\ ~Disconnecting(s, o) /\ ~HasLeft(s, o)
  BY <1>1, QuietRoles
<1>4. /\ \A s, i : ~Passed(s, i)'
      /\ \A s, o : ~HasLeft(s, o)'
  BY <1>1, QuietRolesAfter
<1>5. PlacesConnect /\ PlacesConnect'
  BY ConnectedPlaces, PTL
<1>6. ASSUME NEW s \in Signals
      PROVE  KnownIsConnected(s)' /\ ConnectedIsKnown(s)'
  <2>1. PICK conns, list : conns = m_connected_slots[s] /\ list = m_connected_slots'[s]
    OBVIOUS
  <2>2. /\ conns \in Seq(Connections0)
        /\ \A i \in DOMAIN conns : conns[i].dest \in Receivers /\ conns[i].dest # copy
    BY <1>0, <1>1, <2>1, ListFacts DEF Living
  <2>3. /\ \A n \in DOMAIN list : \/ \E i \in DOMAIN conns : list[n] = conns[i]
                                  \/ list[n].dest = copy /\ s \in m_senders[p]
        /\ \A i \in DOMAIN conns : \E n \in DOMAIN list : list[n] = conns[i]
        /\ s \in m_senders[p] /\ (\E i \in DOMAIN conns : conns[i].dest = p) =>
             \E n \in DOMAIN list : list[n].dest = copy
    <3>1. CASE s \in m_senders[p]
      <4>1. list = slot_duplicate(conns, p, copy)
        BY <1>1, <2>1, <3>1
      <4>2. conns \in Seq(Connections0) /\ \A i \in DOMAIN conns : conns[i].dest # copy
        BY <2>2
      <4>3. IsDuplicate(list, conns, p, copy)
        BY <4>1, <4>2, DuplicateFacts
      <4> QED BY <3>1, <4>3 DEF IsDuplicate
    <3>2. CASE s \notin m_senders[p]
      BY <1>1, <2>1, <3>2
    <3> QED BY <3>1, <3>2
  <2>4. /\ \A o : Connected(s, o) <=> \E i \in DOMAIN conns : conns[i].dest = o
        /\ \A o : Connected(s, o)' <=> \E n \in DOMAIN list : list[n].dest = o
    BY <1>5, <2>1 DEF PlacesConnect
  <2>5. KnownIsConnected(s) /\ ConnectedIsKnown(s)
    BY <1>0 DEF Sides
  <2>6. ASSUME NEW o \in Receivers, s \in m_senders'[o]
        PROVE  Connected(s, o)'
    <3>1. CASE o = copy
      <4>1. s \in m_senders[p]
        BY <1>2, <2>6, <3>1
      <4>2. Connected(s, p)
        BY <1>3, <2>5, <4>1 DEF KnownIsConnected
      <4> QED BY <2>3, <2>4, <3>1, <4>1, <4>2
    <3>2. CASE o # copy
      <4>1. Connected(s, o)
        BY <1>2, <1>3, <2>5, <2>6, <3>2 DEF KnownIsConnected
      <4> QED BY <2>3, <2>4, <4>1
    <3> QED BY <3>1, <3>2
  <2>7. ASSUME NEW n \in DOMAIN list, NEW o, o = list[n].dest
        PROVE  Known(s, o)'
    <3>1. CASE \E i \in DOMAIN conns : list[n] = conns[i]
      <4>1. PICK i \in DOMAIN conns : list[n] = conns[i]
        BY <3>1
      <4>2. o = conns[i].dest /\ o \in Receivers /\ o # copy
        BY <2>2, <2>7, <4>1
      <4>3. Known(s, o)
        BY <1>3, <2>1, <2>5, <4>2 DEF ConnectedIsKnown
      <4> QED BY <1>1, <1>2, <1>3, <1>4, <4>2, <4>3 DEF Known
    <3>2. CASE list[n].dest = copy /\ s \in m_senders[p]
      BY <1>2, <1>4, <2>7, <3>2 DEF Known
    <3> QED BY <2>3, <3>1, <3>2
  <2>8. KnownIsConnected(s)'
    BY <2>6 DEF KnownIsConnected
  <2>9. ConnectedIsKnown(s)'
    BY <1>4, <2>1, <2>7 DEF ConnectedIsKnown
  <2> QED BY <2>8, <2>9
<1>7. OneSideFirst'
  BY <1>1, IdleType DEF OneSideFirst
<1> QED BY <1>6, <1>7 DEF Sides

LEMMA SidesStep ==
  ASSUME SigInd, SigNext
  PROVE  Sides'
<1>0. SigTypeOK
  BY DEF SigInd
<1>1. ASSUME NEW t \in SigThreads, NEW s \in Signals, emit(t, s)
      PROVE  Sides'
  <2> DEFINE now == [Idle EXCEPT !.op = "emit", !.sig = s, !.it = First(s)]
  <2>1. /\ doing' = [doing EXCEPT ![t] = now] /\ doing[t] = Idle
        /\ UNCHANGED <<m_connected_slots, m_senders, life, doubled>>
    BY <1>1 DEF emit, Enter
  <2>2. now.op = "emit"
    BY DEF Idle
  <2> HIDE DEF now
  <2> QED BY <2>1, <2>2, IdleType, EmitSides
<1>2. ASSUME NEW t \in SigThreads, emit_calls(t) \/ slot_returns(t) \/ emit_ends(t)
      PROVE  Sides'
  <2>1. PICK now : /\ now.op \in {"idle", "slot", "emit"} /\ doing' = [doing EXCEPT ![t] = now]
                   /\ doing[t].op \in {"emit", "slot"}
                   /\ UNCHANGED <<m_connected_slots, m_senders, life, doubled>>
    <3>1. doing[t] \in Works
      BY <1>0 DEF SigTypeOK
    <3>2. CASE emit_calls(t)
      BY <3>1, <3>2 DEF emit_calls, Works
    <3>3. CASE slot_returns(t)
      BY <3>1, <3>3 DEF slot_returns, Works
    <3>4. CASE emit_ends(t)
      BY <3>4, IdleType DEF emit_ends, Finish
    <3> QED BY <1>2, <3>2, <3>3, <3>4
  <2> QED BY <2>1, EmitSides
<1> QED
  BY <1>1, <1>2, ConnectSides, SignalConnectSides, DisconnectSides, SignalDisconnectSides,
     ClearSides, ClearOneSides, ClearEndSides, LeaveSides, SlotDisconnectSides, LeaveEndSides,
     SignalCopySides, ObjectCopySides
  DEF SigNext, SigThreadStep

-----------------------------------------------------------------------------
(* The theorem.                                                            *)

LEMMA SigIndInit == SigInit => SigInd
<1> SUFFICES ASSUME SigInit PROVE SigInd
  OBVIOUS
<1>1. /\ \A s \in Signals : m_connected_slots[s] = <<>> /\ Free(s)
      /\ \A o \in Receivers : m_senders[o] = {} /\ Free(o)
      /\ \A t \in SigThreads : doing[t] = Idle
      /\ doubled = {}
  BY DEF SigInit, Free
<1>2. SigTypeOK
  BY IdleType DEF SigInit, SigTypeOK, Lives
<1>3. Locking
  BY <1>1, IdleType, SigSlotAssumption DEF Locking, OnSignal, OnObject, Free, SigOps
<1>4. NoTwins /\ Living
  BY <1>1, IdleType DEF NoTwins, Apart, Living
<1>5. Places
  BY <1>1, IdleType DEF Places, Emits
<1>6. Sides
  BY <1>1, IdleType DEF Sides, OneSideFirst, KnownIsConnected, ConnectedIsKnown
<1> QED BY <1>2, <1>3, <1>4, <1>5, <1>6, EmissionPlaces DEF SigInd

LEMMA SigIndNext == SigInd /\ [SigNext]_sigVars => SigInd'
<1>1. ASSUME SigInd, SigNext PROVE SigInd'
  BY <1>1, SigTypeStep, LockingStep, NoTwinsStep, LivingStep, EmissionStep, SidesStep DEF SigInd
<1>2. ASSUME SigInd, UNCHANGED sigVars PROVE SigInd'
  <2>1. UNCHANGED <<m_connected_slots, m_senders, life, holder, doing, doubled>>
    BY <1>2 DEF sigVars
  <2>2. SigTypeOK' /\ NoTwins' /\ Living'
    BY <1>2, <2>1 DEF SigInd, SigTypeOK, NoTwins, Living
  <2>3. Locking'
    BY <1>2, <2>1 DEF SigInd, Locking, OnSignal, OnObject
  <2>4. EmissionKeepsItsPlace'
    BY <1>2, <2>1 DEF SigInd, EmissionKeepsItsPlace
  <2>5. OneSideFirst'
    BY <1>2, <2>1 DEF SigInd, Sides, OneSideFirst, Connected
  <2>6. ASSUME NEW s \in Signals
        PROVE  KnownIsConnected(s)' /\ ConnectedIsKnown(s)'
    <3>1. /\ \A i : Passed(s, i)' <=> Passed(s, i)
          /\ \A o : Connecting(s, o)' <=> Connecting(s, o)
          /\ \A o : Disconnecting(s, o)' <=> Disconnecting(s, o)
          /\ \A o : HasLeft(s, o)' <=> HasLeft(s, o)
      BY <2>1 DEF Passed, Connecting, Disconnecting, HasLeft, OnObject
    <3>2. SigTypeOK /\ KnownIsConnected(s) /\ ConnectedIsKnown(s)
      BY <1>2 DEF SigInd, Sides
    <3> QED BY <2>1, <3>1, <3>2, SideKept
  <2> QED BY <2>2, <2>3, <2>4, <2>5, <2>6 DEF SigInd, Sides
<1> QED BY <1>1, <1>2

\* A connection that is not freed, and its object that is destroyed.
LEMMA FreedIsDoubled ==
  ASSUME SigInd, NEW s \in Signals, NEW i \in DOMAIN m_connected_slots[s], ~Passed(s, i),
         life[m_connected_slots[s][i].dest] = "dead"
  PROVE  <<s, m_connected_slots[s][i].dest>> \in doubled
<1>1. Known(s, m_connected_slots[s][i].dest)
  BY DEF SigInd, Sides, ConnectedIsKnown
<1>2. ~Connecting(s, m_connected_slots[s][i].dest)
  BY DEF SigInd, Living, Connecting
<1> QED BY <1>1, <1>2 DEF Known

LEMMA SigIndNoFreed == SigInd => NoConnectionToFreed
<1> SUFFICES ASSUME SigInd, NEW s \in Signals, NEW c \in InUse(s), life[c.dest] = "dead"
             PROVE  <<s, c.dest>> \in doubled
  BY DEF NoConnectionToFreed
<1>0. SigTypeOK /\ Locking /\ NoTwins /\ Places
  BY EmissionPlaces DEF SigInd
<1> DEFINE conns == m_connected_slots[s]
           clearing == {t \in SigThreads : doing[t].op = "clear" /\ doing[t].sig = s}
<1>1. CASE clearing = {}
  <2>1. PICK i \in DOMAIN conns : c = conns[i]
    BY <1>1 DEF InUse, ToSet
  <2>2. ~Passed(s, i)
    BY <1>1 DEF Passed
  <2> QED BY <2>1, <2>2, FreedIsDoubled
<1>2. CASE clearing # {}
  <2>1. PICK t \in SigThreads :
          doing[t].op = "clear" /\ doing[t].sig = s /\ c = doing[t].it /\ c # End
    BY <1>2 DEF InUse
  <2>2. PICK i \in DOMAIN conns : c = conns[i]
    BY <1>0, <2>1 DEF Places, Emits, InList
  <2>3. \A u \in SigThreads : u # t => ~OnSignal(u, s)
    BY <2>1, AloneAtSignal DEF OnSignal, SigOps
  <2>4. Passed(s, i) <=> FreedBy(doing[t], s, i, conns)
    BY <1>0, <2>3, RolesHere
  <2>5. conns \in Seq(Connections0) /\ Apart(conns) /\ DOMAIN conns = 1 .. Len(conns)
        /\ Len(conns) \in Nat
    BY <1>0, ListFacts DEF NoTwins
  <2>6. \A k \in DOMAIN conns : conns[k] = conns[i] => k = i
    BY <2>5 DEF Apart
  <2>7. i \in Nat /\ ~(i < i)
    BY <2>5
  <2>8. ~FreedBy(doing[t], s, i, conns)
    BY <2>1, <2>2, <2>6, <2>7 DEF FreedBy
  <2> QED BY <2>2, <2>4, <2>8, FreedIsDoubled
<1> QED BY <1>1, <1>2

LEMMA SigIndSides == SigInd => SidesAgree
<1> SUFFICES ASSUME SigInd, NEW s \in Signals, NEW o \in Receivers, Free(s), Free(o)
             PROVE  /\ s \in m_senders[o] => Connected(s, o)
                    /\ Connected(s, o) => s \in m_senders[o] \/ <<s, o>> \in doubled
  BY DEF SidesAgree
<1>0. SigTypeOK /\ Alone /\ KnownIsConnected(s) /\ ConnectedIsKnown(s)
  BY LockedAlone DEF SigInd, Sides
<1>1. \A t \in SigThreads : ~OnSignal(t, s) /\ ~OnObject(t, o)
  BY <1>0 DEF Alone
<1>2. /\ ~HasLeft(s, o) /\ ~Connecting(s, o) /\ ~Disconnecting(s, o)
      /\ \A i : ~Passed(s, i)
  BY <1>1 DEF HasLeft, Connecting, Disconnecting, Passed, OnSignal, SigOps
<1>3. s \in m_senders[o] => Connected(s, o)
  BY <1>0, <1>2 DEF KnownIsConnected
<1>4. ASSUME Connected(s, o)
      PROVE  s \in m_senders[o] \/ <<s, o>> \in doubled
  <2>1. PICK i \in DOMAIN m_connected_slots[s] : m_connected_slots[s][i].dest = o
    BY <1>4, ConnectedPlaces DEF PlacesConnect
  <2>2. Known(s, o)
    BY <1>0, <1>2, <2>1 DEF ConnectedIsKnown
  <2> QED BY <1>2, <2>2 DEF Known
<1> QED BY <1>3, <1>4

LEMMA SigIndStuck == SigInd => StuckOnlyByObject
<1> SUFFICES ASSUME SigInd, Stuck
             PROVE  \E t \in AtWork : doing[t].op = "leave"
  BY DEF StuckOnlyByObject
<1>0. SigTypeOK /\ Locking
  BY DEF SigInd
<1>1. PICK t \in AtWork : WaitsFor(t) # {} /\ \A x \in WaitsFor(t) : ~Free(x)
  BY DEF Stuck
<1>2. t \in SigThreads
  BY <1>1 DEF AtWork
<1>3. CASE doing[t].op = "leave"
  BY <1>1, <1>3
<1>4. CASE doing[t].op # "leave"
  <2>1. PICK x \in WaitsFor(t) : ~Free(x)
    BY <1>1
  <2>2. x \in Receivers
    <3>1. doing[t] \in Works
      BY <1>0, <1>2 DEF SigTypeOK
    <3>2. CASE doing[t].op \in {"connect", "disconnect"}
      BY <1>0, <1>2, <2>1, <3>2 DEF WaitsFor, Locking
    <3>3. CASE doing[t].op = "clear" /\ doing[t].it # End
      <4>1. doing[t].it \in Connections0
        BY <3>1, <3>3 DEF Works
      <4> QED BY <2>1, <3>3, <4>1 DEF WaitsFor, Connections0
    <3>4. CASE doing[t].op \notin {"connect", "disconnect"}
               /\ ~(doing[t].op = "clear" /\ doing[t].it # End)
      BY <1>4, <2>1, <3>4 DEF WaitsFor
    <3> QED BY <3>2, <3>3, <3>4
  <2>3. PICK u \in SigThreads : holder[x] = u
    BY <1>0, <2>1, <2>2 DEF Free, SigTypeOK
  <2>4. doing[u].op = "leave"
    BY <1>0, <2>2, <2>3 DEF Locking, OnObject
  <2> QED BY <2>3, <2>4, IdleType DEF AtWork
<1> QED BY <1>3, <1>4

\* For any threads, signals, objects and connections: emission goes on where it was (sigslot.h
\* 1106-1114); no signal uses a connection to a destroyed object and the two sides agree, but
\* for the objects that were told of the end too early (503-505, 453); threads wait for one
\* another only where an object locks itself before the signals (602-615).  Both exceptions
\* are faults of the code, which the header (57-59, 65-66) does not make.
THEOREM SignalsBetweenThreads == SigSpec => []SigInv
<1>1. SigInd => SigInv
  BY SigIndNoFreed, SigIndSides, SigIndStuck DEF SigInd, SigInv
<1> QED BY <1>1, SigIndInit, SigIndNext, PTL DEF SigSpec
================================================================================
