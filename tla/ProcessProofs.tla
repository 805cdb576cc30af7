----------------------------- MODULE ProcessProofs -----------------------------
(***************************************************************************)
(* Proofs about the processes of ch14 and ch07 that share a semaphore,     *)
(* memory, a queue or a file, and about the servers: one process at most   *)
(* is in a critical section, also after others were killed, texts arrive   *)
(* in order, a client is given its own answer, and the page of processes   *)
(* that a child of the web server makes is right.                          *)
(***************************************************************************)
EXTENDS SemExclusion, Handoff, FileLocks, Servers, WebPages, FiniteSetTheorems,
        SequenceTheorems, TLAPS

-----------------------------------------------------------------------------
(* The critical section of sem1.c.                                         *)

USE SemExclusionAssumption

\* At the start there is no semaphore.
LEMMA SemStart == SemInit => SemInv
<1> SUFFICES ASSUME SemInit PROVE SemInv
  OBVIOUS
<1>1. semId = 0 /\ setId = 0 /\ semId \in Nat /\ setId \in 0 .. semId
  BY DEF SemInit
<1>2. sem_id \in [Procs -> 0 .. semId] /\ semI \in [Procs -> Nat] /\ semadj \in [Procs -> Int]
  BY <1>1 DEF SemInit
<1>3. SemTypeOK
  BY <1>1, <1>2 DEF SemInit, SemTypeOK
<1> QED BY <1>3 DEF SemInit, SemInv, SetOnce, UndoInv

\* A process that is not the first one never sets or removes the semaphore.
LEMMA GetStep ==
  ASSUME SemInv, NEW p \in Procs, SemGet(p)
  PROVE  SemInv'
<1> USE DEF SemInv, SemGet, SemMoves
<1>1. SemTypeOK'
  BY DEF SemTypeOK
<1>2. SetOnce'
  BY DEF SemTypeOK, SetOnce, HasSem
<1>3. CASE semThere
  <2>1. InSection' = InSection
    BY <1>3 DEF SemTypeOK, InSection, HasSem
  <2>2. UndoInv'
    BY <1>3, <2>1 DEF SemTypeOK, UndoInv, HasSem
  <2> QED BY <1>1, <1>2, <2>2
<1>4. CASE ~semThere
  <2>1. /\ semId' = semId + 1 /\ semval' = 0 /\ setId' = setId /\ setId # semId'
        /\ \A q \in Procs : HasSem(q)' <=> q = p
    BY <1>4 DEF SemTypeOK, HasSem
  <2>2. InSection' = {} /\ semadj'[p] = 0
    BY <2>1 DEF SemTypeOK, InSection
  <2>3. UndoInv'
    BY <2>1, <2>2 DEF SemTypeOK, UndoInv
  <2> QED BY <1>1, <1>2, <2>3
<1> QED BY <1>3, <1>4

\* SETVAL: the semaphore that was not set had nobody inside.
LEMMA SetStep ==
  ASSUME SemInv, set_semvalue
  PROVE  SemInv'
<1> USE DEF SemInv, set_semvalue, SemMoves
<1>1. SemTypeOK'
  BY DEF SemTypeOK
<1>2. SetOnce'
  BY DEF SemTypeOK, SetOnce, HasSem
<1>3. setId # semId /\ semThere
  BY DEF SemTypeOK, SetOnce, HasSem
<1>4. InSection' = {}
  BY <1>3 DEF SemTypeOK, UndoInv, InSection, HasSem
<1>5. UndoInv'
  BY <1>3, <1>4 DEF SemTypeOK, UndoInv, InSection, HasSem
<1> QED BY <1>1, <1>2, <1>5

\* semaphore_p: a process is let in when the semaphore is 1, which it makes 0.
LEMMA PStep ==
  ASSUME SemInv, NEW p \in Procs, semaphore_p(p)
  PROVE  SemInv'
<1> USE DEF SemInv, semaphore_p, SemMoves
<1>1. SemTypeOK'
  BY DEF SemTypeOK
<1>2. SetOnce'
  BY DEF SemTypeOK, SetOnce, HasSem
<1>3. CASE HasSem(p) /\ semPc'[p] = "inside"
  <2>1. semThere /\ setId = semId /\ semval = 1 /\ InSection = {}
    BY <1>3 DEF SemTypeOK, UndoInv, HasSem
  <2>2. InSection' = {p} /\ semval' = 0
    BY <1>3, <2>1 DEF SemTypeOK, InSection, HasSem
  <2>3. \A q \in Procs : HasSem(q)' => semadj'[q] = IF semPc'[q] = "inside" THEN 1 ELSE 0
    BY <1>3, <2>1 DEF SemTypeOK, UndoInv, HasSem
  <2>4. UndoInv'
    BY <1>3, <2>1, <2>2, <2>3 DEF UndoInv
  <2> QED BY <1>1, <1>2, <2>4
<1>4. CASE ~HasSem(p) /\ semPc'[p] = "failed"
  <2>1. InSection' = InSection
    BY <1>4 DEF SemTypeOK, InSection, HasSem
  <2>2. UndoInv'
    BY <1>4, <2>1 DEF SemTypeOK, UndoInv, HasSem
  <2> QED BY <1>1, <1>2, <2>2
<1> QED BY <1>3, <1>4 DEF SemTypeOK

\* semaphore_v: the process that is inside leaves, and the semaphore is 1 again.
LEMMA VStep ==
  ASSUME SemInv, NEW p \in Procs, semaphore_v(p)
  PROVE  SemInv'
<1> USE DEF SemInv, semaphore_v, SemMoves
<1>1. SemTypeOK'
  BY DEF SemTypeOK
<1>2. SetOnce'
  BY DEF SemTypeOK, SetOnce, HasSem
<1>3. CASE HasSem(p)
  <2>1. p \in InSection /\ semThere
    BY <1>3 DEF InSection, HasSem
  <2>2. setId = semId /\ semval = 0 /\ InSection = {p}
    BY <2>1 DEF UndoInv
  <2>3. InSection' = {} /\ semval' = 1
    BY <1>3, <2>2 DEF SemTypeOK, InSection, HasSem
  <2>4. \A q \in Procs : HasSem(q)' => semadj'[q] = 0
    BY <1>3, <2>1, <2>2 DEF SemTypeOK, UndoInv, InSection, HasSem
  <2>5. \A q \in Procs : HasSem(q)' => semPc'[q] # "inside"
    BY <2>3 DEF InSection
  <2>6. UNCHANGED <<semThere, setId, semId>>
    BY <1>3
  <2>7. UndoInv'
    BY <2>2, <2>3, <2>4, <2>5, <2>6 DEF UndoInv
  <2> QED BY <1>1, <1>2, <2>7
<1>4. CASE ~HasSem(p)
  <2>1. InSection' = InSection
    BY <1>4 DEF SemTypeOK, InSection, HasSem
  <2>2. UndoInv'
    BY <1>4, <2>1 DEF SemTypeOK, UndoInv, HasSem
  <2> QED BY <1>1, <1>2, <2>2
<1> QED BY <1>3, <1>4

\* IPC_RMID.
LEMMA DelStep ==
  ASSUME SemInv, del_semvalue
  PROVE  SemInv'
BY DEF SemInv, SemTypeOK, SetOnce, UndoInv, HasSem, del_semvalue, SemMoves

\* SEM_UNDO: the kernel raises the semaphore for a process that died inside.
LEMMA KillStep ==
  ASSUME SemInv, NEW p \in Procs, Killed(p)
  PROVE  SemInv'
<1> USE DEF SemInv, Killed
<1>0. semThere => semval \in Nat /\ (HasSem(p) => semval + semadj[p] \in Nat)
  BY DEF SemTypeOK, UndoInv
<1>1. SemTypeOK'
  BY <1>0 DEF SemTypeOK, HasSem
<1>2. SetOnce'
  BY DEF SemTypeOK, SetOnce, HasSem
<1>3. \A q \in Procs : HasSem(q)' <=> HasSem(q)
  BY DEF HasSem
<1>4. InSection' = InSection \ {p}
  BY <1>3 DEF SemTypeOK, InSection
<1>5. \A q \in Procs : semadj'[q] = (IF q = p THEN 0 ELSE semadj[q])
                       /\ (semPc'[q] = "inside" <=> q # p /\ semPc[q] = "inside")
  BY DEF SemTypeOK
<1>6. CASE semThere /\ setId = semId
  <2>1. \A q \in Procs : HasSem(q)' => semadj'[q] = IF semPc'[q] = "inside" THEN 1 ELSE 0
    BY <1>3, <1>5, <1>6 DEF UndoInv
  <2>2. CASE p \in InSection
    <3>1. semval = 0 /\ InSection = {p} /\ HasSem(p) /\ semadj[p] = 1
      BY <1>6, <2>2 DEF UndoInv, InSection
    <3>2. semval' = 1 /\ InSection' = {}
      BY <1>4, <3>1
    <3> QED BY <1>1, <1>2, <1>6, <2>1, <3>2 DEF UndoInv
  <2>3. CASE p \notin InSection
    <3>1. HasSem(p) => semadj[p] = 0
      BY <1>6, <2>3 DEF UndoInv, InSection
    <3>2. semval' = semval /\ InSection' = InSection
      BY <1>0, <1>4, <1>6, <2>3, <3>1
    <3> QED BY <1>1, <1>2, <1>6, <2>1, <3>2 DEF UndoInv
  <2> QED BY <2>2, <2>3
<1>7. CASE semThere /\ setId # semId
  <2>1. semval' = 0 /\ InSection' = {}
    BY <1>4, <1>7 DEF UndoInv
  <2>2. \A q \in Procs : HasSem(q)' => semadj'[q] = 0
    BY <1>3, <1>5, <1>7 DEF UndoInv
  <2> QED BY <1>1, <1>2, <1>7, <2>1, <2>2 DEF UndoInv
<1>8. CASE ~semThere
  BY <1>1, <1>2, <1>8 DEF UndoInv
<1> QED BY <1>6, <1>7, <1>8

\* Every step keeps the invariant.
LEMMA SemInductive == SemInv /\ [SemNext]_semVars => SemInv'
<1> SUFFICES ASSUME SemInv, [SemNext]_semVars
             PROVE  SemInv'
  OBVIOUS
<1>1. CASE SemNext
  BY <1>1, GetStep, SetStep, PStep, VStep, DelStep, KillStep DEF SemNext, SemStep
<1>2. CASE UNCHANGED semVars
  BY <1>2 DEF semVars, SemInv, SemTypeOK, SetOnce, UndoInv, HasSem, InSection
<1> QED BY <1>1, <1>2

\* Not two processes at a time in the critical section, and none shut out for
\* ever by one that died inside (sem1.c 105 and 120), for any processes.
THEOREM OneProcessInside == SemSpec => []SectionIsFreeOrOneInside
<1>1. SemInv => SectionIsFreeOrOneInside
  <2> SUFFICES ASSUME SemInv, semThere, setId = semId
               PROVE  semval + Cardinality(InSection) = 1
    BY DEF SectionIsFreeOrOneInside
  <2>1. CASE semval = 1 /\ InSection = {}
    BY <2>1, FS_EmptySet
  <2>2. CASE semval = 0 /\ \E p \in Procs : InSection = {p}
    BY <2>2, FS_Singleton
  <2> QED BY <2>1, <2>2 DEF SemInv, UndoInv
<1> QED BY <1>1, SemStart, SemInductive, PTL DEF SemSpec


-----------------------------------------------------------------------------
(* The texts handed over through memory or a queue.                        *)

\* A sequence is a prefix when its elements are those of the other.
LEMMA PrefixByElements ==
  ASSUME NEW S, NEW s \in Seq(S), NEW t \in Seq(S), Len(s) <= Len(t),
         \A i \in 1 .. Len(s) : s[i] = t[i]
  PROVE  IsPrefixOf(s, t)
<1> DEFINE u == SubSeq(t, 1, Len(s))
<1>1. /\ u \in Seq(S) /\ Len(u) = Len(s)
      /\ \A i \in 1 .. Len(s) : u[i] = t[i]
  OBVIOUS
<1>2. s = u
  BY <1>1, SeqEqual
<1> QED BY <1>2 DEF IsPrefixOf

\* The elements of a longer sequence.
LEMMA Appended ==
  ASSUME NEW S, NEW s \in Seq(S), NEW x \in S
  PROVE  /\ Append(s, x) \in Seq(S) /\ Append(s, x) # <<>>
         /\ Len(s) \in Nat /\ Len(Append(s, x)) = Len(s) + 1
         /\ \A i \in 1 .. Len(s) : Append(s, x)[i] = s[i]
         /\ Append(s, x)[Len(s) + 1] = x
OBVIOUS

\* What is received moves from the head of a queue to the end of the sequence.
LEMMA ReceiveConcat ==
  ASSUME NEW S, NEW s \in Seq(S), NEW q \in Seq(S), q # <<>>
  PROVE  /\ Head(q) \in S /\ Tail(q) \in Seq(S)
         /\ Append(s, Head(q)) \o Tail(q) = s \o q
<1>1. Head(q) \in S /\ Tail(q) \in Seq(S) /\ <<Head(q)>> \in Seq(S)
  BY HeadTailProperties
<1>2. q = <<Head(q)>> \o Tail(q)
  <2> DEFINE r == <<Head(q)>> \o Tail(q)
  <2>1. r \in Seq(S) /\ Len(q) = Len(r) /\ \A i \in 1 .. Len(q) : q[i] = r[i]
    BY <1>1
  <2>2. q = r
    BY <2>1, SeqEqual
  <2> QED BY <2>2
<1>3. Append(s, Head(q)) = s \o <<Head(q)>>
  BY <1>1, AppendIsConcat
<1>4. s \o (<<Head(q)>> \o Tail(q)) = (s \o <<Head(q)>>) \o Tail(q)
  BY <1>1, ConcatAssociative
<1> QED BY <1>1, <1>2, <1>3, <1>4

\* At the start nothing was typed.
LEMMA HandoffStart == HandoffInit => HandoffInv
<1> SUFFICES ASSUME HandoffInit PROVE HandoffInv
  OBVIOUS
<1>1. <<>> \in Seq(Typed) /\ Len(<<>>) = 0
  BY EmptySeq
<1>2. <<>> \o <<>> = <<>>
  BY <1>1, ConcatEmptySeq
<1>3. HandoffTypeOK
  BY <1>1 DEF HandoffInit, HandoffTypeOK
<1>4. QueueInOrder
  BY <1>2 DEF HandoffInit, QueueInOrder
<1>5. MemoryInOrder
  <2>1. Len(shown) = 0 /\ Len(written) = 0 /\ written_by_you = 0
    BY <1>1 DEF HandoffInit
  <2>2. Len(shown) + 0 + (IF written_by_you = 1 /\ consumerPc # "clear" THEN 1 ELSE 0)
          = Len(written)
    BY <2>1
  <2>3. \A i \in 1 .. Len(shown) : shown[i] = written[i + 0]
    BY <2>1
  <2>4. LostFirst(0)
    BY <2>2, <2>3 DEF LostFirst
  <2>5. producerPc # "flag" /\ consumerPc # "clear"
    BY DEF HandoffInit
  <2>6. shown = <<>>
    BY DEF HandoffInit
  <2> QED BY <2>1, <2>4, <2>5, <2>6 DEF MemoryInOrder
<1> QED BY <1>3, <1>4, <1>5 DEF HandoffInv

\* What the invariant says of the texts.
LEMMA TextFacts ==
  ASSUME HandoffInv
  PROVE  /\ written \in Seq(Typed) /\ shown \in Seq(Typed) /\ msg_queue \in Seq(Typed)
         /\ Len(written) \in Nat /\ Len(shown) \in Nat
         /\ producerPc \in {"copy", "flag"} => buffer \in Typed
         /\ medium = "msg" => written = shown \o msg_queue
         /\ medium = "shm" /\ written_by_you # 0 =>
              written_by_you = 1 /\ some_text \in Typed /\ some_text = written[Len(written)]
<1>1. written \in Seq(Typed) /\ shown \in Seq(Typed) /\ msg_queue \in Seq(Typed)
  BY DEF HandoffInv, HandoffTypeOK
<1>2. Len(written) \in Nat /\ Len(shown) \in Nat
  BY <1>1, LenProperties
<1>3. ASSUME written # <<>> PROVE written[Len(written)] \in Typed
  <2>1. Len(written) \in 1 .. Len(written)
    BY <1>1, <1>3, EmptySeq
  <2> QED BY <1>1, <2>1, ElementOfSeq
<1> QED BY <1>1, <1>2, <1>3
        DEF HandoffInv, HandoffTypeOK, QueueInOrder, MemoryInOrder

\* The steps of both programs keep the types.
LEMMA HandoffTypes == HandoffInv /\ [HandoffNext]_handoffVars => HandoffTypeOK'
<1> SUFFICES ASSUME HandoffInv, [HandoffNext]_handoffVars
             PROVE  HandoffTypeOK'
  OBVIOUS
<1>0. HandoffTypeOK
  BY DEF HandoffInv
<1> USE DEF HandoffTypeOK, Produce, Consume
<1>1. CASE WaitForClient \/ AskText \/ CopyText
  BY <1>0, <1>1 DEF WaitForClient, AskText, CopyText
<1>2. CASE Produce("type", "copy") /\ TypeText
  BY <1>0, <1>2 DEF TypeText, Typed
<1>3. CASE RaiseFlag
  <2>1. written' \in Seq(Typed)
    BY <1>3, TextFacts, Appended DEF RaiseFlag
  <2> QED BY <1>0, <1>3, <2>1 DEF RaiseFlag
<1>4. CASE SendText
  <2>1. written' \in Seq(Typed) /\ msg_queue' \in Seq(Typed)
    BY <1>4, TextFacts, Appended DEF SendText
  <2> QED BY <1>0, <1>4, <2>1 DEF SendText
<1>5. CASE ClearAtStart \/ ClearFlag \/ CompareText
  BY <1>0, <1>5 DEF ClearAtStart, ClearFlag, CompareText
<1>6. CASE PrintText
  <2>1. shown' \in Seq(Typed)
    BY <1>6, TextFacts, Appended DEF PrintText
  <2> QED BY <1>0, <1>6, <2>1 DEF PrintText
<1>7. CASE ReceiveText
  <2>1. shown' \in Seq(Typed) /\ msg_queue' \in Seq(Typed)
    BY <1>7, TextFacts, HeadTailProperties, Appended DEF ReceiveText
  <2> QED BY <1>0, <1>7, <2>1 DEF ReceiveText
<1>8. CASE UNCHANGED handoffVars
  BY <1>0, <1>8 DEF handoffVars
<1> QED BY <1>1, <1>2, <1>3, <1>4, <1>5, <1>6, <1>7, <1>8
        DEF HandoffNext, ProducerStep, ConsumerStep

\* The queue holds what msg2.c sent and msg1.c has not received.
LEMMA HandoffQueue == HandoffInv /\ [HandoffNext]_handoffVars => QueueInOrder'
<1> SUFFICES ASSUME HandoffInv, [HandoffNext]_handoffVars, medium' = "msg"
             PROVE  written' = shown' \o msg_queue'
  BY DEF QueueInOrder
<1> USE DEF Produce, Consume
<1>1. CASE UNCHANGED <<written, shown, msg_queue, medium>>
  BY <1>1, TextFacts
<1>2. CASE SendText
  <2>1. medium = "msg" /\ buffer \in Typed /\ shown' = shown /\ written' = Append(written, buffer)
        /\ msg_queue' = Append(msg_queue, buffer)
    BY <1>2, TextFacts DEF SendText
  <2>2. Append(shown \o msg_queue, buffer) = shown \o Append(msg_queue, buffer)
    <3>1. shown \in Seq(Typed) /\ msg_queue \in Seq(Typed) /\ buffer \in Typed
      BY <2>1, TextFacts
    <3>2. shown \o msg_queue \in Seq(Typed) /\ <<buffer>> \in Seq(Typed)
      BY <3>1
    <3>3. /\ Append(shown \o msg_queue, buffer) = (shown \o msg_queue) \o <<buffer>>
          /\ Append(msg_queue, buffer) = msg_queue \o <<buffer>>
      BY <3>1, <3>2, AppendIsConcat
    <3> QED BY <3>1, <3>2, <3>3, ConcatAssociative
  <2>3. written = shown \o msg_queue
    BY <2>1, TextFacts
  <2> QED BY <2>1, <2>2, <2>3
<1>3. CASE ReceiveText
  <2>1. /\ medium = "msg" /\ msg_queue # <<>> /\ written' = written
        /\ shown' = Append(shown, Head(msg_queue)) /\ msg_queue' = Tail(msg_queue)
    BY <1>3 DEF ReceiveText
  <2> QED BY <2>1, TextFacts, ReceiveConcat
<1> QED BY <1>1, <1>2, <1>3 DEF HandoffNext, ProducerStep, ConsumerStep, WaitForClient, CopyText,
        RaiseFlag, ClearAtStart, PrintText, ClearFlag, CompareText, AskText, TypeText, handoffVars

\* What does not touch the texts of the histories.
LEMMA LostUnchanged ==
  ASSUME NEW k, UNCHANGED <<shown, written, written_by_you>>,
         consumerPc' = "clear" <=> consumerPc = "clear"
  PROVE  LostFirst(k)' <=> LostFirst(k)
BY DEF LostFirst

\* In the shared memory a text stays until it was printed (shm1.c, shm2.c).
LEMMA HandoffMemory == HandoffInv /\ [HandoffNext]_handoffVars => MemoryInOrder'
<1> SUFFICES ASSUME HandoffInv, [HandoffNext]_handoffVars, medium = "shm", medium' = "shm"
             PROVE  MemoryInOrder'
  BY DEF MemoryInOrder, HandoffNext, ProducerStep, ConsumerStep, Produce, Consume, WaitForClient,
     CopyText, RaiseFlag, AskText, SendText, ClearAtStart, PrintText, ClearFlag, CompareText,
     ReceiveText, handoffVars
<1>0. MemoryInOrder /\ written_by_you \in {0, 1}
  BY DEF HandoffInv, HandoffTypeOK
<1> USE DEF MemoryInOrder, Produce, Consume
<1>1. CASE WaitForClient \/ CopyText \/ (Produce("type", "copy") /\ TypeText)
  <2>1. \A k \in {0, 1} : LostFirst(k)' <=> LostFirst(k)
    BY <1>1, LostUnchanged DEF WaitForClient, CopyText, TypeText
  <2> QED BY <1>0, <1>1, <2>1 DEF WaitForClient, CopyText, TypeText
<1>2. CASE CompareText \/ UNCHANGED handoffVars
  <2>1. \A k \in {0, 1} : LostFirst(k)' <=> LostFirst(k)
    BY <1>2, LostUnchanged DEF CompareText, handoffVars
  <2> QED BY <1>0, <1>2, <2>1 DEF CompareText, handoffVars
<1>3. CASE RaiseFlag
  <2>1. /\ written' = Append(written, buffer) /\ buffer \in Typed
        /\ written_by_you = 0 /\ written_by_you' = 1 /\ some_text' = buffer
        /\ shown' = shown /\ consumerPc # "clear" /\ consumerPc' = consumerPc
        /\ producerPc' \in {"start", "ended"}
    BY <1>0, <1>3, TextFacts DEF RaiseFlag
  <2>2. /\ written' # <<>> /\ Len(written') = Len(written) + 1 /\ Len(written) \in Nat
        /\ \A i \in 1 .. Len(written) : written'[i] = written[i]
        /\ some_text' = written'[Len(written')]
    BY <2>1, TextFacts, Appended
  <2>3. Len(shown) \in Nat
    BY TextFacts
  <2>4. ASSUME NEW k \in {0, 1}, LostFirst(k) PROVE LostFirst(k)'
    BY <2>1, <2>2, <2>3, <2>4 DEF LostFirst
  <2> QED BY <1>0, <2>1, <2>2, <2>4
<1>4. CASE ClearAtStart
  <2>1. /\ shown = <<>> /\ shown' = shown /\ written' = written
        /\ written_by_you' = 0 /\ consumerPc = "start"
        /\ consumerPc' = "test" /\ UNCHANGED <<producerPc, some_text, buffer>>
    BY <1>0, <1>4 DEF ClearAtStart
  <2>2. Len(written) \in Nat /\ Len(shown) = 0 /\ LostFirst(0)
    BY <1>0, <2>1, TextFacts, EmptySeq
  <2>3. LostFirst(0)' \/ LostFirst(1)'
    BY <1>0, <2>1, <2>2 DEF LostFirst
  <2> QED BY <1>0, <2>1, <2>3
<1>5. CASE PrintText
  <2>1. /\ shown' = Append(shown, some_text) /\ written_by_you = 1 /\ written_by_you' = 1
        /\ UNCHANGED <<written, some_text, producerPc, buffer>> /\ consumerPc = "test"
        /\ consumerPc' = "clear" /\ some_text = written[Len(written)] /\ some_text \in Typed
    BY <1>5, TextFacts DEF PrintText
  <2>2. /\ Len(shown') = Len(shown) + 1 /\ shown'[Len(shown) + 1] = some_text
        /\ \A i \in 1 .. Len(shown) : shown'[i] = shown[i]
    BY <2>1, TextFacts, Appended
  <2>3. Len(shown) \in Nat /\ Len(written) \in Nat
    BY TextFacts
  <2>4. ASSUME NEW k \in {0, 1}, LostFirst(k) PROVE LostFirst(k)'
    BY <2>1, <2>2, <2>3, <2>4 DEF LostFirst
  <2> QED BY <1>0, <2>1, <2>4
<1>6. CASE ClearFlag
  <2>1. \A k \in {0, 1} : LostFirst(k) => LostFirst(k)'
    BY <1>0, <1>6, TextFacts DEF ClearFlag, LostFirst
  <2> QED BY <1>0, <1>6, <2>1 DEF ClearFlag
<1> QED BY <1>1, <1>2, <1>3, <1>4, <1>5, <1>6
        DEF HandoffNext, ProducerStep, ConsumerStep, AskText, SendText, ReceiveText

\* The texts come out in the order they were typed, each once and whole; the one
\* that may be lost is the first, typed before the program that prints was
\* started (shm1.c 46).  For any texts, however many, and any queue.
THEOREM TextsArriveInOrder == HandoffSpec => []ShownInOrder
<1>1. HandoffInv => ShownInOrder
  <2> SUFFICES ASSUME HandoffInv PROVE ShownInOrder
    OBVIOUS
  <2>0. /\ shown \in Seq(Typed) /\ written \in Seq(Typed) /\ msg_queue \in Seq(Typed)
        /\ Len(shown) \in Nat /\ Len(written) \in Nat
    BY TextFacts
  <2>1. CASE medium = "msg"
    <3>1. written = shown \o msg_queue
      BY <2>1, TextFacts
    <3>2. Len(shown) <= Len(written) /\ \A i \in 1 .. Len(shown) : shown[i] = written[i]
      BY <2>0, <3>1, ConcatProperties, LenProperties
    <3> QED BY <2>0, <3>2, PrefixByElements DEF ShownInOrder
  <2>2. CASE medium = "shm" /\ LostFirst(0)
    <3>1. Len(shown) <= Len(written) /\ \A i \in 1 .. Len(shown) : shown[i] = written[i]
      BY <2>0, <2>2 DEF LostFirst
    <3> QED BY <2>0, <3>1, PrefixByElements DEF ShownInOrder
  <2>3. CASE medium = "shm" /\ LostFirst(1)
    <3>1. Len(written) # 0 /\ written # <<>>
      BY <2>0, <2>3, EmptySeq DEF LostFirst
    <3>2. /\ Tail(written) \in Seq(Typed) /\ Len(Tail(written)) = Len(written) - 1
          /\ \A i \in 1 .. Len(Tail(written)) : Tail(written)[i] = written[i + 1]
      BY <2>0, <3>1, HeadTailProperties
    <3>3. /\ Len(shown) <= Len(Tail(written))
          /\ \A i \in 1 .. Len(shown) : shown[i] = Tail(written)[i]
      BY <2>0, <2>3, <3>2 DEF LostFirst
    <3> QED BY <2>0, <2>3, <3>1, <3>2, <3>3, PrefixByElements DEF ShownInOrder
  <2> QED BY <2>1, <2>2, <2>3 DEF HandoffInv, HandoffTypeOK, MemoryInOrder
<1>2. HandoffInv /\ [HandoffNext]_handoffVars => HandoffInv'
  BY HandoffTypes, HandoffQueue, HandoffMemory DEF HandoffInv
<1> QED BY <1>1, <1>2, HandoffStart, PTL DEF HandoffSpec


-----------------------------------------------------------------------------
(* The lock files and the record locks of ch07.                            *)

\* Every call of lock3.c and lock5.c is of a known type, on bytes of the file.
LEMMA CallTypes ==
  ASSUME NEW p, NEW i \in 1 .. Len(CallsOf(p))
  PROVE  CallsOf(p)[i].type \in LockTypes /\ CallsOf(p)[i].on \subseteq FileBytes
<1>1. ASSUME NEW j \in 1 .. Len(Lock3Calls)
      PROVE  Lock3Calls[j].type \in LockTypes /\ Lock3Calls[j].on \subseteq FileBytes
  <2>1. j \in {1, 2}
    BY DEF Lock3Calls
  <2> QED BY <2>1 DEF Lock3Calls, Fcntl, Region, LockTypes
<1>2. ASSUME NEW j \in 1 .. Len(Lock5Calls)
      PROVE  Lock5Calls[j].type \in LockTypes /\ Lock5Calls[j].on \subseteq FileBytes
  <2>1. j \in {1, 2, 3, 4, 5, 6}
    BY DEF Lock5Calls
  <2> QED BY <2>1 DEF Lock5Calls, Fcntl, Region, LockTypes
<1> QED BY <1>1, <1>2 DEF CallsOf

\* At the start there is no lock file, and no byte is locked.
LEMMA LocksStart == LocksInit => FileLocksInv
<1> SUFFICES ASSUME LocksInit PROVE FileLocksInv
  OBVIOUS
<1>1. Unlocked \in [FileBytes -> LockTypes] /\ \A b \in FileBytes : Unlocked[b] = "F_UNLCK"
  BY DEF Unlocked, LockTypes
<1>2. does \in [Lockers -> {"lock2", "lock3", "lock5"}]
  BY DEF LocksInit
<1>3. LocksTypeOK
  BY <1>1, <1>2, FileLocksAssumption DEF LocksInit, LocksTypeOK
<1>4. LockFileOwner
  BY DEF LocksInit, LockFileOwner, Owners
<1> QED BY <1>3, <1>4 DEF FileLocksInv

\* The lock file of lock2.c is made by one process and removed by it.
LEMMA LockFileStep ==
  ASSUME FileLocksInv, NEW p \in Lockers, OpenLock(p) \/ UnlinkLock(p) \/ LastTry(p)
  PROVE  FileLocksInv'
<1> USE DEF LockerMoves
<1>0. LocksTypeOK /\ LockFileOwner
  BY DEF FileLocksInv
<1>1. LocksTypeOK'
  BY <1>0 DEF LocksTypeOK, OpenLock, UnlinkLock, LastTry
<1>2. diedInside' \subseteq {q \in Lockers : lockPc'[q] = "killed"}
  BY <1>0 DEF LocksTypeOK, LockFileOwner, OpenLock, UnlinkLock, LastTry
<1>3. p \notin diedInside
  BY <1>0 DEF LockFileOwner, OpenLock, UnlinkLock, LastTry
<1>4. CASE ~lock_file /\ lock_file' /\ LockerMoves(p, "try", "inside") /\ diedInside' = diedInside
  <2>1. Owners = {} /\ Owners' = {p}
    BY <1>0, <1>4 DEF LocksTypeOK, LockFileOwner, Owners
  <2> QED BY <1>1, <1>2, <1>4, <2>1 DEF FileLocksInv, LockFileOwner
<1>5. CASE UnlinkLock(p)
  <2>1. p \in Owners
    BY <1>5 DEF UnlinkLock, Owners
  <2>2. Owners = {p}
    BY <1>0, <2>1 DEF LockFileOwner
  <2>3. Owners' = {}
    BY <1>0, <1>3, <1>5, <2>2 DEF LocksTypeOK, UnlinkLock, Owners
  <2> QED BY <1>1, <1>2, <1>5, <2>3 DEF FileLocksInv, LockFileOwner, UnlinkLock
<1>6. CASE lockPc[p] = "try" /\ lockPc' = [lockPc EXCEPT ![p] = lockPc'[p]]
           /\ lockPc'[p] # "inside" /\ UNCHANGED <<lock_file, diedInside>>
  <2>1. Owners' = Owners
    BY <1>0, <1>6 DEF LocksTypeOK, Owners
  <2> QED BY <1>0, <1>1, <1>2, <1>6, <2>1 DEF FileLocksInv, LockFileOwner
<1> QED BY <1>0, <1>4, <1>5, <1>6 DEF LocksTypeOK, OpenLock, LastTry

\* fcntl moves no process into the critical region or out of it.
LEMMA FcntlStep ==
  ASSUME FileLocksInv, NEW p \in Lockers, NextFcntl(p)
  PROVE  FileLocksInv'
<1> USE DEF LockerMoves
<1>0. LocksTypeOK /\ LockFileOwner
  BY DEF FileLocksInv
<1> DEFINE c == CallsOf(p)[fcntls[p] + 1]
           after == [b \in FileBytes |-> IF b \in c.on THEN c.type ELSE locked[p][b]]
<1>1. c.type \in LockTypes
  <2>1. fcntls[p] \in Nat /\ fcntls[p] < Len(CallsOf(p))
    BY <1>0 DEF LocksTypeOK, NextFcntl
  <2>2. Len(CallsOf(p)) \in Nat
    BY DEF CallsOf, Lock3Calls, Lock5Calls
  <2>3. fcntls[p] + 1 \in 1 .. Len(CallsOf(p))
    BY <2>1, <2>2
  <2> QED BY <2>3, CallTypes
<1>2. after \in [FileBytes -> LockTypes]
  BY <1>0, <1>1 DEF LocksTypeOK
<1> HIDE DEF c
<1>3. \/ InTheWay(p, c) = {} /\ locked' = [locked EXCEPT ![p] = after]
      \/ locked' = locked
  BY <1>0 DEF NextFcntl, LocksTypeOK, c
<1>4. LocksTypeOK'
  <2>1. locked' \in [Lockers -> [FileBytes -> LockTypes]]
    BY <1>0, <1>2, <1>3 DEF LocksTypeOK
  <2> QED BY <1>0, <2>1 DEF LocksTypeOK, NextFcntl
<1>5. LockFileOwner'
  <2>1. \A q \in Lockers : /\ lockPc'[q] = "inside" <=> lockPc[q] = "inside"
                           /\ lockPc'[q] = "killed" <=> lockPc[q] = "killed"
    BY <1>0 DEF LocksTypeOK, NextFcntl
  <2>2. UNCHANGED <<lock_file, diedInside>>
    BY DEF NextFcntl
  <2>3. Owners' = Owners
    BY <2>1, <2>2 DEF Owners
  <2> QED BY <1>0, <2>1, <2>2, <2>3 DEF LockFileOwner
<1> QED BY <1>4, <1>5 DEF FileLocksInv

\* A process that closes the file or is killed gives its regions up; the lock
\* file of one that died inside stays, and with it the owner.
LEMMA GiveUpStep ==
  ASSUME FileLocksInv, NEW p \in Lockers, CloseLocked(p) \/ LockerKilled(p)
  PROVE  FileLocksInv'
<1> USE DEF LockerMoves
<1>0. LocksTypeOK /\ LockFileOwner
  BY DEF FileLocksInv
<1>1. Unlocked \in [FileBytes -> LockTypes] /\ \A b \in FileBytes : Unlocked[b] = "F_UNLCK"
  BY DEF Unlocked, LockTypes
<1>2. LocksTypeOK'
  BY <1>0, <1>1 DEF LocksTypeOK, CloseLocked, LockerKilled
<1>3. Owners' = Owners /\ diedInside' \subseteq {q \in Lockers : lockPc'[q] = "killed"}
  <2>1. CASE CloseLocked(p)
    BY <1>0, <2>1 DEF LocksTypeOK, LockFileOwner, CloseLocked, Owners
  <2>2. CASE LockerKilled(p)
    <3>1. CASE lockPc[p] = "inside"
      BY <1>0, <2>2, <3>1 DEF LocksTypeOK, LockFileOwner, LockerKilled, Owners
    <3>2. CASE lockPc[p] # "inside"
      BY <1>0, <2>2, <3>2 DEF LocksTypeOK, LockFileOwner, LockerKilled, Owners
    <3> QED BY <3>1, <3>2
  <2> QED BY <2>1, <2>2
<1>4. LockFileOwner'
  BY <1>0, <1>3 DEF LockFileOwner, CloseLocked, LockerKilled
<1> QED BY <1>2, <1>4 DEF FileLocksInv

\* Every step of the processes keeps the invariant.
LEMMA LocksInductive == FileLocksInv /\ [LocksNext]_lockVars => FileLocksInv'
<1> SUFFICES ASSUME FileLocksInv, [LocksNext]_lockVars
             PROVE  FileLocksInv'
  OBVIOUS
<1>1. CASE LocksNext
  BY <1>1, LockFileStep, FcntlStep, GiveUpStep DEF LocksNext, LockerStep
<1>2. CASE UNCHANGED lockVars
  BY <1>2 DEF lockVars, FileLocksInv, LocksTypeOK, LockFileOwner, Owners
<1> QED BY <1>1, <1>2

\* While the lock file of lock2.c exists it has exactly one owner, who is in the
\* critical region or died there, for any processes.
THEOREM LocksExclude == LocksSpec => []LockFileIsOfOne
<1>1. FileLocksInv => LockFileIsOfOne
  <2> SUFFICES ASSUME FileLocksInv PROVE LockFileIsOfOne
    OBVIOUS
  <2>1. LockFileIsOfOne <=> Cardinality(Owners) = IF lock_file THEN 1 ELSE 0
    BY DEF LockFileIsOfOne, Owners
  <2>2. CASE lock_file
    <3>1. PICK p \in Lockers : Owners = {p}
      BY <2>2 DEF FileLocksInv, LockFileOwner
    <3> QED BY <2>1, <2>2, <3>1, FS_Singleton
  <2>3. CASE ~lock_file
    <3>1. Owners = {}
      BY <2>3 DEF FileLocksInv, LockFileOwner
    <3> QED BY <2>1, <2>3, <3>1, FS_EmptySet
  <2> QED BY <2>2, <2>3
<1> QED BY <1>1, LocksStart, LocksInductive, PTL DEF LocksSpec

-----------------------------------------------------------------------------
(* The web server: its handler of SIGCHLD, and the answers of its children. *)

WebChildPcs == {None, "read", "headers", "check", "module", "waitpid", "end", "close",
                "zombie", "gone"}

RequestKinds == {"protocol", "method", "page", "file", "symbol", "ok", "diskfree"}

WebTypeOK ==
  /\ chldPending \in BOOLEAN /\ inHandler \in BOOLEAN
  /\ child \in [Connections -> WebChildPcs]
  /\ conn \in [Connections -> {None, "queued", "open", "closed"}]
  /\ request \in [Connections -> {None} \cup RequestKinds]
  /\ hangup \in [Connections -> {None, "closed", "reset"}]
  /\ response = [c \in Connections |-> response[c]]
  /\ first = [c \in Connections |-> first[c]]

\* A connection that was not accepted has no child, and the one that was just
\* accepted is open and has none yet.
ForkedOnce ==
  /\ \A c \in Connections : conn[c] \in {None, "queued"} => child[c] = None
  /\ webPc \in {"fork", "close"} => accepted \in Connections /\ conn[accepted] = "open"
  /\ webPc = "fork" => child[accepted] = None

\* What the child has found out about the request, and written, at each place.
AnswerAtPlace(c) ==
  /\ conn[c] # None => request[c] \in RequestKinds
  /\ child[c] \in {None, "read", "headers", "check"} => response[c] = None
  /\ child[c] = "waitpid" => request[c] = "diskfree"
  /\ child[c] \in {"module", "end"} => request[c] \in {"ok", "diskfree"}
  /\ child[c] = "close" => response[c] # "200"

\* The text is one that the request may be answered with.
TextFits(c, text) ==
  /\ request[c] = "protocol" =>
       text \in {None, "start of 400"} \cup (IF HeldProtocol(c) THEN {} ELSE {"501"})
  /\ request[c] = "method" =>
       text \in {None, "501"} \cup (IF HeldProtocol(c) THEN {} ELSE {"start of 400"})
  /\ text = "cut" => request[c] = "diskfree"
  /\ text = "start of 400" => request[c] = "protocol" \/ ~HeldProtocol(c)

WebServerInv ==
  /\ WebTypeOK /\ ForkedOnce /\ HandlerFindsZombie
  /\ \A c \in Connections : AnswerAtPlace(c)
  /\ AnswerFits

\* At the start there is no connection and no child.
LEMMA WebStart == WebInit => WebServerInv
<1> SUFFICES ASSUME WebInit PROVE WebServerInv
  OBVIOUS
<1>1. Zombies = {}
  BY DEF WebInit, Zombies, None
<1>2. HandlerFindsZombie
  BY <1>1, FS_EmptySet DEF WebInit, HandlerFindsZombie
<1>3. WebTypeOK /\ ForkedOnce
  BY DEF WebInit, WebTypeOK, WebChildPcs, ForkedOnce, None
<1>4. AnswerFits /\ \A c \in Connections : AnswerAtPlace(c)
  BY DEF WebInit, AnswerFits, AnswerAtPlace, HeldProtocol, None
<1> QED BY <1>2, <1>3, <1>4 DEF WebServerInv

\* The children that ended are finitely many.
LEMMA ZombiesFinite == IsFiniteSet(Zombies)
<1>1. Zombies \subseteq Connections
  BY DEF Zombies
<1> QED BY <1>1, FS_Subset, WebServerAssumption

\* A step that leaves the ended children and the two flags leaves the promise.
LEMMA SameZombies ==
  ASSUME HandlerFindsZombie, Zombies' = Zombies, inHandler' = inHandler,
         chldPending' = chldPending
  PROVE  HandlerFindsZombie'
BY DEF HandlerFindsZombie

\* The client's steps.
LEMMA WebClientStep ==
  ASSUME WebServerInv, NEW c \in Connections, Connect(c) \/ SendSegment(c) \/ HangUp(c)
  PROVE  WebServerInv'
<1> USE DEF WebServerInv, serverVars, clientVars, readVars, dfVars, HeldProtocol
<1>1. UNCHANGED <<child, inHandler, chldPending, webPc, accepted, response, first>>
  BY DEF Connect, SendSegment, HangUp
<1>2. Zombies' = Zombies
  BY <1>1 DEF Zombies
<1>3. HandlerFindsZombie'
  BY <1>1, <1>2, SameZombies
<1>4. CASE Connect(c)
  <2>1. PICK k \in Kinds[c] : request' = [request EXCEPT ![c] = k]
    BY <1>4 DEF Connect
  <2>2. k \in RequestKinds
    BY <2>1, WebServerAssumption DEF RequestKinds
  <2>3. conn[c] = None /\ child[c] = None /\ response[c] = None
    BY <1>4 DEF Connect, ForkedOnce, AnswerAtPlace
  <2>4. WebTypeOK'
    BY <1>4, <2>1, <2>2 DEF Connect, WebTypeOK
  <2>5. ForkedOnce'
    BY <1>4, <1>1, <2>3 DEF Connect, WebTypeOK, ForkedOnce, None
  <2>6. (\A d \in Connections : AnswerAtPlace(d)) /\ AnswerFits
    OBVIOUS
  <2>7. \A d \in Connections \ {c} : conn'[d] = conn[d] /\ request'[d] = request[d]
    BY <1>4, <2>1 DEF Connect, WebTypeOK
  <2>8. request'[c] = k
    BY <2>1 DEF WebTypeOK
  <2>9. hangup' = hangup
    BY <1>4 DEF Connect
  <2>10. \A d \in Connections : AnswerAtPlace(d)'
    BY <1>1, <2>2, <2>3, <2>6, <2>7, <2>8 DEF AnswerAtPlace, None
  <2>11. AnswerFits'
    <3>1. ASSUME NEW d \in Connections
          PROVE  /\ TextFits(d, response[d])'
                 /\ child'[d] \in {"zombie", "gone"} /\ response'[d] = "200" =>
                      hangup'[d] = "reset"
      <4>1. CASE d = c
        BY <1>1, <2>3, <4>1 DEF TextFits, None
      <4>2. CASE d # c
        BY <1>1, <2>6, <2>7, <2>9, <4>2 DEF AnswerFits, TextFits
      <4> QED BY <4>1, <4>2
    <3> QED BY <3>1 DEF AnswerFits, TextFits
  <2> QED BY <1>3, <2>4, <2>5, <2>10, <2>11
<1>5. CASE SendSegment(c)
  <2>1. UNCHANGED <<conn, request, hangup>>
    BY <1>5 DEF SendSegment
  <2>2. WebTypeOK' /\ ForkedOnce'
    BY <1>1, <2>1 DEF WebTypeOK, ForkedOnce
  <2>3. AnswerFits' /\ \A d \in Connections : AnswerAtPlace(d)'
    BY <1>1, <2>1 DEF AnswerFits, AnswerAtPlace
  <2> QED BY <1>3, <2>2, <2>3
<1>6. CASE HangUp(c)
  <2>1. hangup[c] = None
        /\ \E h \in {"closed", "reset"} : hangup' = [hangup EXCEPT ![c] = h]
    BY <1>6 DEF HangUp
  <2>2. WebTypeOK' /\ ForkedOnce'
    BY <1>1, <1>6, <2>1 DEF HangUp, WebTypeOK, ForkedOnce
  <2>3. \A d \in Connections : hangup[d] = "reset" => hangup'[d] = "reset"
    BY <2>1 DEF WebTypeOK, None
  <2>4. AnswerFits' /\ \A d \in Connections : AnswerAtPlace(d)'
    BY <1>1, <1>6, <2>3 DEF HangUp, AnswerAtPlace, AnswerFits
  <2> QED BY <1>3, <2>2, <2>4
<1> QED BY <1>4, <1>5, <1>6

\* The server's steps but those of its handler.
LEMMA WebServerStep ==
  ASSUME WebServerInv,
         \/ ParseOption \/ Listen \/ AcceptConnection \/ AcceptFails \/ ForkChild \/ ForkFails
         \/ CloseCopy
  PROVE  WebServerInv'
<1> USE DEF WebServerInv, clientVars, readVars, dfVars, ServerCalls, HeldProtocol
<1>1. UNCHANGED <<inHandler, chldPending, request, hangup, response, first>>
  BY DEF ParseOption, Listen, AcceptConnection, AcceptFails, ForkChild, ForkFails, CloseCopy
<1>2. CASE ForkChild
  <2>1. accepted \in Connections /\ child[accepted] = None /\ conn[accepted] = "open"
    BY <1>2 DEF ForkChild, ForkedOnce
  <2>2. child' = [child EXCEPT ![accepted] = "read"] /\ UNCHANGED <<conn, accepted>>
        /\ webPc' = "close"
    BY <1>2 DEF ForkChild
  <2>3. Zombies' = Zombies
    BY <2>1, <2>2 DEF Zombies, WebTypeOK, None
  <2>4. WebTypeOK' /\ ForkedOnce'
    BY <1>1, <2>1, <2>2 DEF WebTypeOK, WebChildPcs, ForkedOnce, None
  <2>5. \A d \in Connections : IF d = accepted THEN child'[d] = "read" /\ response[d] = None
                               ELSE child'[d] = child[d]
    BY <2>1, <2>2 DEF WebTypeOK, AnswerAtPlace
  <2>6. AnswerFits' /\ \A d \in Connections : AnswerAtPlace(d)'
    BY <1>1, <2>1, <2>2, <2>5 DEF AnswerFits, AnswerAtPlace
  <2> QED BY <1>1, <2>3, <2>4, <2>6, SameZombies
<1>3. CASE ParseOption \/ Listen \/ AcceptConnection \/ AcceptFails \/ ForkFails \/ CloseCopy
  <2>1. child' = child
    BY <1>3 DEF ParseOption, Listen, AcceptConnection, AcceptFails, ForkFails, CloseCopy
  <2>2. Zombies' = Zombies
    BY <2>1 DEF Zombies
  <2>3. WebTypeOK' /\ ForkedOnce'
    BY <1>1, <1>3, <2>1
    DEF WebTypeOK, ForkedOnce, ParseOption, Listen, AcceptConnection, AcceptFails, ForkFails,
        CloseCopy, None
  <2>4. \A d \in Connections : conn[d] = None => conn'[d] = None
    BY <1>3
    DEF WebTypeOK, ForkedOnce, ParseOption, Listen, AcceptConnection, AcceptFails, ForkFails,
        CloseCopy, None
  <2>5. \A d \in Connections : conn'[d] # None => conn[d] # None
    BY <2>4
  <2>6. AnswerFits' /\ \A d \in Connections : AnswerAtPlace(d)'
    BY <1>1, <2>1, <2>5 DEF AnswerFits, AnswerAtPlace
  <2> QED BY <1>1, <2>2, <2>3, <2>6, SameZombies
<1> QED BY <1>2, <1>3

\* The handler: it takes one of the children that ended, of which there is one
\* for the SIGCHLD it handles.
LEMMA WebHandlerStep ==
  ASSUME WebServerInv, EnterHandler \/ WaitForOne
  PROVE  WebServerInv'
<1> USE DEF WebServerInv, clientVars, readVars, dfVars, HeldProtocol
<1>1. UNCHANGED <<request, hangup, response, conn, webPc, accepted, first>>
  BY DEF EnterHandler, WaitForOne
<1>2. CASE EnterHandler
  <2>1. child' = child /\ Zombies' = Zombies
    BY <1>2 DEF EnterHandler, Zombies
  <2>2. HandlerFindsZombie'
    BY <1>2, <2>1 DEF EnterHandler, HandlerFindsZombie
  <2>3. WebTypeOK' /\ ForkedOnce'
    BY <1>1, <1>2, <2>1 DEF EnterHandler, WebTypeOK, ForkedOnce
  <2>4. AnswerFits' /\ \A d \in Connections : AnswerAtPlace(d)'
    BY <1>1, <2>1 DEF AnswerFits, AnswerAtPlace
  <2> QED BY <2>2, <2>3, <2>4
<1>3. CASE WaitForOne
  <2>1. PICK c \in Zombies : child' = [child EXCEPT ![c] = "gone"]
    BY <1>3 DEF WaitForOne
  <2>2. c \in Connections /\ child[c] = "zombie"
    BY DEF Zombies
  <2>3. Zombies' = Zombies \ {c}
    BY <2>1, <2>2 DEF Zombies, WebTypeOK
  <2>4. Cardinality(Zombies') = Cardinality(Zombies) - 1 /\ Cardinality(Zombies) \in Nat
    BY <2>3, FS_RemoveElement, FS_CardinalityType, ZombiesFinite
  <2>5. inHandler /\ inHandler' = FALSE /\ chldPending' = chldPending
    BY <1>3 DEF WaitForOne
  <2>6. HandlerFindsZombie'
    BY <2>4, <2>5 DEF HandlerFindsZombie
  <2>7. \A d \in Connections : child'[d] = IF d = c THEN "gone" ELSE child[d]
    BY <2>1 DEF WebTypeOK
  <2>8. WebTypeOK' /\ ForkedOnce'
    BY <1>1, <2>1, <2>2, <2>5, <2>7 DEF WebTypeOK, WebChildPcs, ForkedOnce, None
  <2>9. AnswerFits' /\ \A d \in Connections : AnswerAtPlace(d)'
    BY <1>1, <2>2, <2>7 DEF AnswerFits, AnswerAtPlace, None
  <2> QED BY <2>6, <2>8, <2>9
<1> QED BY <1>2, <1>3

\* A child that ends raises SIGCHLD, and is there to be waited for.
LEMMA ChildGoesOn ==
  ASSUME WebServerInv, NEW c \in Connections, NEW from \in WebChildPcs \ {None, "zombie", "gone"},
         NEW to \in WebChildPcs \ {None, "gone"}, ChildMoves(c, from, to)
  PROVE  /\ child' \in [Connections -> WebChildPcs] /\ chldPending' \in BOOLEAN
         /\ HandlerFindsZombie' /\ ForkedOnce'
         /\ \A d \in Connections : child'[d] = IF d = c THEN to ELSE child[d]
         /\ conn[c] # None
<1> USE DEF WebServerInv, ChildMoves, serverVars
<1>1. child' = [child EXCEPT ![c] = to] /\ child[c] = from
  OBVIOUS
<1>2. \A d \in Connections : child'[d] = IF d = c THEN to ELSE child[d]
  BY <1>1 DEF WebTypeOK
<1>3. conn[c] \notin {None, "queued"}
  BY DEF ForkedOnce
<1>4. ForkedOnce'
  BY <1>2, <1>3 DEF ForkedOnce
<1>5. child' \in [Connections -> WebChildPcs] /\ chldPending' \in BOOLEAN
  BY DEF WebTypeOK
<1>6. HandlerFindsZombie'
  <2>1. CASE to = "zombie"
    <3>1. Zombies' = Zombies \cup {c} /\ c \notin Zombies
      BY <1>1, <1>2, <2>1 DEF Zombies
    <3>2. Cardinality(Zombies') = Cardinality(Zombies) + 1 /\ Cardinality(Zombies) \in Nat
      BY <3>1, FS_AddElement, FS_CardinalityType, ZombiesFinite
    <3> QED BY <3>2 DEF HandlerFindsZombie, WebTypeOK
  <2>2. CASE to # "zombie"
    <3>1. Zombies' = Zombies
      BY <1>1, <1>2, <2>2 DEF Zombies
    <3>2. chldPending' = chldPending
      BY <2>2 DEF WebTypeOK
    <3> QED BY <3>1, <3>2, SameZombies
  <2> QED BY <2>1, <2>2
<1> QED BY <1>2, <1>3, <1>4, <1>5, <1>6

\* A child goes to a place where what it has written is right.
LEMMA ChildKeeps ==
  ASSUME WebServerInv, NEW c \in Connections, NEW r,
         NEW from \in WebChildPcs \ {None, "zombie", "gone"},
         NEW to \in WebChildPcs \ {None, "gone", "read"}, ChildMoves(c, from, to),
         response' = [response EXCEPT ![c] = r],
         hangup' = hangup \/ hangup' = [hangup EXCEPT ![c] = "reset"],
         first' = first \/ (r = None /\ \E n : first' = [first EXCEPT ![c] = n]),
         to \in {"headers", "check"} => r = None,
         to = "waitpid" => request[c] = "diskfree",
         to \in {"module", "end"} => request[c] \in {"ok", "diskfree"},
         to = "close" => r # "200",
         to = "zombie" /\ r = "200" => hangup'[c] = "reset",
         TextFits(c, r)
  PROVE  WebServerInv'
<1> USE DEF WebServerInv
<1>1. UNCHANGED <<conn, request, inHandler>>
  BY DEF ChildMoves, serverVars
<1>2. /\ HandlerFindsZombie' /\ ForkedOnce' /\ conn[c] # None
      /\ child' \in [Connections -> WebChildPcs] /\ chldPending' \in BOOLEAN
      /\ \A d \in Connections : child'[d] = IF d = c THEN to ELSE child[d]
  BY ChildGoesOn
<1>3. /\ response' = [d \in Connections |-> response'[d]]
      /\ \A d \in Connections : response'[d] = IF d = c THEN r ELSE response[d]
  BY DEF WebTypeOK
<1>4. /\ first' = [d \in Connections |-> first'[d]]
      /\ \A d \in Connections \ {c} : first'[d] = first[d]
      /\ first'[c] = first[c] \/ r = None
  BY DEF WebTypeOK
<1>5. /\ hangup' \in [Connections -> {None, "closed", "reset"}]
      /\ \A d \in Connections \ {c} : hangup'[d] = hangup[d]
  BY DEF WebTypeOK
<1>6. WebTypeOK'
  BY <1>1, <1>2, <1>3, <1>4, <1>5 DEF WebTypeOK
<1>7. ASSUME NEW d \in Connections PROVE AnswerAtPlace(d)'
  <2>1. CASE d = c
    BY <1>1, <1>2, <1>3, <2>1 DEF AnswerAtPlace
  <2>2. CASE d # c
    BY <1>1, <1>2, <1>3, <2>2 DEF AnswerAtPlace
  <2> QED BY <2>1, <2>2
<1>8. ASSUME NEW d \in Connections
      PROVE  /\ TextFits(d, response[d])'
             /\ child'[d] \in {"zombie", "gone"} /\ response'[d] = "200" => hangup'[d] = "reset"
  <2>1. CASE d = c
    <3>1. response'[d] = r /\ child'[d] = to /\ request'[d] = request[c]
      BY <1>1, <1>2, <1>3, <2>1
    <3>2. CASE first'[c] = first[c]
      BY <2>1, <3>1, <3>2 DEF TextFits, HeldProtocol
    <3>3. CASE r = None
      BY <2>1, <3>1, <3>3 DEF TextFits, None
    <3> QED BY <1>4, <2>1, <3>1, <3>2, <3>3 DEF WebChildPcs
  <2>2. CASE d # c
    <3>1. /\ response'[d] = response[d] /\ child'[d] = child[d] /\ request'[d] = request[d]
          /\ first'[d] = first[d] /\ hangup'[d] = hangup[d]
      BY <1>1, <1>2, <1>3, <1>4, <1>5, <2>2
    <3> QED BY <3>1 DEF AnswerFits, TextFits, HeldProtocol
  <2> QED BY <2>1, <2>2
<1>9. AnswerFits'
  BY <1>8 DEF AnswerFits, TextFits
<1> QED BY <1>2, <1>6, <1>7, <1>9

\* A child writes, or is ended by SIGPIPE.
LEMMA WritesKeep ==
  ASSUME WebServerInv, NEW c \in Connections, NEW text,
         NEW from \in {"check", "module", "end"},
         NEW to \in {"module", "waitpid", "end", "close", "zombie"},
         ChildWrites(c, from, to, text), UNCHANGED first,
         to = "waitpid" => request[c] = "diskfree",
         to \in {"module", "end"} => request[c] \in {"ok", "diskfree"},
         to \in {"close", "zombie"} => text # "200",
         TextFits(c, text)
  PROVE  WebServerInv'
<1>1. /\ from \in WebChildPcs \ {None, "zombie", "gone"}
      /\ to \in WebChildPcs \ {None, "gone", "read"} /\ to \notin {"headers", "check"}
      /\ "zombie" \in WebChildPcs \ {None, "gone", "read"}
  BY DEF WebChildPcs, None
<1>2. CASE hangup[c] = "reset" /\ ChildGoes(c, from, "zombie") /\ UNCHANGED response
  <2>1. ChildMoves(c, from, "zombie") /\ hangup' = hangup
    BY <1>2 DEF ChildGoes
  <2>2. response' = [response EXCEPT ![c] = response[c]] /\ TextFits(c, response[c])
    BY <1>2 DEF WebServerInv, WebTypeOK, AnswerFits, TextFits
  <2> QED BY <1>1, <1>2, <2>1, <2>2, ChildKeeps
<1>3. CASE /\ hangup[c] # "reset" /\ ChildMoves(c, from, to) /\ MayReset(c)
           /\ response' = [response EXCEPT ![c] = text]
  <2>1. hangup' = hangup \/ hangup' = [hangup EXCEPT ![c] = "reset"]
    BY <1>3 DEF MayReset
  <2> QED BY <1>1, <1>3, <2>1, ChildKeeps
<1> QED BY <1>2, <1>3 DEF ChildWrites

\* The steps of a child.
LEMMA WebChildStep ==
  ASSUME WebServerInv, NEW c \in Connections, ChildRuns(c) \/ DfEnds(c)
  PROVE  WebServerInv'
<1>0. /\ WebTypeOK /\ AnswerFits /\ AnswerAtPlace(c) /\ ForkedOnce
      /\ TextFits(c, response[c])
      /\ response' = response => response' = [response EXCEPT ![c] = response[c]]
  BY DEF WebServerInv, WebTypeOK, AnswerFits, TextFits
<1>1. CASE DfEnds(c) \/ ChildHandler(c)
  <2>1. /\ UNCHANGED <<serverVars, request, chldPending, child, response, first>>
        /\ hangup' = hangup \/ hangup' = [hangup EXCEPT ![c] = "reset"]
    BY <1>1 DEF DfEnds, ChildHandler, MayReset, clientVars, readVars
  <2>2. Zombies' = Zombies
    BY <2>1 DEF Zombies
  <2>3. /\ hangup' \in [Connections -> {None, "closed", "reset"}]
        /\ \A d \in Connections : hangup[d] = "reset" => hangup'[d] = "reset"
    BY <1>0, <2>1 DEF WebTypeOK
  <2>4. WebTypeOK' /\ ForkedOnce'
    BY <1>0, <2>1, <2>3 DEF WebTypeOK, ForkedOnce, serverVars
  <2>5. AnswerFits' /\ \A d \in Connections : AnswerAtPlace(d)'
    BY <2>1, <2>3 DEF WebServerInv, AnswerFits, AnswerAtPlace, HeldProtocol, serverVars
  <2>6. HandlerFindsZombie'
    BY <2>1, <2>2, SameZombies DEF WebServerInv, serverVars
  <2> QED BY <2>4, <2>5, <2>6 DEF WebServerInv
<1>2. CASE ReadRequest(c) \/ ReadHeaders(c)
  <2>1. /\ response' = response
        /\ first' = first \/ \E n : first' = [first EXCEPT ![c] = n]
    BY <1>2 DEF ReadRequest, ReadHeaders, readVars
  <2>2. PICK from \in {"read", "headers"}, to \in {"check", "headers", "zombie"} :
          ChildGoes(c, from, to)
    BY <1>2 DEF ReadRequest, ReadHeaders
  <2>3. ChildMoves(c, from, to) /\ hangup' = hangup
    BY <2>2 DEF ChildGoes
  <2>4. response[c] = None
    BY <1>0, <2>3 DEF ChildMoves, AnswerAtPlace
  <2>5. /\ from \in WebChildPcs \ {None, "zombie", "gone"}
        /\ to \in WebChildPcs \ {None, "gone", "read"}
        /\ to \notin {"waitpid", "module", "end", "close"} /\ None # "200"
    BY DEF WebChildPcs, None
  <2>6. response' = [response EXCEPT ![c] = None] /\ TextFits(c, None)
    BY <1>0, <2>1, <2>4
  <2> HIDE DEF None
  <2> QED BY <2>1, <2>3, <2>5, <2>6, ChildKeeps
<1>3. CASE Respond(c)
  <2>1. PICK text \in AnswersTo(c) :
          ChildWrites(c, "check", IF text = "200" THEN "module" ELSE "close", text)
    BY <1>3 DEF Respond
  <2>2. first' = first
    BY <1>3 DEF Respond, readVars
  <2>3. child[c] = "check"
    BY <2>1 DEF ChildWrites, ChildGoes, ChildMoves
  <2>4. request[c] \in RequestKinds
    BY <1>0, <2>3 DEF AnswerAtPlace, ForkedOnce, None
  <2>5. /\ request[c] = "protocol" => AnswerTo(request[c]) = "start of 400"
        /\ request[c] = "method" => AnswerTo(request[c]) = "501"
        /\ request[c] \in {"page", "file", "symbol"} => AnswerTo(request[c]) = "404"
        /\ request[c] \in {"ok", "diskfree"} => AnswerTo(request[c]) = "200"
        /\ AnswerTo("method") = "501"
    BY DEF AnswerTo, module_open
  <2>6. TextFits(c, text)
    <3>1. CASE HeldProtocol(c)
      BY <2>4, <2>5, <3>1 DEF AnswersTo, TextFits, RequestKinds
    <3>2. CASE ~HeldProtocol(c)
      BY <2>4, <2>5, <3>2 DEF AnswersTo, TextFits, RequestKinds
    <3> QED BY <3>1, <3>2
  <2>7. text = "200" => request[c] \in {"ok", "diskfree"}
    <3>1. text \in {"start of 400", "501", AnswerTo(request[c])}
      BY <2>5 DEF AnswersTo
    <3> QED BY <2>4, <2>5, <3>1 DEF RequestKinds
  <2>8. CASE text = "200"
    <3>1. ChildWrites(c, "check", "module", text)
      BY <2>1, <2>8
    <3> QED BY <2>2, <2>6, <2>7, <2>8, <3>1, WritesKeep
  <2>9. CASE text # "200"
    <3>1. ChildWrites(c, "check", "close", text)
      BY <2>1, <2>9
    <3> QED BY <2>2, <2>6, <2>9, <3>1, WritesKeep
  <2> QED BY <2>8, <2>9
<1>4. CASE StartPage(c)
  <2>1. ChildWrites(c, "module", "end", response[c]) /\ first' = first
    BY <1>4 DEF StartPage, readVars
  <2>2. request[c] \in {"ok", "diskfree"}
    BY <1>0, <2>1 DEF ChildWrites, ChildGoes, ChildMoves, AnswerAtPlace
  <2> QED BY <1>0, <2>1, <2>2, WritesKeep
<1>5. CASE ForkDf(c)
  <2>1. request[c] = "diskfree" /\ first' = first
    BY <1>5 DEF ForkDf, readVars
  <2>2. CASE ChildWrites(c, "module", "waitpid", response[c])
    BY <1>0, <2>1, <2>2, WritesKeep
  <2>3. CASE ChildWrites(c, "module", "zombie", "cut")
    <3>1. TextFits(c, "cut")
      BY <2>1 DEF TextFits
    <3> QED BY <2>1, <2>3, <3>1, WritesKeep
  <2> QED BY <1>5, <2>2, <2>3 DEF ForkDf
<1>6. CASE Waitpid(c)
  <2>1. /\ child[c] = "waitpid" /\ first' = first
        /\ \/ ChildGoes(c, "waitpid", "end") /\ response' = response
           \/ ChildGoes(c, "waitpid", "zombie") /\ response' = [response EXCEPT ![c] = "cut"]
    BY <1>6 DEF Waitpid, ChildGoes, ChildMoves, readVars
  <2>2. request[c] = "diskfree"
    BY <1>0, <2>1 DEF AnswerAtPlace
  <2>3. {"waitpid", "end", "zombie"} \subseteq WebChildPcs \ {None, "gone", "read"}
    BY DEF WebChildPcs, None
  <2>4. "waitpid" \in WebChildPcs \ {None, "zombie", "gone"}
    BY DEF WebChildPcs, None
  <2>5. CASE ChildGoes(c, "waitpid", "end") /\ response' = response
    <3>1. ChildMoves(c, "waitpid", "end") /\ hangup' = hangup
      BY <2>5 DEF ChildGoes
    <3> QED BY <1>0, <2>1, <2>2, <2>3, <2>4, <2>5, <3>1, ChildKeeps
  <2>6. CASE ChildGoes(c, "waitpid", "zombie") /\ response' = [response EXCEPT ![c] = "cut"]
    <3>1. ChildMoves(c, "waitpid", "zombie") /\ hangup' = hangup /\ TextFits(c, "cut")
      BY <2>2, <2>6 DEF ChildGoes, TextFits
    <3> QED BY <2>1, <2>2, <2>3, <2>4, <2>6, <3>1, ChildKeeps
  <2> QED BY <2>1, <2>5, <2>6
<1>7. CASE EndPage(c)
  <2>1. ChildWrites(c, "end", "close", "whole page") /\ first' = first
    BY <1>7 DEF EndPage, readVars
  <2>2. request[c] \in {"ok", "diskfree"}
    BY <1>0, <2>1 DEF ChildWrites, ChildGoes, ChildMoves, AnswerAtPlace
  <2>3. TextFits(c, "whole page")
    BY <2>2 DEF TextFits
  <2> QED BY <2>1, <2>3, WritesKeep
<1>8. CASE CloseAndExit(c)
  <2>1. /\ ChildMoves(c, "close", "zombie") /\ hangup' = hangup /\ response' = response
        /\ first' = first
    BY <1>8 DEF CloseAndExit, ChildGoes, readVars
  <2>2. response[c] # "200"
    BY <1>0, <2>1 DEF ChildMoves, AnswerAtPlace
  <2>3. /\ "close" \in WebChildPcs \ {None, "zombie", "gone"}
        /\ "zombie" \in WebChildPcs \ {None, "gone", "read"}
    BY DEF WebChildPcs, None
  <2> QED BY <1>0, <2>1, <2>2, <2>3, ChildKeeps
<1> QED BY <1>1, <1>2, <1>3, <1>4, <1>5, <1>6, <1>7, <1>8 DEF ChildRuns

\* Every step of the web server and its clients keeps the invariant.
LEMMA WebInductive == WebServerInv /\ [WebNext]_webVars => WebServerInv'
<1> SUFFICES ASSUME WebServerInv, [WebNext]_webVars
             PROVE  WebServerInv'
  OBVIOUS
<1>1. CASE WebNext
  BY <1>1, WebClientStep, WebServerStep, WebHandlerStep, WebChildStep DEF WebNext, ServerRuns
<1>2. CASE UNCHANGED webVars
  <2>1. Zombies' = Zombies
    BY <1>2 DEF webVars, Zombies
  <2> QED BY <1>2, <2>1, SameZombies
          DEF webVars, WebServerInv, WebTypeOK, ForkedOnce, AnswerAtPlace, AnswerFits,
              HeldProtocol
<1> QED BY <1>1, <1>2

-----------------------------------------------------------------------------
(* The socket servers.                                                     *)

\* server3 writes what it read from this client, unless the client has gone.
SocketInv ==
  /\ DOMAIN answer = Clients
  /\ socketPc = "write" =>
       server = "server3" /\ (ch = client_sockfd \/ client_sockfd \in hungUp)
  /\ AnswerIsOwn

\* A step that writes nothing and reads nothing keeps the invariant.
LEMMA NothingWritten ==
  ASSUME SocketInv, answer' = answer, hungUp \subseteq hungUp',
         \/ socketPc' # "write"
         \/ UNCHANGED <<socketPc, server, ch, client_sockfd>>
  PROVE  SocketInv'
BY DEF SocketInv, AnswerIsOwn

\* A step that writes a client's own character, or nothing, to it.
LEMMA OwnWritten ==
  ASSUME SocketInv, NEW c, NEW char, WriteTo(c, char), UNCHANGED hungUp,
         char \in {c, NoClient} \/ c \in hungUp, socketPc' # "write"
  PROVE  SocketInv'
BY DEF SocketInv, AnswerIsOwn, WriteTo

\* Every step of the clients and servers keeps the invariant.
LEMMA SocketInductive == SocketInv /\ [SocketsNext]_socketVars => SocketInv'
<1> SUFFICES ASSUME SocketInv, [SocketsNext]_socketVars
             PROVE  SocketInv'
  OBVIOUS
<1>1. CASE \E c \in Clients : ClientRuns(c) \/ KillClient(c)
  <2>1. UNCHANGED <<answer, socketPc, server, ch, client_sockfd>> /\ hungUp \subseteq hungUp'
    BY <1>1 DEF ClientRuns, KillClient, ConnectTo, WriteChar, ReadAnswer, sockServerVars
  <2> QED BY <2>1, NothingWritten
<1>2. CASE Server3
  <2>0. UNCHANGED <<server, hungUp>> /\ server = "server3"
    BY <1>2 DEF Server3
  <2>1. CASE socketPc = "wait"
    BY <1>2, <2>0, <2>1, NothingWritten DEF Server3, Accept
  <2>2. CASE socketPc = "read"
    BY <1>2, <2>0, <2>2 DEF Server3, Accept, SockReadable, ReadFrom, SocketInv, AnswerIsOwn
  <2>3. CASE socketPc = "write"
    <3>1. WriteTo(client_sockfd, ch) /\ socketPc' = "wait"
      BY <1>2, <2>3 DEF Server3
    <3>2. ch = client_sockfd \/ client_sockfd \in hungUp
      BY <2>3 DEF SocketInv
    <3> QED BY <2>0, <3>1, <3>2, OwnWritten
  <2> QED BY <1>2, <2>1, <2>2, <2>3 DEF Server3
<1>3. CASE Server4
  BY <1>3, NothingWritten DEF Server4, Accept, sockClientVars
<1>4. CASE \E c \in Clients : Child4(c)
  <2>1. PICK c \in Clients : Child4(c)
    BY <1>4
  <2>2. UNCHANGED <<server, hungUp, socketPc, client_sockfd, ch>>
    BY <2>1 DEF Child4
  <2>3. CASE answer' = answer
    BY <2>2, <2>3, NothingWritten
  <2>4. CASE WriteTo(c, IF children[c] = "write" THEN c ELSE NoClient)
    BY <2>2, <2>4 DEF SocketInv, AnswerIsOwn, WriteTo
  <2> QED BY <2>1, <2>3, <2>4 DEF Child4
<1>5. CASE Select \/ AcceptFd \/ RemoveFd
  <2>1. /\ answer' = answer /\ hungUp' = hungUp
        /\ socketPc' # "write" \/ UNCHANGED <<socketPc, server, ch, client_sockfd>>
    BY <1>5 DEF Select, AcceptFd, RemoveFd, Accept, sockClientVars
  <2> QED BY <2>1, NothingWritten
<1>6. CASE ServeFd
  <2>1. WriteTo(fds[ThisFd], fds[ThisFd]) /\ UNCHANGED <<hungUp, socketPc>>
    BY <1>6 DEF ServeFd, WriteTo
  <2>2. server = "server5"
    BY <1>6 DEF ServeFd
  <2>3. socketPc # "write"
    BY <2>2 DEF SocketInv
  <2> QED BY <2>1, <2>3, OwnWritten
<1>7. CASE UNCHANGED socketVars
  BY <1>7, NothingWritten DEF socketVars, sockClientVars, sockServerVars
<1> QED
  BY <1>1, <1>2, <1>3, <1>4, <1>5, <1>6, <1>7 DEF SocketsNext, SocketServerRuns

\* The handler of SIGCHLD never waits for a child that has not ended (server.c
\* 73-77); a request whose first read held its protocol is given the answer of its
\* first fault (145, 162-178), and a page that was begun is ended unless its connection
\* was reset or there is no df to wait for; a client of server3, server4 and server5 is
\* given its own character; for any clients, connections and cuts of requests.
THEOREM ServersAnswerTheirClients == ServersSpec => []ServersInv
<1>1. SocketsInit => SocketInv
  BY DEF SocketsInit, SocketInv, AnswerIsOwn
<1>2. WebServerInv /\ SocketInv => ServersInv
  BY DEF WebServerInv, SocketInv, ServersInv
<1> QED BY <1>1, <1>2, WebStart, WebInductive, SocketInductive, PTL DEF ServersSpec

-----------------------------------------------------------------------------
(* The page of processes (processes.c).                                    *)

PageBuffers == [of : Pids \cup StaticTexts, kilobytes : Int]

RowPlaces == {"uid", "rss", "program", "names", "format", "store"}

PagesTypeOK ==
  /\ module \in {"processes", "issue", "time"}
  /\ pagePc \in RowPlaces \cup {"read", "free", "done", "aborted"}
  /\ alive \subseteq Pids /\ rssPages \in [Pids -> Nat]
  /\ entry \in 0 .. Len(Listing)
  /\ vec \in Seq(PageBuffers) /\ vec_size \in Nat
  /\ row \in PageBuffers /\ freed \in Nat
  /\ pagePc \in RowPlaces \cup {"free"} => module = "processes"

\* The entries of the listing whose rows are in vec.
EntriesDone == IF pagePc \in RowPlaces THEN entry - 1 ELSE entry

RowsInPlace ==
  module = "processes" /\ pagePc \notin {"done", "aborted"} =>
    /\ pagePc \in RowPlaces =>
         /\ entry > 0 /\ Listing[entry] \in Pids
         /\ row.of = Listing[entry] \/ (pagePc = "store" /\ row.of = Placeholder.of)
    /\ pagePc = "free" => entry = Len(Listing)
    /\ Len(vec) = Rows(EntriesDone) + (IF pagePc = "free" THEN 2 ELSE 1)
    /\ \A i \in 1 .. EntriesDone : Listing[i] \in Pids =>
         vec[Rows(i) + 1].of \in {Listing[i], Placeholder.of}

RoomInVec ==
  Len(vec) + (IF pagePc \in {"free", "done", "aborted"} THEN 0 ELSE 1) <= vec_size

\* The rows of vec are of different processes of the entries that were read; its first
\* and its last element are no rows.
RowsDiffer ==
  module = "processes" /\ pagePc \notin {"done", "aborted"} =>
    /\ Len(vec) >= 1 /\ vec[1].of \notin Pids
    /\ pagePc = "free" => Len(vec) >= 2 /\ vec[Len(vec)].of \notin Pids /\ freed >= 1
    /\ \A k \in 1 .. Len(vec) : vec[k].of \in Pids =>
         \E i \in 1 .. EntriesDone : Listing[i] = vec[k].of
    /\ \A j, k \in 1 .. Len(vec) : vec[j].of = vec[k].of /\ vec[j].of \in Pids => j = k

\* What is allocated: the array, the rows that were not freed, and what the
\* function that works on a row has not given back yet.
OwnAt(pc) ==
  IF pc = "names" THEN {"program_name"}
  ELSE IF pc = "format" THEN {"program_name", "user_name", "group_name"}
  ELSE IF pc = "store" THEN {row.of} \cap Pids ELSE {}

HeapInUse ==
  module = "processes" =>
    /\ pagePc = "done" => pageHeap = {}
    /\ pagePc \in RowPlaces \cup {"read"} =>
         pageHeap = {"vec"} \cup RowBuffers(1 .. Len(vec)) \cup OwnAt(pagePc)
    /\ pagePc = "free" => pageHeap = {"vec"} \cup RowBuffers(freed + 1 .. Len(vec))

ShowsSize(b) ==
  b.of \in Pids =>
    LET bytes == rssPages[b.of] * PageSize IN
    bytes < IntSize \div 2 => b.kilobytes = bytes \div 1024

SizesShown ==
  /\ \A k \in 1 .. Len(vec) : ShowsSize(vec[k])
  /\ pagePc \in {"program", "names", "format", "store"} => ShowsSize(row)

PagesIInv ==
  PagesTypeOK /\ RowsInPlace /\ RowsDiffer /\ RoomInVec /\ HeapInUse /\ SizesShown

\* The constants of the page; no pid is the name of another buffer.
LEMMA PagesConstants ==
  /\ PageSize \in Nat \ {0} /\ IntSize \in Nat \ {0} /\ FirstSize \in Nat /\ FirstSize >= 2
  /\ Listing \in Seq(STRING) /\ Len(Listing) \in Nat
  /\ [Pids -> PageCounts] \subseteq [Pids -> Nat]
  /\ \A text \in StaticTexts : text \notin Pids
  /\ {"none", "ERROR", "start", "end"} \subseteq StaticTexts
  /\ \A own \in OwnBuffers : own \notin Pids
  /\ \A i, j \in 1 .. Len(Listing) : Listing[i] = Listing[j] /\ Listing[i] \in Pids => i = j
<1>1. /\ {PageSize, IntSize} \subseteq Nat \ {0} /\ FirstSize \in Nat /\ FirstSize >= 2
      /\ Listing \in Seq(STRING) /\ PageCounts \subseteq Nat
      /\ Pids \cap (StaticTexts \cup OwnBuffers) = {}
  BY PagesAssumption
<1>2. PageSize \in Nat \ {0} /\ IntSize \in Nat \ {0} /\ Len(Listing) \in Nat
  BY <1>1
<1>3. [Pids -> PageCounts] \subseteq [Pids -> Nat]
  BY <1>1
<1>4. \A text \in StaticTexts : text \notin Pids
  BY <1>1, Zenon
<1>5. {"none", "ERROR", "start", "end"} \subseteq StaticTexts
  BY Zenon DEF StaticTexts
<1>6. \A own \in OwnBuffers : own \notin Pids
  BY <1>1, Zenon
<1>7. \A i, j \in 1 .. Len(Listing) : Listing[i] = Listing[j] /\ Listing[i] \in Pids => i = j
  BY <1>1, PagesAssumption
<1> QED BY <1>1, <1>2, <1>3, <1>4, <1>5, <1>6, <1>7

\* What is allocated for the page has no name of a process.
LEMMA OwnNotPids ==
  /\ "vec" \notin Pids /\ "program_name" \notin Pids
  /\ "user_name" \notin Pids /\ "group_name" \notin Pids
BY PagesConstants DEF OwnBuffers

\* The buffers that are no row are buffers, and are no process.
LEMMA TextBuffers ==
  /\ NoRow \in PageBuffers /\ Placeholder \in PageBuffers
  /\ Static("start") \in PageBuffers /\ Static("end") \in PageBuffers
  /\ NoRow.of \notin Pids /\ Placeholder.of \notin Pids
  /\ Static("start").of \notin Pids /\ Static("end").of \notin Pids
<1>1. \A text \in StaticTexts : /\ Static(text) \in PageBuffers
                                /\ Static(text).of \notin Pids
  BY PagesConstants DEF Static, PageBuffers
<1> QED BY <1>1, PagesConstants DEF NoRow, Placeholder

\* The process of the next entry has one more row than those before it.
LEMMA RowsStep ==
  ASSUME NEW n \in Nat
  PROVE  /\ Rows(0) = 0 /\ Rows(n) \in Nat
         /\ Rows(n + 1) = IF Listing[n + 1] \in Pids THEN Rows(n) + 1 ELSE Rows(n)
<1> DEFINE P(m) == {i \in 1 .. m : Listing[i] \in Pids}
<1>1. ASSUME NEW m \in Nat PROVE IsFiniteSet(P(m))
  <2>1. 1 \in Int /\ m \in Int /\ P(m) \in SUBSET (1 .. m)
    OBVIOUS
  <2>2. IsFiniteSet(1 .. m)
    BY <2>1, FS_Interval, Zenon
  <2> QED BY <2>1, <2>2, FS_Subset, Zenon
<1>2. \A m \in Nat : Rows(m) = Cardinality(P(m))
  BY DEF Rows
<1>3. P(0) = {} /\ n + 1 \notin P(n) /\ 0 \in Nat /\ n + 1 \in Nat
  OBVIOUS
<1>4. P(n + 1) = IF Listing[n + 1] \in Pids THEN P(n) \cup {n + 1} ELSE P(n)
  <2>1. 1 .. n + 1 = 1 .. n \cup {n + 1}
    OBVIOUS
  <2> QED BY <2>1
<1> HIDE DEF P
<1>5. Cardinality(P(n)) \in Nat /\ Cardinality(P(n) \cup {n + 1}) = Cardinality(P(n)) + 1
  BY <1>1, <1>3, FS_CardinalityType, FS_AddElement
<1>6. Rows(0) = 0
  BY <1>2, <1>3, FS_EmptySet
<1>7. CASE Listing[n + 1] \in Pids
  BY <1>2, <1>3, <1>4, <1>5, <1>6, <1>7
<1>8. CASE Listing[n + 1] \notin Pids
  BY <1>2, <1>3, <1>4, <1>5, <1>6, <1>8
<1> QED BY <1>7, <1>8

\* Earlier entries have earlier rows.
LEMMA RowsGrow ==
  ASSUME NEW n \in Nat, NEW m \in 0 .. n
  PROVE  Rows(m) \in Nat /\ Rows(m) <= Rows(n)
<1> DEFINE P(k) == {i \in 1 .. k : Listing[i] \in Pids}
<1>1. 1 \in Int /\ n \in Int /\ P(n) \in SUBSET (1 .. n) /\ P(m) \in SUBSET P(n)
  OBVIOUS
<1>2. IsFiniteSet(P(n))
  <2>1. IsFiniteSet(1 .. n)
    BY <1>1, FS_Interval, Zenon
  <2> QED BY <1>1, <2>1, FS_Subset, Zenon
<1>4. Cardinality(P(m)) <= Cardinality(P(n))
  BY <1>1, <1>2, FS_Subset, Zenon
<1>3. Rows(m) = Cardinality(P(m)) /\ Rows(n) = Cardinality(P(n))
  BY DEF Rows, P
<1> QED BY <1>3, <1>4, RowsStep

\* The remainder of a number below the divisor is the number.
LEMMA BelowDivisor ==
  ASSUME NEW n \in Nat \ {0}, NEW a \in Nat, a < n
  PROVE  a % n = a
OBVIOUS

\* A size that is an int is shown in kilobytes.
LEMMA KilobytesRight ==
  ASSUME NEW pages \in Nat
  PROVE  /\ KilobytesOf(pages) \in Int
         /\ pages * PageSize < IntSize \div 2 =>
              KilobytesOf(pages) = (pages * PageSize) \div 1024
<1> DEFINE bytes == pages * PageSize
           half  == IntSize \div 2
<1>1. bytes \in Nat /\ half \in Nat /\ half + half <= IntSize /\ IntSize \in Nat \ {0}
  BY PagesConstants
<1> HIDE DEF bytes, half
<1>2. bytes + half \in Nat /\ (bytes + half) % IntSize \in Int
  BY <1>1
<1>3. Wrap(bytes) = ((bytes + half) % IntSize) - half
  BY DEF Wrap, half
<1>4. Wrap(bytes) \in Int
  BY <1>1, <1>2, <1>3
<1>5. KilobytesOf(pages) = IF Wrap(bytes) >= 0 THEN Wrap(bytes) \div 1024
                                               ELSE -((-Wrap(bytes)) \div 1024)
  BY DEF KilobytesOf, bytes
<1>6. KilobytesOf(pages) \in Int
  BY <1>4, <1>5
<1>7. ASSUME bytes < half PROVE KilobytesOf(pages) = bytes \div 1024
  <2>1. (bytes + half) % IntSize = bytes + half
    BY <1>1, <1>2, <1>7, BelowDivisor
  <2>2. Wrap(bytes) = bytes
    BY <1>1, <1>3, <2>1
  <2> QED BY <1>1, <1>5, <2>2
<1> QED BY <1>6, <1>7 DEF bytes, half

\* The page has its beginning at first.
LEMMA PagesStart == PagesInit => PagesIInv
<1> SUFFICES ASSUME PagesInit PROVE PagesIInv
  OBVIOUS
<1> USE TextBuffers, PagesConstants
<1>1. vec \in Seq(PageBuffers) /\ Len(vec) = 1 /\ vec[1].of \notin Pids
  BY DEF PagesInit
<1>2. PagesTypeOK
  <2>1. rssPages \in [Pids -> Nat] /\ row \in PageBuffers
    BY DEF PagesInit
  <2> QED BY <1>1, <2>1 DEF PagesInit, PagesTypeOK, RowPlaces
<1>3. RowsInPlace
  BY <1>1, RowsStep DEF PagesInit, RowsInPlace, RowPlaces, EntriesDone
<1>4. RoomInVec
  BY <1>1 DEF PagesInit, RoomInVec
<1>5. SizesShown
  BY <1>1 DEF PagesInit, SizesShown, ShowsSize
<1>6. RowsDiffer
  BY <1>1 DEF PagesInit, RowsDiffer
<1>7. HeapInUse
  <2>1. RowBuffers(1 .. Len(vec)) = {}
    BY <1>1 DEF RowBuffers
  <2> QED BY <2>1 DEF PagesInit, HeapInUse, RowPlaces, OwnAt
<1> QED BY <1>2, <1>3, <1>4, <1>5, <1>6, <1>7 DEF PagesIInv

\* Processes that end, and what is written, change nothing here.
LEMMA PageStays ==
  ASSUME PagesIInv, alive' \subseteq Pids,
         UNCHANGED <<module, pagePc, rssPages, entry, vec, vec_size, pageHeap, row, freed>>
  PROVE  PagesIInv'
<1>1. PagesTypeOK'
  BY DEF PagesIInv, PagesTypeOK
<1>2. RowsInPlace' /\ RoomInVec'
  BY DEF PagesIInv, RowsInPlace, RoomInVec, EntriesDone, Rows
<1>3. HeapInUse' /\ SizesShown'
  BY DEF PagesIInv, HeapInUse, OwnAt, RowBuffers, SizesShown, ShowsSize
<1>4. RowsDiffer'
  BY DEF PagesIInv, RowsDiffer, EntriesDone
<1> QED BY <1>1, <1>2, <1>3, <1>4 DEF PagesIInv

\* A page that is finished, or was given up.
LEMMA PageEnds ==
  ASSUME PagesIInv, pagePc' \in {"done", "aborted"}, freed' \in Nat,
         pagePc' = "done" /\ module = "processes" => pageHeap' = {},
         UNCHANGED <<module, alive, rssPages, entry, vec, vec_size, row>>
  PROVE  PagesIInv'
<1>1. PagesTypeOK'
  BY DEF PagesIInv, PagesTypeOK, RowPlaces
<1>2. RowsInPlace' /\ RowsDiffer'
  BY DEF RowsInPlace, RowsDiffer
<1>3. RoomInVec'
  <2>1. Len(vec) \in Nat /\ vec_size \in Nat
    BY DEF PagesIInv, PagesTypeOK
  <2> QED BY <2>1 DEF PagesIInv, RoomInVec
<1>4. HeapInUse'
  BY DEF HeapInUse, RowPlaces
<1>5. SizesShown'
  BY DEF PagesIInv, SizesShown, ShowsSize
<1> QED BY <1>1, <1>2, <1>3, <1>4, <1>5 DEF PagesIInv

\* A step of format_process_info: the row stays that of its entry, or becomes
\* the placeholder.
LEMMA RowMoves ==
  ASSUME PagesIInv, pagePc \in RowPlaces \ {"store"}, pagePc' \in RowPlaces \ {"uid"},
         row' \in PageBuffers,
         row'.of = row.of \/ (pagePc' = "store" /\ row'.of = Placeholder.of),
         HeapInUse', pagePc' # "rss" => ShowsSize(row'),
         UNCHANGED <<module, alive, rssPages, entry, vec, vec_size, freed>>
  PROVE  PagesIInv'
<1>1. PagesTypeOK'
  BY DEF PagesIInv, PagesTypeOK
<1>2. RowsInPlace'
  <2>1. module = "processes" /\ row.of = Listing[entry] /\ EntriesDone' = EntriesDone
    BY DEF PagesIInv, PagesTypeOK, RowsInPlace, RowPlaces, EntriesDone
  <2> QED BY <2>1 DEF PagesIInv, RowsInPlace, RowPlaces, Rows
<1>3. RoomInVec'
  BY DEF PagesIInv, RoomInVec, RowPlaces
<1>4. SizesShown'
  BY DEF PagesIInv, SizesShown, ShowsSize
<1>5. RowsDiffer'
  <2>1. /\ EntriesDone' = EntriesDone /\ pagePc' # "free" /\ module = "processes"
        /\ pagePc \notin {"done", "aborted"}
    BY DEF PagesIInv, PagesTypeOK, RowPlaces, EntriesDone
  <2> QED BY <2>1 DEF PagesIInv, RowsDiffer
<1> QED BY <1>1, <1>2, <1>3, <1>4, <1>5 DEF PagesIInv

\* The next entry of the listing.
LEMMA NextEntryKeeps ==
  ASSUME PagesIInv, NextEntry
  PROVE  PagesIInv'
<1> DEFINE name == Listing[entry + 1]
<1> USE TextBuffers, PagesConstants
<1>1. /\ module = "processes" /\ pagePc = "read" /\ entry \in Nat /\ entry + 1 <= Len(Listing)
      /\ row \in PageBuffers
  BY DEF NextEntry, PageAt, PagesIInv, PagesTypeOK
<1>2. /\ UNCHANGED <<module, alive, rssPages, vec, vec_size, freed, pageHeap>>
      /\ entry' = entry + 1
      /\ \/ name \in Pids /\ pagePc' = "uid" /\ row' = [NoRow EXCEPT !.of = name]
         \/ name \notin Pids /\ pagePc' = "read" /\ row' = row
  BY DEF NextEntry, UnchangedSetting, UnchangedVec, PageTo
<1>3. name \in Pids => row' \in PageBuffers /\ row'.of = name
  BY <1>2 DEF PageBuffers, NoRow, Static
<1> HIDE DEF name
<1>4. PagesTypeOK'
  BY <1>1, <1>2, <1>3 DEF PagesIInv, PagesTypeOK, RowPlaces
<1>5. /\ Len(vec) = Rows(entry) + 1
      /\ \A i \in 1 .. entry : Listing[i] \in Pids =>
           vec[Rows(i) + 1].of \in {Listing[i], Placeholder.of}
  BY <1>1 DEF PagesIInv, RowsInPlace, RowPlaces, EntriesDone
<1>6. Rows(entry) \in Nat /\ (name \notin Pids => Rows(entry + 1) = Rows(entry))
  BY <1>1, RowsStep DEF name
<1>7. RowsInPlace'
  <2>1. CASE name \in Pids
    <3>1. EntriesDone' = entry /\ entry' > 0 /\ Listing[entry'] = name
      BY <1>1, <1>2, <2>1 DEF EntriesDone, RowPlaces, name
    <3> QED BY <1>1, <1>2, <1>3, <1>5, <2>1, <3>1 DEF RowsInPlace, RowPlaces, Rows
  <2>2. CASE name \notin Pids
    <3>1. EntriesDone' = entry + 1
      BY <1>2, <2>2 DEF EntriesDone, RowPlaces
    <3>2. \A i \in 1 .. entry + 1 : Listing[i] \in Pids => i \in 1 .. entry
      BY <1>1, <2>2 DEF name
    <3> QED BY <1>1, <1>2, <1>5, <1>6, <2>2, <3>1, <3>2 DEF RowsInPlace, RowPlaces, Rows
  <2> QED BY <2>1, <2>2
<1>8. RoomInVec'
  BY <1>1, <1>2 DEF PagesIInv, RoomInVec
<1>9. HeapInUse'
  BY <1>1, <1>2 DEF PagesIInv, HeapInUse, RowPlaces, OwnAt, RowBuffers
<1>10. SizesShown'
  BY <1>1, <1>2 DEF PagesIInv, SizesShown, ShowsSize
<1>11. RowsDiffer'
  <2>1. EntriesDone = entry /\ (EntriesDone' = entry \/ EntriesDone' = entry + 1)
    BY <1>1, <1>2 DEF EntriesDone, RowPlaces
  <2>2. 1 .. EntriesDone \subseteq 1 .. EntriesDone'
    BY <1>1, <2>1
  <2>3. pagePc' \in {"uid", "read"}
    BY <1>2
  <2> HIDE DEF EntriesDone
  <2> QED BY <1>1, <1>2, <2>2, <2>3 DEF PagesIInv, RowsDiffer
<1> QED BY <1>4, <1>7, <1>8, <1>9, <1>10, <1>11 DEF PagesIInv

\* The steps of format_process_info that find their process, or not.
LEMMA LooksKeep ==
  ASSUME PagesIInv, get_uid_gid \/ get_rss \/ get_program_name
  PROVE  PagesIInv'
<1> USE TextBuffers, PagesConstants
<1>1. PICK pc \in {"uid", "rss", "program"}, next \in {"rss", "program", "names"} :
        /\ PageAt("processes", pc) /\ UnchangedSetting /\ UnchangedVec
        /\ UNCHANGED <<alive, entry>> /\ next # pc /\ (next = "rss" => pc = "uid")
        /\ IF row.of \in alive THEN pagePc' = next ELSE pagePc' = "store"
        /\ pageHeap' = pageHeap \cup (IF pagePc' = "names" THEN {"program_name"} ELSE {})
        /\ IF row.of \in alive
           THEN IF pc = "rss" THEN row' = [row EXCEPT !.kilobytes = KilobytesOf(rssPages[row.of])]
                              ELSE row' = row /\ (pc = "program" <=> next = "names")
                                   /\ (pc = "uid" <=> next = "rss")
           ELSE row' = Placeholder
  <2>1. CASE get_uid_gid
    BY <2>1 DEF get_uid_gid, LookAt, PageTo
  <2>2. CASE get_rss
    BY <2>2 DEF get_rss, LookAt, PageTo
  <2>3. CASE get_program_name
    BY <2>3 DEF get_program_name, LookAt, PageTo, Allocate
  <2> QED BY <2>1, <2>2, <2>3
<1>2. /\ module = "processes" /\ pagePc = pc /\ row \in PageBuffers /\ row.of = Listing[entry]
      /\ row.of \in Pids /\ rssPages[row.of] \in Nat
  BY <1>1 DEF PageAt, PagesIInv, PagesTypeOK, RowsInPlace, RowPlaces
<1>3. UNCHANGED <<module, alive, rssPages, entry, vec, vec_size, freed>>
  BY <1>1 DEF UnchangedSetting, UnchangedVec
<1>4. /\ row' \in PageBuffers
      /\ row'.of = row.of \/ (pagePc' = "store" /\ row'.of = Placeholder.of)
      /\ pagePc' \in {"rss", "program", "names", "store"}
  <2>1. KilobytesOf(rssPages[row.of]) \in Int
    BY <1>2, KilobytesRight
  <2> QED BY <1>1, <1>2, <2>1 DEF PageBuffers
<1>5. HeapInUse'
  <2>1. pageHeap = {"vec"} \cup RowBuffers(1 .. Len(vec))
    BY <1>1, <1>2 DEF PagesIInv, HeapInUse, RowPlaces, OwnAt
  <2>2. pagePc' = "store" => row' = Placeholder
    BY <1>1, <1>2
  <2>3. OwnAt(pagePc)' = (IF pagePc' = "names" THEN {"program_name"} ELSE {})
    BY <1>4, <2>2 DEF OwnAt
  <2>4. RowBuffers(1 .. Len(vec))' = RowBuffers(1 .. Len(vec))
    BY <1>3 DEF RowBuffers
  <2>5. pageHeap' = {"vec"} \cup RowBuffers(1 .. Len(vec))' \cup OwnAt(pagePc)'
    BY <1>1, <2>1, <2>3, <2>4
  <2> QED BY <1>4, <2>5 DEF HeapInUse
<1>6. pagePc' # "rss" => ShowsSize(row')
  <2>1. CASE row.of \notin alive
    BY <1>1, <2>1 DEF ShowsSize
  <2>2. CASE row.of \in alive /\ pc = "rss"
    <3>1. /\ row'.of = row.of /\ row'.kilobytes = KilobytesOf(rssPages[row.of])
      BY <1>1, <1>2, <2>2 DEF PageBuffers
    <3> QED BY <1>2, <3>1, KilobytesRight DEF ShowsSize
  <2>3. CASE row.of \in alive /\ pc = "program"
    BY <1>1, <1>2, <2>3 DEF PagesIInv, SizesShown
  <2>4. CASE row.of \in alive /\ pc = "uid"
    BY <1>1, <2>4
  <2> QED BY <2>1, <2>2, <2>3, <2>4
<1> QED BY <1>1, <1>2, <1>3, <1>4, <1>5, <1>6, RowMoves DEF RowPlaces

\* The row is formatted; what it was made from is freed.
LEMMA FormatKeeps ==
  ASSUME PagesIInv, FormatRow \/ (ShowNames /\ pagePc' = "format")
  PROVE  PagesIInv'
<1>1. /\ module = "processes" /\ pagePc \in {"names", "format"} /\ row \in PageBuffers
      /\ UNCHANGED <<module, rssPages, vec, vec_size, freed, alive, entry, row>>
      /\ pagePc' \in {"format", "store"}
  BY DEF FormatRow, ShowNames, PageAt, PageTo, UnchangedSetting, UnchangedVec, PagesIInv,
         PagesTypeOK
<1>2. HeapInUse'
  <2> DEFINE rows == RowBuffers(1 .. Len(vec))
  <2>3. rows' = rows
    BY <1>1 DEF RowBuffers
  <2>4. \A b \in rows : b \notin {"program_name", "user_name", "group_name"}
    BY OwnNotPids DEF RowBuffers
  <2> HIDE DEF rows
  <2>1. CASE FormatRow
    <3>1. /\ pagePc = "format" /\ pagePc' = "store"
          /\ pageHeap' = (pageHeap \ {"program_name", "user_name", "group_name"}) \cup {row.of}
      BY <2>1 DEF FormatRow, PageAt, PageTo
    <3>2. pageHeap = {"vec"} \cup rows \cup {"program_name", "user_name", "group_name"}
      BY <1>1, <3>1 DEF PagesIInv, HeapInUse, RowPlaces, OwnAt, rows
    <3>3. row.of \in Pids
      BY <1>1, <3>1 DEF PagesIInv, RowsInPlace, RowPlaces
    <3>4. OwnAt(pagePc)' = {row.of}
      BY <1>1, <3>1, <3>3 DEF OwnAt
    <3>5. pageHeap' = {"vec"} \cup rows \cup {row.of}
      BY <2>4, <3>1, <3>2
    <3> QED BY <1>1, <2>3, <3>1, <3>4, <3>5 DEF HeapInUse, rows
  <2>2. CASE ShowNames /\ pagePc' = "format"
    <3>1. pagePc = "names" /\ pageHeap' = pageHeap \cup {"user_name", "group_name"}
      BY <2>2 DEF ShowNames, PageAt, PageTo, Allocate
    <3>2. pageHeap = {"vec"} \cup rows \cup {"program_name"}
      BY <1>1, <3>1 DEF PagesIInv, HeapInUse, RowPlaces, OwnAt, rows
    <3>3. OwnAt(pagePc)' = {"program_name", "user_name", "group_name"}
      BY <2>2 DEF OwnAt
    <3> QED BY <1>1, <2>2, <2>3, <3>1, <3>2, <3>3 DEF HeapInUse, rows
  <2> QED BY <2>1, <2>2
<1>3. ShowsSize(row')
  BY <1>1 DEF PagesIInv, SizesShown
<1> QED BY <1>1, <1>2, <1>3, RowMoves DEF RowPlaces

\* The row of the entry is put behind the others; the array grows before it is full.
LEMMA StoreKeeps ==
  ASSUME PagesIInv, StoreRow
  PROVE  PagesIInv'
<1> USE TextBuffers, PagesConstants
<1>1. /\ module = "processes" /\ pagePc = "store" /\ row \in PageBuffers
      /\ vec \in Seq(PageBuffers) /\ vec_size \in Nat /\ Len(vec) + 1 <= vec_size
      /\ entry \in Nat /\ entry <= Len(Listing) /\ entry > 0 /\ Listing[entry] \in Pids
      /\ row.of \in {Listing[entry], Placeholder.of} /\ ShowsSize(row)
  BY DEF StoreRow, PageAt, PagesIInv, PagesTypeOK, RowsInPlace, RoomInVec, SizesShown, RowPlaces
<1>2. /\ pagePc' = "read" /\ row' = NoRow /\ vec' = Append(vec, row)
      /\ vec_size' = IF Len(vec) = vec_size - 1 THEN 2 * vec_size ELSE vec_size
      /\ UNCHANGED <<module, rssPages, alive, entry, pageHeap, freed>>
  BY DEF StoreRow, PageTo, UnchangedSetting
<1>3. /\ vec' \in Seq(PageBuffers) /\ Len(vec') = Len(vec) + 1
      /\ \A k \in 1 .. Len(vec) : vec'[k] = vec[k]
      /\ vec'[Len(vec) + 1] = row /\ Len(vec) \in Nat
  BY <1>1, <1>2, AppendProperties
<1>4. PagesTypeOK'
  BY <1>1, <1>2, <1>3 DEF PagesIInv, PagesTypeOK, RowPlaces
<1>5. RowsInPlace'
  <2>1. /\ Len(vec) = Rows(entry - 1) + 1
        /\ \A i \in 1 .. entry - 1 : Listing[i] \in Pids =>
             vec[Rows(i) + 1].of \in {Listing[i], Placeholder.of}
    BY <1>1 DEF PagesIInv, RowsInPlace, RowPlaces, EntriesDone
  <2>2. Rows(entry) = Rows(entry - 1) + 1 /\ Rows(entry - 1) \in Nat
    <3>1. entry - 1 \in Nat /\ (entry - 1) + 1 = entry
      BY <1>1
    <3> QED BY <1>1, <3>1, RowsStep
  <2>3. ASSUME NEW i \in 1 .. entry, Listing[i] \in Pids
        PROVE  vec'[Rows(i) + 1].of \in {Listing[i], Placeholder.of}
    <3>1. CASE i = entry
      BY <1>1, <1>3, <2>1, <2>2, <3>1
    <3>2. CASE i # entry
      <4>1. i \in 1 .. entry - 1 /\ entry - 1 \in Nat /\ i \in 0 .. entry - 1
        BY <1>1, <3>2
      <4>2. Rows(i) \in Nat /\ Rows(i) <= Rows(entry - 1)
        BY <4>1, RowsGrow
      <4>3. vec'[Rows(i) + 1] = vec[Rows(i) + 1]
        BY <1>3, <2>1, <2>2, <4>2
      <4> QED BY <2>1, <2>3, <4>1, <4>3
    <3> QED BY <3>1, <3>2
  <2>4. EntriesDone' = entry
    BY <1>2 DEF EntriesDone, RowPlaces
  <2> QED BY <1>2, <1>3, <2>1, <2>2, <2>3, <2>4 DEF RowsInPlace, RowPlaces, Rows
<1>6. RoomInVec'
  BY <1>1, <1>2, <1>3 DEF RoomInVec
<1>7. HeapInUse'
  <2>1. pageHeap = {"vec"} \cup RowBuffers(1 .. Len(vec)) \cup ({row.of} \cap Pids)
    BY <1>1 DEF PagesIInv, HeapInUse, RowPlaces, OwnAt
  <2>2. 1 .. Len(vec') = 1 .. Len(vec) \cup {Len(vec) + 1}
    BY <1>3
  <2>3. RowBuffers(1 .. Len(vec))' = RowBuffers(1 .. Len(vec)) \cup ({row.of} \cap Pids)
    <3>1. \A b : b \in RowBuffers(1 .. Len(vec))'
                   <=> b \in Pids /\ \E k \in 1 .. Len(vec') : b = vec'[k].of
      BY DEF RowBuffers
    <3>2. \A b : (\E k \in 1 .. Len(vec') : b = vec'[k].of)
                   <=> (\E k \in 1 .. Len(vec) : b = vec[k].of) \/ b = row.of
      BY <1>3, <2>2
    <3>3. \A b : b \in RowBuffers(1 .. Len(vec))
                   <=> b \in Pids /\ \E k \in 1 .. Len(vec) : b = vec[k].of
      BY DEF RowBuffers
    <3> QED BY <3>1, <3>2, <3>3
  <2> QED BY <1>2, <2>1, <2>3 DEF HeapInUse, RowPlaces, OwnAt
<1>8. SizesShown'
  <2>1. ASSUME NEW k \in 1 .. Len(vec') PROVE ShowsSize(vec'[k])
    <3>1. CASE k <= Len(vec)
      BY <1>3, <3>1 DEF PagesIInv, SizesShown
    <3>2. CASE k = Len(vec) + 1
      BY <1>1, <1>3, <3>2
    <3> QED BY <1>3, <3>1, <3>2
  <2> QED BY <1>2, <2>1 DEF SizesShown, ShowsSize
<1>9. RowsDiffer'
  <2>1. /\ Len(vec) >= 1 /\ vec[1].of \notin Pids
        /\ \A k \in 1 .. Len(vec) : vec[k].of \in Pids =>
             \E i \in 1 .. entry - 1 : Listing[i] = vec[k].of
        /\ \A j, k \in 1 .. Len(vec) : vec[j].of = vec[k].of /\ vec[j].of \in Pids => j = k
    BY <1>1 DEF PagesIInv, RowsDiffer, EntriesDone, RowPlaces
  <2>2. row.of \in Pids => row.of = Listing[entry]
    BY <1>1
  <2>3. \A i \in 1 .. entry - 1 : Listing[i] # Listing[entry]
    <3>1. \A i \in 1 .. entry - 1 : /\ i \in 1 .. Len(Listing) /\ entry \in 1 .. Len(Listing)
                                     /\ i # entry
      BY <1>1
    <3> QED BY <1>1, <3>1
  <2>4. EntriesDone' = entry
    BY <1>2 DEF EntriesDone, RowPlaces
  <2>5. ASSUME NEW k \in 1 .. Len(vec'), vec'[k].of \in Pids
        PROVE  \E i \in 1 .. entry : Listing[i] = vec'[k].of
    <3>1. CASE k <= Len(vec)
      BY <1>1, <1>3, <2>1, <2>5, <3>1
    <3>2. CASE k = Len(vec) + 1
      BY <1>1, <1>3, <2>2, <2>5, <3>2
    <3> QED BY <1>3, <3>1, <3>2
  <2>6. ASSUME NEW j \in 1 .. Len(vec), row.of \in Pids
        PROVE  vec[j].of # row.of
    BY <1>1, <2>1, <2>2, <2>3, <2>6
  <2>7. ASSUME NEW j \in 1 .. Len(vec'), NEW k \in 1 .. Len(vec'),
               vec'[j].of = vec'[k].of, vec'[j].of \in Pids
        PROVE  j = k
    <3>1. CASE j <= Len(vec) /\ k <= Len(vec)
      BY <1>3, <2>1, <2>7, <3>1
    <3>2. CASE j <= Len(vec) /\ k = Len(vec) + 1
      BY <1>3, <2>6, <2>7, <3>2
    <3>3. CASE j = Len(vec) + 1 /\ k <= Len(vec)
      BY <1>3, <2>6, <2>7, <3>3
    <3> QED BY <1>3, <2>7, <3>1, <3>2, <3>3
  <2>8. Len(vec') >= 1 /\ vec'[1].of \notin Pids
    BY <1>3, <2>1
  <2> QED BY <1>2, <2>4, <2>5, <2>7, <2>8 DEF RowsDiffer
<1> QED BY <1>4, <1>5, <1>6, <1>7, <1>8, <1>9 DEF PagesIInv

\* The end of the page has the element that was kept for it.
LEMMA WriteKeeps ==
  ASSUME PagesIInv, WritePage
  PROVE  PagesIInv'
<1> USE TextBuffers, PagesConstants
<1> DEFINE end == Static("end")
<1>1. /\ module = "processes" /\ pagePc = "read" /\ entry = Len(Listing)
      /\ vec \in Seq(PageBuffers) /\ vec_size \in Nat /\ Len(vec) + 1 <= vec_size
      /\ end \in PageBuffers /\ end.of \notin Pids
  BY DEF WritePage, PageAt, PagesIInv, PagesTypeOK, RoomInVec
<1>2. /\ pagePc' = "free" /\ freed' = 1 /\ vec' = Append(vec, end)
      /\ UNCHANGED <<module, rssPages, alive, entry, pageHeap, row, vec_size>>
  BY DEF WritePage, PageTo, UnchangedSetting
<1> HIDE DEF end
<1>3. /\ vec' \in Seq(PageBuffers) /\ Len(vec') = Len(vec) + 1
      /\ \A k \in 1 .. Len(vec) : vec'[k] = vec[k]
      /\ vec'[Len(vec) + 1] = end /\ Len(vec) \in Nat
  BY <1>1, <1>2, AppendProperties
<1>4. PagesTypeOK'
  BY <1>1, <1>2, <1>3 DEF PagesIInv, PagesTypeOK, RowPlaces
<1>5. RowsInPlace'
  <2>1. /\ Len(vec) = Rows(entry) + 1
        /\ \A i \in 1 .. entry : Listing[i] \in Pids =>
             vec[Rows(i) + 1].of \in {Listing[i], Placeholder.of}
    BY <1>1 DEF PagesIInv, RowsInPlace, RowPlaces, EntriesDone
  <2>2. ASSUME NEW i \in 1 .. entry, Listing[i] \in Pids
        PROVE  vec'[Rows(i) + 1].of \in {Listing[i], Placeholder.of}
    <3>1. entry \in Nat /\ i \in 0 .. entry
      BY <1>1
    <3>2. Rows(i) \in Nat /\ Rows(i) <= Rows(entry) /\ Rows(entry) \in Nat
      BY <3>1, RowsGrow, RowsStep
    <3>3. vec'[Rows(i) + 1] = vec[Rows(i) + 1]
      BY <1>3, <2>1, <3>2
    <3> QED BY <2>1, <2>2, <3>3
  <2>3. EntriesDone' = entry /\ Rows(entry) \in Nat
    BY <1>1, <1>2, RowsStep DEF EntriesDone, RowPlaces
  <2>4. Len(vec') = Rows(entry) + 2 /\ entry' = Len(Listing) /\ pagePc' \notin RowPlaces
    BY <1>1, <1>2, <1>3, <2>1, <2>3 DEF RowPlaces
  <2> QED BY <1>2, <2>2, <2>3, <2>4 DEF RowsInPlace, Rows
<1>6. RoomInVec'
  BY <1>1, <1>2, <1>3 DEF RoomInVec
<1>7. HeapInUse'
  <2>1. pageHeap = {"vec"} \cup RowBuffers(1 .. Len(vec))
    BY <1>1 DEF PagesIInv, HeapInUse, RowPlaces, OwnAt
  <2>2. Len(vec) >= 1 /\ vec[1].of \notin Pids
    BY <1>1 DEF PagesIInv, RowsDiffer
  <2>3. /\ 1 .. Len(vec) = {1} \cup 2 .. Len(vec)
        /\ freed' + 1 .. Len(vec') = 2 .. Len(vec) \cup {Len(vec) + 1}
    BY <1>2, <1>3, <2>2
  <2>4. RowBuffers(freed + 1 .. Len(vec))' = RowBuffers(1 .. Len(vec))
    <3>1. \A b : b \in RowBuffers(freed + 1 .. Len(vec))'
                   <=> b \in Pids /\ \E k \in freed' + 1 .. Len(vec') : b = vec'[k].of
      BY DEF RowBuffers
    <3>2. \A b \in Pids : (\E k \in freed' + 1 .. Len(vec') : b = vec'[k].of)
                            <=> (\E k \in 2 .. Len(vec) : b = vec[k].of)
      BY <1>1, <1>3, <2>3
    <3>3. \A b \in Pids : (\E k \in 2 .. Len(vec) : b = vec[k].of)
                            <=> (\E k \in 1 .. Len(vec) : b = vec[k].of)
      BY <2>2, <2>3
    <3>4. \A b : b \in RowBuffers(1 .. Len(vec))
                   <=> b \in Pids /\ \E k \in 1 .. Len(vec) : b = vec[k].of
      BY DEF RowBuffers
    <3>5. ASSUME NEW b PROVE b \in RowBuffers(freed + 1 .. Len(vec))'
                             <=> b \in RowBuffers(1 .. Len(vec))
      <4>1. CASE b \in Pids
        <5>1. (\E k \in freed' + 1 .. Len(vec') : b = vec'[k].of)
                <=> (\E k \in 1 .. Len(vec) : b = vec[k].of)
          BY <3>2, <3>3, <4>1
        <5> QED BY <3>1, <3>4, <4>1, <5>1, Zenon
      <4>2. CASE b \notin Pids
        BY <3>1, <3>4, <4>2, Zenon
      <4> QED BY <4>1, <4>2
    <3> DEFINE after  == RowBuffers(freed + 1 .. Len(vec))'
               before == RowBuffers(1 .. Len(vec))
    <3>6. \A b : b \in after <=> b \in before
      BY <3>5
    <3> HIDE DEF after, before
    <3>7. after = before
      BY <3>6
    <3> QED BY <3>7 DEF after, before
  <2> QED BY <1>2, <2>1, <2>4 DEF HeapInUse, RowPlaces
<1>8. SizesShown'
  <2>1. ASSUME NEW k \in 1 .. Len(vec') PROVE ShowsSize(vec'[k])
    <3>1. CASE k <= Len(vec)
      BY <1>3, <3>1 DEF PagesIInv, SizesShown
    <3>2. CASE k = Len(vec) + 1
      BY <1>1, <1>3, <3>2 DEF ShowsSize
    <3> QED BY <1>3, <3>1, <3>2
  <2> QED BY <1>2, <2>1 DEF SizesShown, ShowsSize
<1>9. RowsDiffer'
  <2>1. /\ Len(vec) >= 1 /\ vec[1].of \notin Pids
        /\ \A k \in 1 .. Len(vec) : vec[k].of \in Pids =>
             \E i \in 1 .. entry : Listing[i] = vec[k].of
        /\ \A j, k \in 1 .. Len(vec) : vec[j].of = vec[k].of /\ vec[j].of \in Pids => j = k
    BY <1>1 DEF PagesIInv, RowsDiffer, EntriesDone, RowPlaces
  <2>2. EntriesDone' = entry
    BY <1>2 DEF EntriesDone, RowPlaces
  <2>3. \A k \in 1 .. Len(vec') : vec'[k].of \in Pids => k \in 1 .. Len(vec)
    BY <1>1, <1>3
  <2>4. \A k \in 1 .. Len(vec') : vec'[k].of \in Pids =>
          \E i \in 1 .. entry : Listing[i] = vec'[k].of
    BY <1>3, <2>1, <2>3
  <2>5. \A j, k \in 1 .. Len(vec') : vec'[j].of = vec'[k].of /\ vec'[j].of \in Pids => j = k
    BY <1>3, <2>1, <2>3
  <2>6. /\ Len(vec') >= 2 /\ vec'[1].of \notin Pids /\ vec'[Len(vec')].of \notin Pids
        /\ freed' >= 1
    BY <1>1, <1>2, <1>3, <2>1
  <2> QED BY <1>2, <2>2, <2>4, <2>5, <2>6 DEF RowsDiffer
<1> QED BY <1>4, <1>5, <1>6, <1>7, <1>8, <1>9 DEF PagesIInv

\* The loop frees the buffers between the first and the last, and then the array.
LEMMA FreeKeeps ==
  ASSUME PagesIInv, FreeRow
  PROVE  PagesIInv'
<1>1. /\ module = "processes" /\ pagePc = "free" /\ freed \in Nat /\ Len(vec) \in Nat
      /\ pageHeap = {"vec"} \cup RowBuffers(freed + 1 .. Len(vec))
      /\ Len(vec) >= 2 /\ vec[Len(vec)].of \notin Pids /\ freed >= 1
      /\ \A j, k \in 1 .. Len(vec) : vec[j].of = vec[k].of /\ vec[j].of \in Pids => j = k
  BY DEF FreeRow, PageAt, PagesIInv, PagesTypeOK, HeapInUse, RowPlaces, RowsDiffer
<1>2. UNCHANGED <<module, rssPages, alive, entry, row, vec, vec_size>>
  BY DEF FreeRow, UnchangedSetting
<1>3. CASE freed < Len(vec) - 1 /\ vec[freed + 1].of \in pageHeap
  <2>1. /\ pagePc' = "free" /\ freed' = freed + 1 /\ pageHeap' = pageHeap \ {vec[freed + 1].of}
    BY <1>3 DEF FreeRow, PageTo
  <2>2. PagesTypeOK'
    BY <1>1, <1>2, <2>1 DEF PagesIInv, PagesTypeOK, RowPlaces
  <2>3. RowsInPlace'
    <3>1. EntriesDone' = EntriesDone
      BY <1>1, <1>2, <2>1 DEF EntriesDone
    <3>2. /\ entry = Len(Listing) /\ Len(vec) = Rows(EntriesDone) + 2
          /\ \A i \in 1 .. EntriesDone : Listing[i] \in Pids =>
               vec[Rows(i) + 1].of \in {Listing[i], Placeholder.of}
      BY <1>1 DEF PagesIInv, RowsInPlace
    <3> QED BY <1>1, <1>2, <2>1, <3>1, <3>2 DEF RowsInPlace, RowPlaces, Rows
  <2>5. RoomInVec' /\ SizesShown'
    BY <1>1, <1>2, <2>1 DEF PagesIInv, RoomInVec, SizesShown, ShowsSize
  <2>4. HeapInUse'
    <3> DEFINE toFree == vec[freed + 1].of
    <3>1. toFree \in Pids
      <4>1. vec[freed + 1] \in PageBuffers
        BY <1>1, <1>3 DEF PagesIInv, PagesTypeOK
      <4>2. toFree \in Pids \cup StaticTexts
        BY <4>1 DEF PageBuffers
      <4>3. "vec" \notin StaticTexts
        BY DEF StaticTexts
      <4>4. toFree # "vec"
        BY <4>2, <4>3, OwnNotPids
      <4> QED BY <1>1, <1>3, <4>4 DEF RowBuffers
    <3>2. /\ freed + 1 .. Len(vec) = {freed + 1} \cup (freed + 2 .. Len(vec))
          /\ freed + 1 \in 1 .. Len(vec)
          /\ \A k \in freed + 2 .. Len(vec) : k \in 1 .. Len(vec) /\ k # freed + 1
      BY <1>1, <1>3
    <3>3. \A k \in freed + 2 .. Len(vec) : vec[k].of # toFree
      BY <1>1, <3>1, <3>2
    <3>4. RowBuffers(freed + 1 .. Len(vec)) = {toFree} \cup RowBuffers(freed + 2 .. Len(vec))
      BY <3>1, <3>2 DEF RowBuffers
    <3>5. toFree \notin RowBuffers(freed + 2 .. Len(vec)) /\ toFree # "vec"
      BY <3>1, <3>3, OwnNotPids DEF RowBuffers
    <3>6. pageHeap' = {"vec"} \cup RowBuffers(freed + 2 .. Len(vec))
      BY <1>1, <2>1, <3>4, <3>5
    <3>7. RowBuffers(freed + 1 .. Len(vec))' = RowBuffers(freed + 2 .. Len(vec))
      <4>1. freed' + 1 = freed + 2
        BY <1>1, <2>1
      <4> QED BY <1>2, <4>1 DEF RowBuffers
    <3> QED BY <1>1, <1>2, <2>1, <3>6, <3>7 DEF HeapInUse, RowPlaces
  <2>6. RowsDiffer'
    <3>1. EntriesDone' = EntriesDone /\ freed' >= 1
      BY <1>1, <1>2, <2>1 DEF EntriesDone
    <3> QED BY <1>1, <1>2, <2>1, <3>1 DEF PagesIInv, RowsDiffer
  <2> QED BY <2>2, <2>3, <2>4, <2>5, <2>6 DEF PagesIInv
<1>4. CASE freed < Len(vec) - 1 /\ vec[freed + 1].of \notin pageHeap
  <2>1. pagePc' = "aborted" /\ freed' \in Nat
    BY <1>1, <1>4 DEF FreeRow, PageTo
  <2> QED BY <1>2, <2>1, PageEnds
<1>5. CASE ~(freed < Len(vec) - 1)
  <2>1. pagePc' = "done" /\ freed' = freed /\ pageHeap' = pageHeap \ {"vec"}
    BY <1>5 DEF FreeRow, PageTo
  <2>2. pageHeap' = {}
    <3>1. \A k \in freed + 1 .. Len(vec) : k = Len(vec)
      BY <1>1, <1>5
    <3>2. RowBuffers(freed + 1 .. Len(vec)) = {}
      BY <1>1, <3>1 DEF RowBuffers
    <3> QED BY <1>1, <2>1, <3>2
  <2> QED BY <1>1, <1>2, <2>1, <2>2, PageEnds
<1> QED BY <1>3, <1>4, <1>5

\* Every step keeps the invariant.
LEMMA PagesStep == PagesIInv /\ [PagesNext]_pageVars => PagesIInv'
<1> SUFFICES ASSUME PagesIInv, [PagesNext]_pageVars PROVE PagesIInv'
  OBVIOUS
<1>1. CASE Vanish
  <2>1. alive' \subseteq Pids
    BY <1>1 DEF Vanish, PagesIInv, PagesTypeOK
  <2> QED BY <1>1, <2>1, PageStays DEF Vanish, UnchangedSetting, UnchangedVec
<1>2. CASE NoMemoryForPage \/ (ShowNames /\ pagePc' # "format")
  <2>1. freed \in Nat
    BY DEF PagesIInv, PagesTypeOK
  <2> QED BY <1>2, <2>1, PageEnds DEF NoMemoryForPage, ShowNames, PageTo, UnchangedSetting,
                                      UnchangedVec
<1>3. CASE NextEntry
  BY <1>3, NextEntryKeeps
<1>4. CASE get_uid_gid \/ get_rss \/ get_program_name
  BY <1>4, LooksKeep
<1>5. CASE FormatRow \/ (ShowNames /\ pagePc' = "format")
  BY <1>5, FormatKeeps
<1>6. CASE StoreRow
  BY <1>6, StoreKeeps
<1>7. CASE WritePage
  BY <1>7, WriteKeeps
<1>8. CASE FreeRow
  BY <1>8, FreeKeeps
<1>9. CASE issue_generate \/ time_generate
  <2>1. /\ freed' \in Nat /\ module # "processes" /\ pagePc' \in {"done", "aborted"}
        /\ UNCHANGED <<module, alive, rssPages, entry, vec, vec_size, row>>
    BY <1>9 DEF issue_generate, time_generate, PageAt, PageTo, UnchangedSetting, PagesIInv,
                PagesTypeOK
  <2> QED BY <2>1, PageEnds
<1>10. CASE UNCHANGED pageVars
  <2>1. alive' \subseteq Pids
    BY <1>10 DEF pageVars, PagesIInv, PagesTypeOK
  <2> QED BY <1>10, <2>1, PageStays DEF pageVars
<1> QED
  BY <1>1, <1>2, <1>3, <1>4, <1>5, <1>6, <1>7, <1>8, <1>9, <1>10 DEF PagesNext

\* What the invariant is for.
LEMMA PagesPromises == PagesIInv => PagesInv
<1> SUFFICES ASSUME PagesIInv PROVE PagesInv
  OBVIOUS
<1>1. VecFits
  <2>1. Len(vec) \in Nat /\ vec_size \in Nat
    BY DEF PagesIInv, PagesTypeOK
  <2> QED BY <2>1 DEF PagesIInv, RoomInVec, VecFits
<1>2. RowPerProcess
  <2> SUFFICES ASSUME pagePc = "free" PROVE RowPerProcess
    BY DEF RowPerProcess
  <2>1. module = "processes" /\ EntriesDone = Len(Listing) /\ Rows(Len(Listing)) \in Nat
    BY PagesConstants, RowsStep DEF PagesIInv, PagesTypeOK, RowsInPlace, EntriesDone, RowPlaces
  <2>2. DOMAIN Listing = 1 .. Len(Listing)
    BY PagesConstants
  <2> QED BY <2>1, <2>2 DEF PagesIInv, RowsInPlace, RowPerProcess
<1>3. HeapIsThePage
  BY DEF PagesIInv, HeapInUse, RowPlaces, OwnAt, HeapIsThePage
<1>4. RowShowsKilobytes
  <2>1. DOMAIN vec = 1 .. Len(vec)
    BY DEF PagesIInv, PagesTypeOK
  <2> QED BY <2>1 DEF PagesIInv, SizesShown, ShowsSize, RowShowsKilobytes
<1> QED BY <1>1, <1>2, <1>3, <1>4 DEF PagesInv

\* The page of processes has a row for each process of the listing, fits its array and
\* shows the sizes, at any number of processes, whichever of them end while it is made;
\* and the heap holds the array and the rows that are not freed and nothing else, also
\* when a process is found gone at any of the three looks and its row is the placeholder
\* (processes.c).
THEOREM PageOfProcessesIsRight == PagesSpec => []PagesInv
<1>1. PagesInit => PagesIInv
  BY PagesStart
<1>2. PagesIInv /\ [PagesNext]_pageVars => PagesIInv'
  BY PagesStep
<1>3. PagesIInv => PagesInv
  BY PagesPromises
<1> QED BY <1>1, <1>2, <1>3, PTL DEF PagesSpec
===============================================================================
