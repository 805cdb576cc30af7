------------------------------ MODULE ThreadProofs ------------------------------
(***************************************************************************)
(* Proofs about the threads of ALP chapter 4 and of ch12: no wake-up of    *)
(* the flag's worker is lost, each job of a list is processed once by      *)
(* threads that empty it, a cancelled thread leaves nothing half done, the *)
(* job queue and its semaphore agree, main gets what its threads computed, *)
(* and each line typed into the work area is counted once.                 *)
(***************************************************************************)
EXTENDS ThreadFlag, JobDrain, Cancellation, JobQueue, ThreadBasics, WorkArea,
        FiniteSetTheorems, SequenceTheorems, NaturalsInduction, WellFoundedInduction, TLAPS

-----------------------------------------------------------------------------
(* The flag with a condition variable.                                     *)

\* The setters are no names of the mutex's other holders.
LEMMA SetterNames ==
  ASSUME NEW s \in Setters
  PROVE  s # "worker" /\ s # "none"
BY ThreadFlagAssumption

\* At the start nobody waits and nobody has the mutex.
LEMMA FlagInit == initialize_flag => FlagInv
BY SetterNames DEF initialize_flag, FlagInv, FlagTypeOK, FlagMutexInv, NoLostWakeup, SetterPc

\* The worker's steps (condvar.c thread_function): it waits only when it has
\* seen the flag clear while it held the mutex.
LEMMA FlagWorkerStep ==
  ASSUME FlagInv, WorkerRuns \/ SpuriousWakeup
  PROVE  FlagInv'
<1> USE SetterNames DEF FlagInv, FlagTypeOK, FlagMutexInv, NoLostWakeup, SetterPc,
        WorkerMoves, Acquire, setterVars
<1>1. CASE LockFlag
  BY <1>1 DEF LockFlag
<1>2. CASE TestFlag
  <2>1. /\ ~spins /\ flagMutex = "worker" /\ setPc' = setPc
        /\ \A s \in Setters : setPc[s] \notin {"assign", "signal", "unlock"}
    BY <1>2 DEF TestFlag
  <2>2. CASE thread_flag = 0
    <3>1. FlagTypeOK' /\ NoLostWakeup'
      BY <1>2, <2>2 DEF TestFlag
    <3>2. FlagMutexInv'
      BY <1>2, <2>1, <2>2 DEF TestFlag
    <3> QED BY <3>1, <3>2
  <2>3. CASE thread_flag # 0
    BY <1>2, <2>1, <2>3 DEF TestFlag
  <2> QED BY <2>2, <2>3
<1>3. CASE Woken
  BY <1>3 DEF Woken
<1>4. CASE ReadFlag
  BY <1>4 DEF ReadFlag
<1>5. CASE UnlockFlag
  BY <1>5 DEF UnlockFlag
<1>6. CASE do_work
  BY <1>6 DEF do_work
<1>7. CASE SpuriousWakeup
  BY <1>7 DEF SpuriousWakeup
<1> QED BY <1>1, <1>2, <1>3, <1>4, <1>5, <1>6, <1>7 DEF WorkerRuns

\* set_thread_flag is called; the setter does not have the mutex yet.
LEMMA FlagCallStep ==
  ASSUME FlagInv, NEW s \in Setters, CallSet(s)
  PROVE  FlagInv'
<1>1. FlagTypeOK'
  BY DEF FlagInv, FlagTypeOK, SetterPc, CallSet, SetterMoves
<1>2. FlagMutexInv'
  BY DEF FlagInv, FlagTypeOK, FlagMutexInv, CallSet, SetterMoves
<1>3. NoLostWakeup'
  BY DEF FlagInv, FlagTypeOK, NoLostWakeup, CallSet, SetterMoves
<1> QED BY <1>1, <1>2, <1>3 DEF FlagInv

\* set_thread_flag goes on: the signal is sent before the mutex is released.
LEMMA FlagSetterStep ==
  ASSUME FlagInv, NEW s \in Setters, SetterRuns(s)
  PROVE  FlagInv'
<1>1. CASE SetterMoves(s, "lock", "assign") /\ Acquire(s) /\ UNCHANGED <<thread_flag, cvWaiting>>
  BY <1>1, SetterNames DEF FlagInv, FlagTypeOK, FlagMutexInv, NoLostWakeup, SetterPc,
     SetterRuns, SetterMoves, Acquire
<1>2. CASE SetterMoves(s, "assign", "signal") /\ thread_flag' = setTo[s]
           /\ UNCHANGED <<flagMutex, cvWaiting>>
  BY <1>2, SetterNames DEF FlagInv, FlagTypeOK, FlagMutexInv, NoLostWakeup, SetterPc,
     SetterRuns, SetterMoves
<1>3. CASE SetterMoves(s, "signal", "unlock") /\ UNCHANGED <<thread_flag, flagMutex>>
           /\ IF spins THEN UNCHANGED cvWaiting ELSE cvWaiting' = FALSE
  BY <1>3, SetterNames DEF FlagInv, FlagTypeOK, FlagMutexInv, NoLostWakeup, SetterPc,
     SetterRuns, SetterMoves
<1>4. CASE SetterMoves(s, "unlock", "idle") /\ flagMutex' = "none"
           /\ UNCHANGED <<thread_flag, cvWaiting>>
  BY <1>4, SetterNames DEF FlagInv, FlagTypeOK, FlagMutexInv, NoLostWakeup, SetterPc,
     SetterRuns, SetterMoves
<1> QED BY <1>1, <1>2, <1>3, <1>4 DEF SetterRuns

\* Every step of the worker and of the setters keeps the invariant.
LEMMA FlagStep == FlagInv /\ [ThreadFlagNext]_threadFlagVars => FlagInv'
<1> SUFFICES ASSUME FlagInv, [ThreadFlagNext]_threadFlagVars
             PROVE  FlagInv'
  OBVIOUS
<1>1. CASE UNCHANGED threadFlagVars
  BY <1>1 DEF threadFlagVars, FlagInv, FlagTypeOK, FlagMutexInv, NoLostWakeup
<1>2. CASE ThreadFlagNext
  BY <1>2, FlagWorkerStep, FlagCallStep, FlagSetterStep DEF ThreadFlagNext
<1> QED BY <1>1, <1>2

\* No wake-up is lost between the test of the flag and the wait (condvar.c
\* 30-37): while the worker waits and the flag is set, a signal is coming.
THEOREM FlagWakesWorker == ThreadFlagSpec => []NoLostWakeup
<1>1. FlagInv => NoLostWakeup
  BY DEF FlagInv
<1> QED BY <1>1, FlagInit, FlagStep, PTL DEF ThreadFlagSpec


-----------------------------------------------------------------------------
(* Threads that empty a list of jobs.                                      *)

\* The list is finite and its places are 1 .. Len(Chain).
LEMMA ChainFacts ==
  /\ Len(Chain) \in Nat /\ DOMAIN Chain = 1 .. Len(Chain)
  /\ EmptyList \in Nat /\ EmptyList = Len(Chain) + 1
BY JobDrainAssumption DEF EmptyList

\* The owners of jobs are finitely many.
LEMMA OwningFinite == IsFiniteSet(Owning) /\ Cardinality(Owning) \in Nat
<1>1. Owning \subseteq Drainers
  BY DEF Owning
<1> QED BY <1>1, JobDrainAssumption, FS_Subset, FS_CardinalityType

\* At the start the whole chain is in the list and nobody has taken a job.
LEMMA DrainInit == JobDrainInit => DrainInv
<1> SUFFICES ASSUME JobDrainInit PROVE DrainInv
  OBVIOUS
<1>1. DrainTypeOK
  <2>1. drainers \subseteq Drainers /\ drainers # {}
    BY JobDrainAssumption DEF JobDrainInit
  <2>2. processed \in Seq({Chain[i] : i \in DOMAIN Chain})
    BY EmptySeq DEF JobDrainInit
  <2>3. 1 \in 1 .. EmptyList /\ EmptyList \in 1 .. EmptyList
    BY ChainFacts
  <2> QED BY <2>1, <2>2, <2>3 DEF JobDrainInit, DrainTypeOK, DrainPc
<1>2. DrainPlaces
  BY JobDrainAssumption DEF JobDrainInit, DrainPlaces
<1>3. Owning = {}
  BY DEF JobDrainInit, Owning
<1>4. JobsOutOfList
  BY <1>3, FS_EmptySet DEF JobDrainInit, JobsOutOfList
<1> QED BY <1>1, <1>2, <1>4 DEF DrainInv

\* A step that leaves alone the list, the jobs processed and those that have
\* an owner.
LEMMA OwnersUnchanged ==
  ASSUME JobsOutOfList, Owning' = Owning, \A e \in Owning : next_job'[e] = next_job[e],
         UNCHANGED <<job_queue_first, processed>>
  PROVE  JobsOutOfList'
BY DEF JobsOutOfList

\* The mutex has one holder, which is where the code has locked it.
LEMMA DrainLockStep ==
  ASSUME DrainInv, NEW d \in drainers, LockList(d)
  PROVE  DrainInv'
<1> USE DEF DrainInv, LockList, DrainMoves
<1>0. d \in Drainers
  BY DEF DrainTypeOK
<1>1. DrainTypeOK'
  BY <1>0 DEF DrainTypeOK, DrainPc
<1>2. DrainPlaces'
  BY <1>0, JobDrainAssumption DEF DrainTypeOK, DrainPlaces
<1>3. Owning' = Owning
  BY <1>0 DEF DrainTypeOK, Owning
<1>4. JobsOutOfList'
  BY <1>3, OwnersUnchanged
<1> QED BY <1>1, <1>2, <1>4

\* A thread that finds the list empty has no job.
LEMMA DrainTestStep ==
  ASSUME DrainInv, NEW d \in drainers, TestList(d)
  PROVE  DrainInv'
<1> USE DEF DrainInv, TestList, DrainMoves
<1>0. d \in Drainers
  BY DEF DrainTypeOK
<1>1. DrainTypeOK'
  <2>1. CASE job_queue_first = EmptyList
    BY <1>0, <2>1 DEF DrainTypeOK, DrainPc
  <2>2. CASE job_queue_first # EmptyList
    BY <1>0, <2>2 DEF DrainTypeOK, DrainPc
  <2> QED BY <2>1, <2>2
<1>2. DrainPlaces'
  BY <1>0 DEF DrainTypeOK, DrainPlaces
<1>3. Owning' = Owning /\ \A e \in Owning : next_job'[e] = next_job[e]
  BY <1>0 DEF DrainTypeOK, Owning
<1>4. JobsOutOfList'
  BY <1>3, OwnersUnchanged
<1> QED BY <1>1, <1>2, <1>4

\* The head that is read is still the head when it is removed.
LEMMA DrainReadStep ==
  ASSUME DrainInv, NEW d \in drainers, ReadHead(d)
  PROVE  DrainInv'
<1> USE DEF DrainInv, ReadHead, DrainMoves
<1>0. d \in Drainers
  BY DEF DrainTypeOK
<1>1. DrainTypeOK'
  BY <1>0 DEF DrainTypeOK, DrainPc
<1>2. DrainPlaces'
  BY <1>0 DEF DrainTypeOK, DrainPlaces
<1>3. Owning' = Owning /\ \A e \in Owning : next_job'[e] = next_job[e]
  BY <1>0 DEF DrainTypeOK, Owning
<1>4. JobsOutOfList'
  BY <1>3, OwnersUnchanged
<1> QED BY <1>1, <1>2, <1>4

\* The thread that removes the head becomes its one owner.
LEMMA DrainRemoveStep ==
  ASSUME DrainInv, NEW d \in drainers, RemoveHead(d)
  PROVE  DrainInv'
<1> USE DEF DrainInv, RemoveHead, DrainMoves
<1>0. d \in Drainers
  BY DEF DrainTypeOK
<1>1. DrainTypeOK'
  BY <1>0, ChainFacts DEF DrainTypeOK, DrainPc
<1>2. DrainPlaces'
  BY <1>0, ChainFacts DEF DrainTypeOK, DrainPlaces
<1>3. next_job[d] = job_queue_first /\ next_job' = next_job /\ processed' = processed
  BY <1>0 DEF DrainPlaces
<1>4. Owning' = Owning \cup {d} /\ d \notin Owning
  BY <1>0, <1>3 DEF DrainTypeOK, Owning
<1>5. job_queue_first \in Nat /\ job_queue_first' = job_queue_first + 1
  BY ChainFacts DEF DrainTypeOK
<1>6. Cardinality(Owning') = Cardinality(Owning) + 1 /\ Cardinality(Owning) \in Nat
  BY <1>4, OwningFinite, FS_AddElement
<1>7. Len(processed) \in Nat
  BY DEF DrainTypeOK
<1>8. \A e \in Owning : next_job[e] \in Nat
  BY ChainFacts DEF DrainTypeOK, Owning
<1>9. JobsOutOfList'
  <2>1. /\ \A e \in Owning' : next_job'[e] < job_queue_first'
        /\ \A a, e \in Owning' : a # e => next_job'[a] # next_job'[e]
    BY <1>3, <1>4, <1>5, <1>8 DEF JobsOutOfList
  <2>2. ASSUME NEW i \in 1 .. Len(processed)
        PROVE  \E k \in 1 .. job_queue_first' - 1 :
                 processed[i] = Chain[k] /\ \A e \in Owning' : next_job'[e] # k
    <3>1. PICK k \in 1 .. job_queue_first - 1 :
            processed[i] = Chain[k] /\ \A e \in Owning : next_job[e] # k
      BY DEF JobsOutOfList
    <3>2. k \in 1 .. job_queue_first' - 1 /\ k # job_queue_first
      BY <1>5
    <3> QED BY <1>3, <1>4, <3>1, <3>2
  <2>3. Len(processed) + Cardinality(Owning') = job_queue_first' - 1
    BY <1>5, <1>6, <1>7 DEF JobsOutOfList
  <2>4. \A i, k \in 1 .. Len(processed') : i # k => processed'[i] # processed'[k]
    BY <1>3 DEF JobsOutOfList
  <2> HIDE DEF DrainInv, RemoveHead, DrainMoves
  <2> QED BY <1>3, <2>1, <2>2, <2>3, <2>4 DEF JobsOutOfList
<1> QED BY <1>1, <1>2, <1>9

\* A thread that has no job ends with the list empty.
LEMMA DrainUnlockStep ==
  ASSUME DrainInv, NEW d \in drainers, UnlockList(d)
  PROVE  DrainInv'
<1> USE DEF DrainInv, UnlockList, DrainMoves
<1>0. d \in Drainers
  BY DEF DrainTypeOK
<1>1. DrainTypeOK'
  BY <1>0 DEF DrainTypeOK, DrainPc
<1>2. DrainPlaces'
  BY <1>0, JobDrainAssumption DEF DrainTypeOK, DrainPlaces
<1>3. Owning' = Owning
  BY <1>0 DEF DrainTypeOK, Owning
<1>4. JobsOutOfList'
  BY <1>3, OwnersUnchanged
<1> QED BY <1>1, <1>2, <1>4

\* The owner of a job processes it, and it has no owner any more.
LEMMA DrainProcessStep ==
  ASSUME DrainInv, NEW d \in drainers, ProcessAndFree(d)
  PROVE  DrainInv'
<1> USE DEF DrainInv, ProcessAndFree, DrainMoves
<1> DEFINE j == next_job[d]
           n == Len(processed)
<1>0. d \in Drainers
  BY DEF DrainTypeOK
<1>1. /\ j \in DOMAIN Chain /\ d \in Owning /\ j < job_queue_first
      /\ Owning' = Owning \ {d}
  BY <1>0, ChainFacts DEF DrainTypeOK, DrainPlaces, JobsOutOfList, Owning
<1>2. /\ n \in Nat /\ Len(processed') = n + 1 /\ processed'[n + 1] = Chain[j]
      /\ \A i \in 1 .. n : processed'[i] = processed[i]
      /\ processed' \in Seq({Chain[i] : i \in DOMAIN Chain})
  <2>1. Chain[j] \in {Chain[i] : i \in DOMAIN Chain}
    BY <1>1
  <2> QED BY <2>1 DEF DrainTypeOK
<1>3. DrainTypeOK'
  BY <1>0, <1>2 DEF DrainTypeOK, DrainPc
<1>4. DrainPlaces'
  BY <1>0, ChainFacts DEF DrainTypeOK, DrainPlaces
<1>5. Cardinality(Owning) = Cardinality(Owning') + 1 /\ Cardinality(Owning') \in Nat
  <2>1. IsFiniteSet(Owning) /\ Cardinality(Owning) \in Nat
    BY OwningFinite
  <2> QED BY <1>1, <2>1, FS_RemoveElement, FS_CardinalityType, FS_Subset
<1>6. job_queue_first \in Nat /\ UNCHANGED <<job_queue_first, next_job>>
  BY ChainFacts DEF DrainTypeOK
<1>7. JobsOutOfList'
  <2>1. /\ \A e \in Owning' : next_job'[e] < job_queue_first'
        /\ \A a, e \in Owning' : a # e => next_job'[a] # next_job'[e]
    BY <1>1, <1>6 DEF JobsOutOfList
  <2>2. \A e \in Owning' : next_job[e] # j
    BY <1>1 DEF JobsOutOfList
  <2>3. \A i \in 1 .. n : \E k \in 1 .. job_queue_first - 1 :
          processed[i] = Chain[k] /\ k # j /\ \A e \in Owning' : next_job[e] # k
    BY <1>1 DEF JobsOutOfList
  <2>4. j \in 1 .. job_queue_first - 1
    BY <1>1, <1>6, ChainFacts
  <2>5. \A i \in 1 .. n + 1 : \E k \in 1 .. job_queue_first - 1 :
          processed'[i] = Chain[k] /\ \A e \in Owning' : next_job[e] # k
    <3> SUFFICES ASSUME NEW i \in 1 .. n + 1
                 PROVE  \E k \in 1 .. job_queue_first - 1 :
                          processed'[i] = Chain[k] /\ \A e \in Owning' : next_job[e] # k
      OBVIOUS
    <3>1. CASE i = n + 1
      BY <1>2, <2>2, <2>4, <3>1
    <3>2. CASE i \in 1 .. n
      BY <1>2, <2>3, <3>2
    <3> QED BY <1>2, <3>1, <3>2
  <2>6. \A i \in 1 .. n : processed[i] # Chain[j]
    <3> SUFFICES ASSUME NEW i \in 1 .. n PROVE processed[i] # Chain[j]
      OBVIOUS
    <3>1. PICK k \in 1 .. job_queue_first - 1 : processed[i] = Chain[k] /\ k # j
      BY <2>3
    <3>2. k \in DOMAIN Chain
      BY <1>6, ChainFacts DEF DrainTypeOK
    <3> QED BY <1>1, <3>1, <3>2, JobDrainAssumption
  <2>7. \A i, k \in 1 .. n + 1 : i # k => processed'[i] # processed'[k]
    <3>1. \A i \in 1 .. n + 1 : i = n + 1 \/ i \in 1 .. n
      BY <1>2
    <3>2. \A i, k \in 1 .. n : i # k => processed'[i] # processed'[k]
      BY <1>2 DEF JobsOutOfList
    <3> QED BY <1>2, <2>6, <3>1, <3>2
  <2>8. n + 1 + Cardinality(Owning') = job_queue_first - 1
    BY <1>2, <1>5, <1>6 DEF JobsOutOfList
  <2>9. \A i \in 1 .. Len(processed') : \E k \in 1 .. job_queue_first' - 1 :
          processed'[i] = Chain[k] /\ \A e \in Owning' : next_job'[e] # k
    BY <1>2, <1>6, <2>5
  <2>10. /\ \A i, k \in 1 .. Len(processed') : i # k => processed'[i] # processed'[k]
         /\ Len(processed') + Cardinality(Owning') = job_queue_first' - 1
    BY <1>2, <1>6, <2>7, <2>8
  <2> QED BY <2>1, <2>9, <2>10 DEF JobsOutOfList
<1> QED BY <1>3, <1>4, <1>7

\* Every step of the threads keeps the invariant.
LEMMA DrainInductive == DrainInv /\ [JobDrainNext]_jobDrainVars => DrainInv'
<1> SUFFICES ASSUME DrainInv, [JobDrainNext]_jobDrainVars
             PROVE  DrainInv'
  OBVIOUS
<1>1. CASE UNCHANGED jobDrainVars
  <2>1. Owning' = Owning
    BY <1>1 DEF jobDrainVars, Owning
  <2> QED BY <1>1, <2>1 DEF jobDrainVars, DrainInv, DrainTypeOK, DrainPlaces, JobsOutOfList
<1>2. CASE JobDrainNext
  BY <1>2, DrainLockStep, DrainTestStep, DrainReadStep, DrainRemoveStep, DrainUnlockStep,
     DrainProcessStep DEF JobDrainNext, DrainStep
<1> QED BY <1>1, <1>2

\* Each job is processed and freed once (job-queue2.c 33-55): never twice, and
\* when all threads have ended none is left, for any threads and any list.
THEOREM JobsProcessedOnce == JobDrainSpec => []EachJobOnce
<1>1. DrainInv => EachJobOnce
  <2> SUFFICES ASSUME DrainInv PROVE EachJobOnce
    OBVIOUS
  <2>1. DOMAIN processed = 1 .. Len(processed) /\ Len(processed) \in Nat
    BY DEF DrainInv, DrainTypeOK
  <2>2. ASSUME \A d \in drainers : drainPc[d] = "ended"
        PROVE  Len(processed) = Len(Chain)
    <3>1. job_queue_first = EmptyList
      BY <2>2 DEF DrainInv, DrainTypeOK, DrainPlaces
    <3>2. Owning = {}
      BY <2>2 DEF DrainInv, DrainTypeOK, DrainPlaces, Owning
    <3>3. Cardinality(Owning) = 0
      BY <3>2, FS_EmptySet
    <3> QED BY <2>1, <3>1, <3>3, ChainFacts DEF DrainInv, JobsOutOfList
  <2> QED BY <2>1, <2>2 DEF DrainInv, JobsOutOfList, EachJobOnce
<1> QED BY <1>1, DrainInit, DrainInductive, PTL DEF JobDrainSpec


-----------------------------------------------------------------------------
(* Cancellation.                                                           *)

\* A transfer is between two accounts, and its amount is a number.
LEMMA TransferFacts ==
  ASSUME transfer \in Transfers
  PROVE  /\ transfer.from \in Accounts /\ transfer.to \in Accounts
         /\ transfer.from # transfer.to /\ transfer.dollars \in Nat
BY CancellationAssumption DEF Transfers

\* The accounts have their opening balances, the thread has not started.
LEMMA CancelStart == CancelInit => CancelInv
<1> SUFFICES ASSUME CancelInit PROVE CancelInv
  OBVIOUS
<1>1. account_balances \in [Accounts -> Int]
  BY CancellationAssumption DEF CancelInit
<1> QED BY <1>1 DEF CancelInit, CancelInv, TransferInv, BufferInv, NothingHalfDone,
        MoneyMovesWhole, BufferFreedOnce

\* The two statements that move the money make the transfer.
LEMMA CreditThenDebit ==
  ASSUME transfer \in Transfers
  PROVE  /\ Credited \in [Accounts -> Int]
         /\ [Credited EXCEPT ![transfer.from] = @ + -transfer.dollars]
              = Transferred
         /\ Transferred \in [Accounts -> Int]
<1>1. /\ transfer.from \in Accounts /\ transfer.to \in Accounts
      /\ transfer.from # transfer.to /\ transfer.dollars \in Nat
  BY TransferFacts
<1>2. Opening \in [Accounts -> Int]
  BY CancellationAssumption
<1>3. Credited \in [Accounts -> Int]
  BY <1>1, <1>2 DEF Credited
<1>4. \A a \in Accounts : Opening[a] \in Int /\ Moving(a) \in Int
  BY <1>1, <1>2 DEF Moving
<1>5. ASSUME NEW a \in Accounts
      PROVE  [Credited EXCEPT ![transfer.from] = @ + -transfer.dollars][a]
               = Opening[a] + Moving(a)
  <2>1. CASE a = transfer.from
    BY <1>1, <1>2, <2>1 DEF Credited, Moving
  <2>2. CASE a = transfer.to
    BY <1>1, <1>2, <2>2 DEF Credited, Moving
  <2>3. CASE a # transfer.from /\ a # transfer.to
    BY <1>1, <1>2, <2>3 DEF Credited, Moving
  <2> QED BY <2>1, <2>2, <2>3
<1>6. [a \in Accounts |-> Opening[a] + Moving(a)] \in [Accounts -> Int]
  BY <1>4
<1> QED BY <1>3, <1>5, <1>6 DEF Transferred

\* process_transaction (critical-section.c): cancellation is disabled while the money
\* is moved, and enabled again when all of it was.
LEMMA TransferStep ==
  ASSUME CancelInv,
         \/ CheckBalance \/ DisableCancel \/ Credit \/ Debit \/ EnableCancel \/ ReturnSuccess
         \/ Refuse
  PROVE  CancelInv'
<1> USE DEF Th, Moved, NoMoney, NoBuffer
<1>1. transfer' = transfer /\ body' = body
  BY DEF CheckBalance, DisableCancel, Credit, Debit, EnableCancel, ReturnSuccess, Refuse
<1>2. Credited' = Credited /\ Transferred' = Transferred
  <2>1. \A a : Moving(a)' = Moving(a)
    BY <1>1 DEF Moving
  <2> QED BY <1>1, <2>1 DEF Credited, Transferred
<1>3. body = "transfer"
  BY DEF CancelInv, BufferInv, CheckBalance, DisableCancel, Credit, Debit, EnableCancel,
     ReturnSuccess, Refuse
<1>4. BufferInv' /\ BufferFreedOnce' /\ temp_buffer' = temp_buffer /\ handler' = handler
  BY <1>1, <1>3 DEF CancelInv, TransferInv, BufferInv, BufferFreedOnce, CheckBalance,
     DisableCancel, Credit, Debit, EnableCancel, ReturnSuccess, Refuse
<1>5. account_balances' \in [Accounts -> Int] /\ TransferInv' /\ MoneyMovesWhole'
  <2>1. CASE CheckBalance \/ DisableCancel
    BY <1>1, <1>3, <1>4, <2>1 DEF CancelInv, TransferInv, MoneyMovesWhole, CheckBalance,
       DisableCancel
  <2>2. CASE Credit
    <3>1. account_balances' = Credited /\ account_balances' \in [Accounts -> Int]
      BY <1>3, <2>2, CreditThenDebit DEF CancelInv, TransferInv, Credit, Credited
    <3>2. threadPc' = "debit" /\ ~cancelState' /\ temp_buffer = "none" /\ ~handler
      BY <1>3, <2>2 DEF CancelInv, TransferInv, Credit
    <3> QED BY <1>1, <1>2, <1>4, <3>1, <3>2 DEF TransferInv, MoneyMovesWhole
  <2>3. CASE Debit
    <3>1. account_balances' = Transferred /\ account_balances' \in [Accounts -> Int]
      BY <1>3, <2>3, CreditThenDebit DEF CancelInv, TransferInv, Debit
    <3>2. threadPc' = "enable" /\ ~cancelState' /\ temp_buffer = "none" /\ ~handler
      BY <1>3, <2>3 DEF CancelInv, TransferInv, Debit
    <3> QED BY <1>1, <1>2, <1>4, <3>1, <3>2 DEF TransferInv, MoneyMovesWhole
  <2>4. CASE EnableCancel \/ ReturnSuccess
    <3>1. account_balances' = Transferred
      BY <1>3, <2>4 DEF CancelInv, TransferInv, EnableCancel, ReturnSuccess
    <3> QED BY <1>1, <1>2, <1>3, <1>4, <2>4, <3>1 DEF CancelInv, TransferInv, MoneyMovesWhole,
            EnableCancel, ReturnSuccess
  <2>5. CASE Refuse
    BY <1>1, <1>3, <1>4, <2>5 DEF CancelInv, TransferInv, MoneyMovesWhole, Refuse
  <2> QED BY <2>1, <2>2, <2>3, <2>4, <2>5
<1> QED BY <1>1, <1>4, <1>5 DEF CancelInv, NothingHalfDone

\* do_some_work of cleanup.c and the loop of thread7.c.
LEMMA WorkStep ==
  ASSUME CancelInv, AllocateBuffer \/ PushHandler \/ PopHandler \/ ThrowExit \/ LoopTick
  PROVE  CancelInv'
<1>1. transfer' = transfer /\ body' = body /\ account_balances' = account_balances
  BY DEF AllocateBuffer, PushHandler, PopHandler, ThrowExit, Leave, LoopTick, Th, NoMoney
<1>2. body # "transfer"
  BY DEF CancelInv, TransferInv, AllocateBuffer, PushHandler, PopHandler, ThrowExit, LoopTick,
     Th
<1>3. BufferInv' /\ BufferFreedOnce'
  <2> USE <1>1, <1>2 DEF CancelInv, BufferInv, NothingHalfDone, BufferFreedOnce
  <2>1. CASE AllocateBuffer
    BY <2>1 DEF AllocateBuffer, Th
  <2>2. CASE PushHandler
    BY <2>2 DEF PushHandler, Th
  <2>3. CASE PopHandler
    BY <2>3 DEF PopHandler, Th, Free
  <2>4. CASE ThrowExit
    BY <2>4 DEF ThrowExit, Leave, Free
  <2>5. CASE LoopTick
    BY <2>5 DEF LoopTick, Th, NoBuffer
  <2> QED BY <2>1, <2>2, <2>3, <2>4, <2>5
<1> QED BY <1>1, <1>2, <1>3 DEF CancelInv, TransferInv, NothingHalfDone, MoneyMovesWhole

\* A cancelled thread leaves where the code lets it, and its handlers run.
LEMMA CancelStep ==
  ASSUME CancelInv, ActOnCancel
  PROVE  CancelInv'
<1>1. transfer' = transfer /\ body' = body /\ account_balances' = account_balances
  BY DEF ActOnCancel, Leave, NoMoney
<1>2. CASE body = "transfer"
  <2>1. \/ threadPc \in {"start", "refuse", "disable"} /\ account_balances = Opening
        \/ threadPc = "return" /\ account_balances = Transferred
    BY <1>2 DEF CancelInv, TransferInv, ActOnCancel
  <2>2. account_balances' \in {Opening, Transferred'}
    BY <1>1, <2>1 DEF Transferred, Moving
  <2> QED BY <1>1, <1>2, <2>2 DEF CancelInv, TransferInv, BufferInv, NothingHalfDone,
          MoneyMovesWhole, BufferFreedOnce, ActOnCancel, Leave
<1>3. CASE body # "transfer"
  <2>1. BufferInv' /\ BufferFreedOnce'
    BY <1>1, <1>3 DEF CancelInv, BufferInv, NothingHalfDone, BufferFreedOnce, ActOnCancel,
       Leave, Free
  <2> QED BY <1>1, <1>3, <2>1 DEF CancelInv, TransferInv, NothingHalfDone, MoneyMovesWhole
<1> QED BY <1>2, <1>3

\* Steps that leave the thread, its accounts and its buffer alone.
LEMMA ThreadUntouched ==
  ASSUME CancelInv,
         UNCHANGED <<body, account_balances, transfer, cancelState, asynchronous, handler,
                     temp_buffer, threadPc, thread_result>>
  PROVE  CancelInv'
<1>1. Credited' = Credited /\ Transferred' = Transferred
  BY DEF Credited, Transferred, Moving
<1> QED BY <1>1 DEF CancelInv, TransferInv, BufferInv, NothingHalfDone, MoneyMovesWhole,
        BufferFreedOnce

\* Every step of the thread and of main keeps the invariant.
LEMMA CancelInductive == CancelInv /\ [CancelNext]_cancelVars => CancelInv'
<1> SUFFICES ASSUME CancelInv, [CancelNext]_cancelVars
             PROVE  CancelInv'
  OBVIOUS
<1>1. CASE ThreadRuns
  BY <1>1, TransferStep, WorkStep DEF ThreadRuns
<1>2. CASE ActOnCancel
  BY <1>2, CancelStep
<1>3. CASE CancelThread \/ JoinThread \/ UNCHANGED cancelVars
  BY <1>3, ThreadUntouched DEF CancelThread, JoinThread, cancelVars
<1> QED BY <1>1, <1>2, <1>3 DEF CancelNext

\* Wherever a thread is when it is cancelled, its money was moved as a whole or not at
\* all (critical-section.c 28-33) and its buffer was freed once (cleanup.c 30-38), for
\* any accounts and amounts; a result of 0 or 1 says which of the two, and that of a
\* cancelled thread says neither.
THEOREM CancelLeavesNothingHalfDone == CancelSpec => []NothingHalfDone
<1>1. CancelInv => NothingHalfDone
  BY DEF CancelInv
<1> QED BY <1>1, CancelStart, CancelInductive, PTL DEF CancelSpec

-----------------------------------------------------------------------------
(* The job queues with a semaphore: finite sets, types, steps.             *)

USE JobQueueAssumption, JobNamesAssumption

\* The threads that are counted are finitely many.
LEMMA CountedFinite ==
  /\ IsFiniteSet(Taking) /\ Cardinality(Taking) \in Nat
  /\ IsFiniteSet(Linked) /\ Cardinality(Linked) \in Nat
<1>1. Taking \subseteq Workers /\ Linked \subseteq Enqueuers
  BY DEF Taking, Linked
<1>2. IsFiniteSet(Taking) /\ IsFiniteSet(Linked)
  BY <1>1, FS_Subset
<1> QED BY <1>2, FS_CardinalityType

\* One more thread, or one thread less, counts as one.
LEMMA CountOneMore ==
  ASSUME NEW S, IsFiniteSet(S), NEW x, x \notin S, NEW T, T = S \cup {x}
  PROVE  Cardinality(T) = Cardinality(S) + 1 /\ Cardinality(S) \in Nat
BY FS_AddElement, FS_CardinalityType

LEMMA CountOneLess ==
  ASSUME NEW S, IsFiniteSet(S), NEW x, x \in S, NEW T, T = S \ {x}
  PROVE  Cardinality(S) = Cardinality(T) + 1 /\ Cardinality(T) \in Nat
BY FS_RemoveElement, FS_CardinalityType, FS_Subset

-----------------------------------------------------------------------------

\* The initial state is well typed.
LEMMA JobTypeInit == JobQueueInit => JobQueueTypeOK
<1> SUFFICES ASSUME JobQueueInit PROVE JobQueueTypeOK
  OBVIOUS
<1>1. <<>> \in Seq(Jobs)
  BY EmptySeq
<1> QED BY <1>1 DEF JobQueueInit, JobQueueTypeOK, Threads, WorkerPc, EnqueuerPc


-----------------------------------------------------------------------------
(* The steps, one lemma each.                                              *)

\* sem_wait: the count goes down, and one more thread is to take a job.
LEMMA SemWaitKeeps ==
  ASSUME JobInv, NEW w \in Workers, SemWait(w)
  PROVE  JobInv'
<1>1. /\ w \in Threads /\ w \notin Enqueuers /\ jobPc[w] = "wait" /\ job_queue_count > 0
      /\ jobPc' = [jobPc EXCEPT ![w] = "lock"] /\ job_queue_count' = job_queue_count - 1
      /\ UNCHANGED <<job_queue, job_queue_mutex, held, waiting, done>>
  BY DEF SemWait, At, Threads
<1>2. JobQueueTypeOK'
  <2>1. job_queue_count \in Nat /\ job_queue_count - 1 \in Nat
    BY <1>1 DEF JobInv, JobQueueTypeOK
  <2>2. job_queue_count' \in Nat
    BY <1>1, <2>1
  <2> QED BY <1>1, <2>2 DEF JobInv, JobQueueTypeOK, WorkerPc, EnqueuerPc
<1>3. QueueMutex'
  BY <1>1 DEF JobInv, JobQueueTypeOK, QueueMutex, Inside
<1>4. HeldMatchesPc'
  BY <1>1 DEF JobInv, JobQueueTypeOK, HeldMatchesPc
<1>5. CountIsOfJobs'
  <2>1. Taking' = Taking \cup {w} /\ w \notin Taking /\ Linked' = Linked
    BY <1>1 DEF JobInv, JobQueueTypeOK, Taking, Linked, Threads
  <2>2. Cardinality(Taking') = Cardinality(Taking) + 1
    BY <2>1, CountedFinite, CountOneMore
  <2> QED
    BY <1>1, <2>1, <2>2, CountedFinite DEF JobInv, JobQueueTypeOK, CountIsOfJobs
<1>6. EachJobInOnePlace'
  BY <1>1 DEF JobInv, EachJobInOnePlace, Holding
<1> QED BY <1>2, <1>3, <1>4, <1>5, <1>6 DEF JobInv

\* A thread gets the mutex when nobody has it.
LEMMA LockKeeps ==
  ASSUME JobInv, NEW t \in Threads, NEW from, NEW to, LockQueue(t, from, to),
         \/ t \in Workers /\ from = "lock" /\ to = "take"
         \/ t \in Enqueuers /\ from = "lock new" /\ to = "link"
  PROVE  JobInv'
<1>1. /\ jobPc[t] = from /\ jobPc' = [jobPc EXCEPT ![t] = to]
      /\ job_queue_mutex = Nobody /\ job_queue_mutex' = t
      /\ UNCHANGED <<job_queue, job_queue_count, held, waiting, done>>
  BY DEF LockQueue, At
<1>2. JobQueueTypeOK'
  BY <1>1 DEF JobInv, JobQueueTypeOK, WorkerPc, EnqueuerPc, Threads
<1>3. QueueMutex'
  <2>1. Inside = {}
    BY <1>1 DEF JobInv, QueueMutex, Inside, Threads
  <2>2. Inside' \subseteq {t}
    BY <1>1, <2>1 DEF JobInv, JobQueueTypeOK, Inside
  <2> QED BY <1>1, <2>2 DEF QueueMutex
<1>4. HeldMatchesPc'
  BY <1>1 DEF JobInv, JobQueueTypeOK, HeldMatchesPc
<1>5. CountIsOfJobs'
  <2>1. Taking' = Taking /\ Linked' = Linked
    BY <1>1 DEF JobInv, JobQueueTypeOK, Taking, Linked, Threads
  <2> QED BY <1>1, <2>1 DEF JobInv, CountIsOfJobs
<1>6. EachJobInOnePlace'
  BY <1>1 DEF JobInv, EachJobInOnePlace, Holding
<1> QED BY <1>2, <1>3, <1>4, <1>5, <1>6 DEF JobInv

\* The thread that has the mutex gives it up.
LEMMA UnlockKeeps ==
  ASSUME JobInv, NEW t \in Threads, NEW from, NEW to, UnlockQueue(t, from, to),
         \/ t \in Workers /\ from = "unlock" /\ to = "process"
         \/ t \in Enqueuers /\ from = "unlock new" /\ to = "new"
  PROVE  JobInv'
<1>1. /\ jobPc[t] = from /\ jobPc' = [jobPc EXCEPT ![t] = to]
      /\ job_queue_mutex' = Nobody
      /\ UNCHANGED <<job_queue, job_queue_count, held, waiting, done>>
  BY DEF UnlockQueue, At
<1>2. JobQueueTypeOK'
  BY <1>1 DEF JobInv, JobQueueTypeOK, WorkerPc, EnqueuerPc, Threads
<1>3. QueueMutex'
  <2>1. t \in Inside
    BY <1>1 DEF Inside
  <2>2. Inside \subseteq {t}
    BY <2>1 DEF JobInv, QueueMutex
  <2>3. ASSUME NEW u \in Threads PROVE u \notin Inside'
    <3>1. CASE u = t
      BY <1>1, <3>1 DEF JobInv, JobQueueTypeOK, Inside
    <3>2. CASE u # t
      BY <1>1, <2>2, <3>2 DEF JobInv, JobQueueTypeOK, Inside
    <3> QED BY <3>1, <3>2
  <2> QED BY <2>3 DEF QueueMutex, Inside
<1>4. HeldMatchesPc'
  BY <1>1 DEF JobInv, JobQueueTypeOK, HeldMatchesPc
<1>5. CountIsOfJobs'
  <2>1. Taking' = Taking /\ Linked' = Linked
    BY <1>1 DEF JobInv, JobQueueTypeOK, Taking, Linked, Threads
  <2> QED BY <1>1, <2>1 DEF JobInv, CountIsOfJobs
<1>6. EachJobInOnePlace'
  BY <1>1 DEF JobInv, EachJobInOnePlace, Holding
<1> QED BY <1>2, <1>3, <1>4, <1>5, <1>6 DEF JobInv

\* The job at the head of the list goes to the worker that has the mutex.
LEMMA TakeKeeps ==
  ASSUME JobInv, NEW w \in Workers, TakeJob(w)
  PROVE  JobInv'
<1>1. /\ w \in Threads /\ w \notin Enqueuers /\ jobPc[w] = "take" /\ job_queue # <<>>
      /\ jobPc' = [jobPc EXCEPT ![w] = "unlock"]
      /\ held' = [held EXCEPT ![w] = job_queue[1]] /\ job_queue' = Tail(job_queue)
      /\ UNCHANGED <<job_queue_count, job_queue_mutex, waiting, done>>
  BY DEF TakeJob, At, Threads
<1>2. /\ job_queue \in Seq(Jobs) /\ Len(job_queue) \in Nat /\ 1 \in 1 .. Len(job_queue)
      /\ job_queue[1] \in Jobs /\ Tail(job_queue) \in Seq(Jobs)
      /\ Len(job_queue') = Len(job_queue) - 1
      /\ \A i \in 1 .. Len(job_queue') :
           i + 1 \in 1 .. Len(job_queue) /\ job_queue'[i] = job_queue[i + 1]
  BY <1>1, HeadTailProperties DEF JobInv, JobQueueTypeOK
<1>3. JobQueueTypeOK'
  BY <1>1, <1>2 DEF JobInv, JobQueueTypeOK, WorkerPc, EnqueuerPc
<1>4. QueueMutex'
  BY <1>1 DEF JobInv, JobQueueTypeOK, QueueMutex, Inside
<1>5. HeldMatchesPc'
  BY <1>1, <1>2 DEF JobInv, JobQueueTypeOK, HeldMatchesPc
<1>6. CountIsOfJobs'
  <2>1. Taking' = Taking \ {w} /\ w \in Taking /\ Linked' = Linked
    BY <1>1 DEF JobInv, JobQueueTypeOK, Taking, Linked, Threads
  <2>2. Cardinality(Taking) = Cardinality(Taking') + 1 /\ Cardinality(Taking') \in Nat
    BY <2>1, CountedFinite, CountOneLess
  <2> QED
    BY <1>1, <1>2, <2>1, <2>2, CountedFinite DEF JobInv, JobQueueTypeOK, CountIsOfJobs
<1>7. EachJobInOnePlace'
  <2>1. w \notin Holding /\ Holding' = Holding \cup {w}
    BY <1>1, <1>2 DEF JobInv, JobQueueTypeOK, HeldMatchesPc, Holding
  <2>2. held'[w] = job_queue[1] /\ \A t \in Holding : held'[t] = held[t] /\ t # w
    BY <1>1, <2>1 DEF JobInv, JobQueueTypeOK, Holding
  <2>3. \A t, u \in Holding' : t # u => held'[t] # held'[u]
    BY <1>2, <2>1, <2>2 DEF JobInv, EachJobInOnePlace
  <2>4. \A i, k \in 1 .. Len(job_queue') : i # k => job_queue'[i] # job_queue'[k]
    BY <1>2 DEF JobInv, EachJobInOnePlace
  <2>5. \A i \in 1 .. Len(job_queue'), t \in Holding' : held'[t] # job_queue'[i]
    <3>1. ASSUME NEW i \in 1 .. Len(job_queue') PROVE held'[w] # job_queue'[i]
      BY <1>2, <2>2, <3>1 DEF JobInv, EachJobInOnePlace
    <3>2. ASSUME NEW i \in 1 .. Len(job_queue'), NEW t \in Holding
          PROVE  held'[t] # job_queue'[i]
      BY <1>2, <2>2, <3>2 DEF JobInv, EachJobInOnePlace
    <3> QED BY <2>1, <3>1, <3>2
  <2>6. \A i \in 1 .. Len(job_queue') : job_queue'[i] \notin waiting' \cup done'
    BY <1>1, <1>2 DEF JobInv, EachJobInOnePlace
  <2>7. \A t \in Holding' : held'[t] \notin waiting' \cup done'
    BY <1>1, <1>2, <2>1, <2>2 DEF JobInv, EachJobInOnePlace
  <2>8. waiting' \cap done' = {}
    BY <1>1 DEF JobInv, EachJobInOnePlace
  <2> QED BY <2>3, <2>4, <2>5, <2>6, <2>7, <2>8 DEF EachJobInOnePlace
<1> QED BY <1>3, <1>4, <1>5, <1>6, <1>7 DEF JobInv

\* A worker processes and frees its job.
LEMMA ProcessKeeps ==
  ASSUME JobInv, NEW w \in Workers, ProcessJob(w)
  PROVE  JobInv'
<1>1. /\ w \in Threads /\ w \notin Enqueuers /\ jobPc[w] = "process"
      /\ jobPc' = [jobPc EXCEPT ![w] = "wait"]
      /\ done' = done \cup {held[w]} /\ held' = [held EXCEPT ![w] = NoJob]
      /\ UNCHANGED <<job_queue, job_queue_count, job_queue_mutex, waiting>>
  BY DEF ProcessJob, At, Threads
<1>2. held[w] \in Jobs /\ w \in Holding
  BY <1>1 DEF JobInv, JobQueueTypeOK, HeldMatchesPc, Holding
<1>3. JobQueueTypeOK'
  BY <1>1, <1>2 DEF JobInv, JobQueueTypeOK, WorkerPc, EnqueuerPc
<1>4. QueueMutex'
  BY <1>1 DEF JobInv, JobQueueTypeOK, QueueMutex, Inside
<1>5. HeldMatchesPc'
  BY <1>1 DEF JobInv, JobQueueTypeOK, HeldMatchesPc
<1>6. CountIsOfJobs'
  <2>1. Taking' = Taking /\ Linked' = Linked
    BY <1>1 DEF JobInv, JobQueueTypeOK, Taking, Linked, Threads
  <2> QED BY <1>1, <2>1 DEF JobInv, CountIsOfJobs
<1>7. EachJobInOnePlace'
  <2>1. Holding' = Holding \ {w} /\ \A t \in Holding' : held'[t] = held[t]
    BY <1>1 DEF JobInv, JobQueueTypeOK, Holding
  <2> QED BY <1>1, <1>2, <2>1 DEF JobInv, EachJobInOnePlace
<1> QED BY <1>3, <1>4, <1>5, <1>6, <1>7 DEF JobInv

\* A new job is allocated.
LEMMA NewJobKeeps ==
  ASSUME JobInv, NEW e \in Enqueuers, NewJob(e)
  PROVE  JobInv'
<1>1. PICK j \in waiting : held' = [held EXCEPT ![e] = j] /\ waiting' = waiting \ {j}
  BY DEF NewJob
<1>2. /\ e \in Threads /\ e \notin Workers /\ jobPc[e] = "new"
      /\ jobPc' = [jobPc EXCEPT ![e] = "lock new"]
      /\ UNCHANGED <<job_queue, job_queue_count, job_queue_mutex, done>>
  BY DEF NewJob, At, Threads
<1>3. j \in Jobs /\ e \notin Holding
  BY <1>1, <1>2 DEF JobInv, JobQueueTypeOK, HeldMatchesPc, Holding
<1>4. JobQueueTypeOK'
  BY <1>1, <1>2, <1>3 DEF JobInv, JobQueueTypeOK, WorkerPc, EnqueuerPc
<1>5. QueueMutex'
  BY <1>2 DEF JobInv, JobQueueTypeOK, QueueMutex, Inside
<1>6. HeldMatchesPc'
  BY <1>1, <1>2, <1>3 DEF JobInv, JobQueueTypeOK, HeldMatchesPc
<1>7. CountIsOfJobs'
  <2>1. Taking' = Taking /\ Linked' = Linked
    BY <1>2 DEF JobInv, JobQueueTypeOK, Taking, Linked, Threads
  <2> QED BY <1>2, <2>1 DEF JobInv, CountIsOfJobs
<1>8. EachJobInOnePlace'
  <2>1. /\ Holding' = Holding \cup {e} /\ held'[e] = j
        /\ \A t \in Holding : held'[t] = held[t] /\ t # e
    BY <1>1, <1>2, <1>3 DEF JobInv, JobQueueTypeOK, Holding
  <2>2. \A t \in Holding : held[t] # j /\ held[t] \notin waiting \cup done
    BY DEF JobInv, EachJobInOnePlace
  <2>3. \A t, u \in Holding' : t # u => held'[t] # held'[u]
    BY <2>1, <2>2 DEF JobInv, EachJobInOnePlace
  <2>4. \A i \in 1 .. Len(job_queue), t \in Holding' : held'[t] # job_queue[i]
    BY <2>1 DEF JobInv, EachJobInOnePlace
  <2>5. j \notin done /\ j \notin waiting'
    BY <1>1 DEF JobInv, EachJobInOnePlace
  <2>6. \A t \in Holding' : held'[t] \notin waiting' \cup done
    BY <1>1, <2>1, <2>2, <2>5
  <2> QED BY <1>1, <1>2, <2>3, <2>4, <2>6 DEF JobInv, EachJobInOnePlace
<1> QED BY <1>4, <1>5, <1>6, <1>7, <1>8 DEF JobInv

\* The new job becomes the head of the list, and is to be counted.
LEMMA LinkKeeps ==
  ASSUME JobInv, NEW e \in Enqueuers, LinkJob(e)
  PROVE  JobInv'
<1>1. /\ e \in Threads /\ e \notin Workers /\ jobPc[e] = "link"
      /\ jobPc' = [jobPc EXCEPT ![e] = "post"]
      /\ job_queue' = <<held[e]>> \o job_queue /\ held' = [held EXCEPT ![e] = NoJob]
      /\ UNCHANGED <<job_queue_count, job_queue_mutex, waiting, done>>
  BY DEF LinkJob, At, Threads
<1>2. held[e] \in Jobs /\ e \in Holding
  BY <1>1 DEF JobInv, JobQueueTypeOK, HeldMatchesPc, Holding
<1>3. /\ job_queue \in Seq(Jobs) /\ Len(job_queue) \in Nat /\ job_queue' \in Seq(Jobs)
      /\ Len(job_queue') = Len(job_queue) + 1 /\ job_queue'[1] = held[e]
      /\ \A i \in 2 .. Len(job_queue') :
           i - 1 \in 1 .. Len(job_queue) /\ job_queue'[i] = job_queue[i - 1]
  BY <1>1, <1>2 DEF JobInv, JobQueueTypeOK
<1>4. JobQueueTypeOK'
  BY <1>1, <1>3 DEF JobInv, JobQueueTypeOK, WorkerPc, EnqueuerPc
<1>5. QueueMutex'
  BY <1>1 DEF JobInv, JobQueueTypeOK, QueueMutex, Inside
<1>6. HeldMatchesPc'
  BY <1>1 DEF JobInv, JobQueueTypeOK, HeldMatchesPc
<1>7. CountIsOfJobs'
  <2>1. Linked' = Linked \cup {e} /\ e \notin Linked /\ Taking' = Taking
    BY <1>1 DEF JobInv, JobQueueTypeOK, Taking, Linked, Threads
  <2>2. Cardinality(Linked') = Cardinality(Linked) + 1
    BY <2>1, CountedFinite, CountOneMore
  <2> QED
    BY <1>1, <1>3, <2>1, <2>2, CountedFinite DEF JobInv, JobQueueTypeOK, CountIsOfJobs
<1>8. EachJobInOnePlace'
  <2>1. Holding' = Holding \ {e} /\ \A t \in Holding' : held'[t] = held[t]
    BY <1>1 DEF JobInv, JobQueueTypeOK, Holding
  <2>2. \A i \in 1 .. Len(job_queue') : i = 1 \/ i \in 2 .. Len(job_queue')
    BY <1>3
  <2>3. \A t, u \in Holding' : t # u => held'[t] # held'[u]
    BY <2>1 DEF JobInv, EachJobInOnePlace
  <2>4. \A i, k \in 1 .. Len(job_queue') : i # k => job_queue'[i] # job_queue'[k]
    <3>1. \A i \in 2 .. Len(job_queue') :
            job_queue'[i] # job_queue'[1] /\ job_queue'[1] # job_queue'[i]
      <4>1. \A i \in 1 .. Len(job_queue) : held[e] # job_queue[i]
        BY <1>2 DEF JobInv, EachJobInOnePlace
      <4> QED BY <1>3, <4>1
    <3>2. \A i, k \in 2 .. Len(job_queue') : i # k => job_queue'[i] # job_queue'[k]
      <4> SUFFICES ASSUME NEW i \in 2 .. Len(job_queue'), NEW k \in 2 .. Len(job_queue'),
                          i # k
                   PROVE  job_queue'[i] # job_queue'[k]
        OBVIOUS
      <4>1. /\ i - 1 \in 1 .. Len(job_queue) /\ k - 1 \in 1 .. Len(job_queue)
            /\ i - 1 # k - 1
        BY <1>3
      <4>2. job_queue[i - 1] # job_queue[k - 1]
        BY <4>1 DEF JobInv, EachJobInOnePlace
      <4> QED BY <1>3, <4>2
    <3> QED BY <2>2, <3>1, <3>2
  <2>5. \A i \in 1 .. Len(job_queue'), t \in Holding' : held'[t] # job_queue'[i]
    <3>1. \A t \in Holding' : held'[t] # job_queue'[1]
      BY <1>2, <1>3, <2>1 DEF JobInv, EachJobInOnePlace
    <3>2. \A i \in 2 .. Len(job_queue'), t \in Holding' : held'[t] # job_queue'[i]
      BY <1>3, <2>1 DEF JobInv, EachJobInOnePlace
    <3> QED BY <2>2, <3>1, <3>2
  <2>6. \A i \in 1 .. Len(job_queue') : job_queue'[i] \notin waiting' \cup done'
    <3>1. job_queue'[1] \notin waiting' \cup done'
      BY <1>1, <1>2, <1>3 DEF JobInv, EachJobInOnePlace
    <3>2. \A i \in 2 .. Len(job_queue') : job_queue'[i] \notin waiting' \cup done'
      BY <1>1, <1>3 DEF JobInv, EachJobInOnePlace
    <3> QED BY <2>2, <3>1, <3>2
  <2>7. \A t \in Holding' : held'[t] \notin waiting' \cup done'
    BY <1>1, <2>1 DEF JobInv, EachJobInOnePlace
  <2>8. waiting' \cap done' = {}
    BY <1>1 DEF JobInv, EachJobInOnePlace
  <2> QED BY <2>3, <2>4, <2>5, <2>6, <2>7, <2>8 DEF EachJobInOnePlace
<1> QED BY <1>4, <1>5, <1>6, <1>7, <1>8 DEF JobInv

\* sem_post: the job in the list is counted.
LEMMA PostKeeps ==
  ASSUME JobInv, NEW e \in Enqueuers, SemPost(e)
  PROVE  JobInv'
<1>1. /\ e \in Threads /\ e \notin Workers /\ jobPc[e] = "post"
      /\ jobPc' = [jobPc EXCEPT ![e] = "unlock new"]
      /\ job_queue_count' = job_queue_count + 1
      /\ UNCHANGED <<job_queue, job_queue_mutex, held, waiting, done>>
  BY DEF SemPost, At, Threads
<1>2. job_queue_count \in Nat /\ job_queue_count' \in Nat
  <2>1. job_queue_count \in Nat
    BY DEF JobInv, JobQueueTypeOK
  <2>2. job_queue_count' = job_queue_count + 1
    BY <1>1
  <2> QED BY <2>1, <2>2
<1>3. JobQueueTypeOK'
  BY <1>1, <1>2 DEF JobInv, JobQueueTypeOK, WorkerPc, EnqueuerPc
<1>4. QueueMutex'
  BY <1>1 DEF JobInv, JobQueueTypeOK, QueueMutex, Inside
<1>5. HeldMatchesPc'
  BY <1>1 DEF JobInv, JobQueueTypeOK, HeldMatchesPc
<1>6. CountIsOfJobs'
  <2>1. Linked' = Linked \ {e} /\ e \in Linked /\ Taking' = Taking
    BY <1>1 DEF JobInv, JobQueueTypeOK, Taking, Linked, Threads
  <2>2. Cardinality(Linked) = Cardinality(Linked') + 1 /\ Cardinality(Linked') \in Nat
    BY <2>1, CountedFinite, CountOneLess
  <2>3. Len(job_queue) = job_queue_count + Cardinality(Taking) + Cardinality(Linked)
    BY DEF JobInv, CountIsOfJobs
  <2>4. Len(job_queue) = (job_queue_count + 1) + Cardinality(Taking) + Cardinality(Linked')
    BY <1>2, <2>2, <2>3, CountedFinite
  <2> QED BY <1>1, <2>1, <2>4 DEF CountIsOfJobs
<1>7. EachJobInOnePlace'
  BY <1>1 DEF JobInv, EachJobInOnePlace, Holding
<1> QED BY <1>3, <1>4, <1>5, <1>6, <1>7 DEF JobInv

-----------------------------------------------------------------------------
(* The theorems.                                                           *)

\* No thread has the mutex or a job at the start, and the list is empty.
LEMMA JobInvInit == JobQueueInit => JobInv
<1> SUFFICES ASSUME JobQueueInit PROVE JobInv
  OBVIOUS
<1>1. JobQueueTypeOK
  BY JobTypeInit
<1>2. QueueMutex /\ HeldMatchesPc
  BY DEF JobQueueInit, QueueMutex, Inside, HeldMatchesPc, Threads
<1>3. CountIsOfJobs
  <2>1. Taking = {} /\ Linked = {}
    BY DEF JobQueueInit, Taking, Linked, Threads
  <2> QED BY <2>1, FS_EmptySet DEF JobQueueInit, CountIsOfJobs
<1>4. EachJobInOnePlace
  BY DEF JobQueueInit, EachJobInOnePlace, Holding
<1> QED BY <1>1, <1>2, <1>3, <1>4 DEF JobInv

\* Every step keeps the inductive invariant.
LEMMA JobInvNext == JobInv /\ [JobQueueNext]_jobQueueVars => JobInv'
<1> SUFFICES ASSUME JobInv, [JobQueueNext]_jobQueueVars PROVE JobInv'
  OBVIOUS
<1>1. ASSUME NEW w \in Workers, WorkerStep(w) PROVE JobInv'
  BY <1>1, SemWaitKeeps, LockKeeps, TakeKeeps, UnlockKeeps, ProcessKeeps
  DEF WorkerStep, Threads
<1>2. ASSUME NEW e \in Enqueuers, EnqueuerStep(e) PROVE JobInv'
  BY <1>2, NewJobKeeps, LockKeeps, LinkKeeps, PostKeeps, UnlockKeeps
  DEF EnqueuerStep, Threads
<1>3. CASE UNCHANGED jobQueueVars
  BY <1>3 DEF jobQueueVars, JobInv, JobQueueTypeOK, QueueMutex, HeldMatchesPc, CountIsOfJobs,
              EachJobInOnePlace, Inside, Holding, Taking, Linked
<1> QED BY <1>1, <1>2, <1>3 DEF JobQueueNext

\* The inductive invariant holds in every behaviour.
THEOREM JobInvariance == JobQueueSpec => []JobInv
BY JobInvInit, JobInvNext, PTL DEF JobQueueSpec

\* The variables have their types in every behaviour, with any number of threads.
THEOREM JobQueueTypes == JobQueueSpec => []JobQueueTypeOK
<1>1. JobInv => JobQueueTypeOK
  BY DEF JobInv
<1> QED BY <1>1, JobInvariance, PTL

\* Only the thread that has the mutex works on the list.
THEOREM ListIsGuarded == JobQueueSpec => []QueueMutex
<1>1. JobInv => QueueMutex
  BY DEF JobInv
<1> QED BY <1>1, JobInvariance, PTL

\* The list has a job for every unit of the semaphore, for every thread that has
\* passed sem_wait, and for every job not yet posted.
THEOREM SemaphoreCountsJobs == JobQueueSpec => []CountIsOfJobs
<1>1. JobInv => CountIsOfJobs
  BY DEF JobInv
<1> QED BY <1>1, JobInvariance, PTL

\* The comment of the code at line 54: after sem_wait the queue is not empty.
THEOREM QueueIsNotEmpty == JobQueueSpec => []QueueNotEmptyAfterWait
<1>1. JobInv => QueueNotEmptyAfterWait
  <2> SUFFICES ASSUME JobInv, NEW w \in Workers, jobPc[w] = "take", job_queue = <<>>
               PROVE  FALSE
    BY DEF QueueNotEmptyAfterWait
  <2>1. w \in Taking
    BY DEF Taking
  <2>2. Cardinality(Taking) # 0
    BY <2>1, CountedFinite, FS_EmptySet
  <2> QED BY <2>2, CountedFinite DEF JobInv, JobQueueTypeOK, CountIsOfJobs
<1> QED BY <1>1, JobInvariance, PTL

\* No two threads process, free or link the same job, and none is lost.
THEOREM JobsAreNotShared == JobQueueSpec => []EachJobInOnePlace
<1>1. JobInv => EachJobInOnePlace
  BY DEF JobInv
<1> QED BY <1>1, JobInvariance, PTL

-----------------------------------------------------------------------------
(* Threads and their main.                                                 *)

BasicsTypeOK ==
  /\ example \in Examples
  /\ threadAt \in [ThreadIds -> {"none", "start", "work", "ended"}]
  /\ thread_arg \in [ThreadIds -> Int] /\ my_number \in [ThreadIds -> Int]
  /\ effect \in [ThreadIds -> BOOLEAN]
  /\ lots_of_threads \in 1 .. ThreadCount

\* How far main is with the threads it joins.
JoinedSoFar ==
  /\ mainAt \in {"create", "turn", "flag", "join", "exit"}
  /\ mainAt = "flag" => ThreadCount = 1
  /\ mainAt = "turn" => example = "thread2" /\ lots_of_threads = 1
  /\ mainAt = "join" => \A t \in 1 .. ThreadCount :
       (IF example = "thread8a" THEN t > lots_of_threads ELSE t < lots_of_threads)
         => threadAt[t] = "ended"
  /\ mainAt = "exit" => \A t \in 1 .. ThreadCount : effect[t]

\* What a thread has of its argument and has done at each place.
ThreadAtPlace ==
  \A t \in ThreadIds :
    /\ threadAt[t] # "none" => thread_arg[t] = t
    /\ threadAt[t] = "ended" => effect[t]
    /\ example = "thread8a" /\ threadAt[t] \in {"work", "ended"} => my_number[t] = t

\* Whose turn it is follows from what was printed.
TurnFollows ==
  /\ said \in Seq({1, 2}) /\ run_now = (IF Len(said) % 2 = 0 THEN 1 ELSE 2)
  /\ TurnsAlternate

BasicsInv == BasicsTypeOK /\ JoinedSoFar /\ ThreadAtPlace /\ TurnFollows

\* The threads of each program have an identifier.
LEMMA ThreadCounts ==
  ASSUME example \in Examples
  PROVE  /\ ThreadCount \in Nat \ {0} /\ 1 .. ThreadCount \subseteq ThreadIds
         /\ example \in {"thread2", "thread5"} => ThreadCount = 1
BY ThreadBasicsAssumption DEF Examples, ThreadCount, ThreadIds

\* The number of threads is that of the program, which does not change.
LEMMA SameCount == example' = example => ThreadCount' = ThreadCount
BY DEF ThreadCount

\* At the start there is no thread.
LEMMA BasicsStart == BasicsInit => BasicsInv
<1> SUFFICES ASSUME BasicsInit PROVE BasicsInv
  OBVIOUS
<1>1. BasicsTypeOK
  BY ThreadCounts DEF BasicsInit, BasicsTypeOK
<1>2. said \in Seq({1, 2}) /\ Len(said) = 0 /\ run_now = 1
  BY EmptySeq DEF BasicsInit
<1>3. TurnFollows
  BY <1>2 DEF TurnFollows, TurnsAlternate
<1> QED BY <1>1, <1>3 DEF BasicsInit, BasicsInv, JoinedSoFar, ThreadAtPlace

\* The steps that leave thread2.c's variables alone.
LEMMA TurnKept ==
  ASSUME TurnFollows, UNCHANGED TurnVars
  PROVE  TurnFollows'
BY DEF TurnFollows, TurnVars, TurnsAlternate

\* main's steps.
LEMMA BasicsMainStep ==
  ASSUME BasicsInv, CreateThread \/ JoinThreads \/ WaitForFlag
  PROVE  BasicsInv'
<1> USE DEF BasicsInv
<1>0. BasicsTypeOK /\ JoinedSoFar /\ ThreadAtPlace
  OBVIOUS
<1>1. /\ UNCHANGED <<example, my_number, effect>> /\ TurnFollows'
      /\ ThreadCount' = ThreadCount
  BY TurnKept, SameCount DEF CreateThread, JoinThreads, WaitForFlag, ThreadVars
<1>2. /\ ThreadCount \in Nat \ {0} /\ 1 .. ThreadCount \subseteq ThreadIds
      /\ example \in {"thread2", "thread5"} => ThreadCount = 1
      /\ lots_of_threads \in 1 .. ThreadCount
  BY ThreadCounts DEF BasicsTypeOK
<1>3. CASE CreateThread
  <2>1. /\ threadAt' = [threadAt EXCEPT ![lots_of_threads] = "start"]
        /\ thread_arg' = [thread_arg EXCEPT ![lots_of_threads] = lots_of_threads]
        /\ lots_of_threads \in ThreadIds
    BY <1>2, <1>3 DEF CreateThread
  <2>2. \A t \in ThreadIds :
          IF t = lots_of_threads THEN threadAt'[t] = "start" /\ thread_arg'[t] = t
          ELSE threadAt'[t] = threadAt[t] /\ thread_arg'[t] = thread_arg[t]
    BY <2>1 DEF BasicsTypeOK
  <2>3. lots_of_threads' \in 1 .. ThreadCount
    BY <1>2, <1>3 DEF CreateThread
  <2>4. BasicsTypeOK'
    BY <1>0, <1>1, <2>1, <2>3 DEF BasicsTypeOK, ThreadIds
  <2>5. ThreadAtPlace'
    BY <1>0, <1>1, <2>2 DEF ThreadAtPlace
  <2>6. CASE mainAt' = "create"
    BY <1>1, <2>4, <2>5, <2>6 DEF JoinedSoFar
  <2>7. CASE mainAt' # "create"
    <3>1. /\ ~(lots_of_threads < ThreadCount)
          /\ mainAt' = (CASE example = "thread2" -> "turn" [] example = "thread5" -> "flag"
                          [] OTHER -> "join")
          /\ lots_of_threads' = (IF example = "thread8a" THEN lots_of_threads ELSE 1)
      BY <1>3, <2>7 DEF CreateThread
    <3>2. lots_of_threads = ThreadCount
      BY <1>2, <3>1
    <3>3. \A t \in 1 .. ThreadCount :
            ~(IF example = "thread8a" THEN t > lots_of_threads' ELSE t < lots_of_threads')
      BY <1>2, <3>1, <3>2
    <3>4. JoinedSoFar'
      BY <1>1, <1>2, <3>1, <3>3 DEF JoinedSoFar
    <3> QED BY <1>1, <2>4, <2>5, <3>4
  <2> QED BY <2>6, <2>7
<1>4. CASE JoinThreads
  <2>1. /\ mainAt = "join" /\ threadAt[lots_of_threads] = "ended"
        /\ UNCHANGED <<threadAt, thread_arg>>
    BY <1>4 DEF JoinThreads, ThreadVars
  <2>2. ThreadAtPlace'
    BY <1>0, <1>1, <2>1 DEF ThreadAtPlace
  <2>3. CASE lots_of_threads = IF example = "thread8a" THEN 1 ELSE ThreadCount
    <3>1. mainAt' = "exit" /\ lots_of_threads' = lots_of_threads
      BY <1>4, <2>3 DEF JoinThreads
    <3>2. \A t \in 1 .. ThreadCount : threadAt[t] = "ended"
      BY <1>0, <1>2, <2>1, <2>3 DEF JoinedSoFar
    <3>3. \A t \in 1 .. ThreadCount : effect[t]
      BY <1>0, <1>2, <3>2 DEF ThreadAtPlace
    <3> QED BY <1>0, <1>1, <2>1, <2>2, <3>1, <3>3 DEF BasicsTypeOK, JoinedSoFar
  <2>4. CASE lots_of_threads # IF example = "thread8a" THEN 1 ELSE ThreadCount
    <3>1. /\ mainAt' = mainAt
          /\ lots_of_threads' = lots_of_threads + (IF example = "thread8a" THEN -1 ELSE 1)
      BY <1>4, <2>4 DEF JoinThreads
    <3>2. lots_of_threads' \in 1 .. ThreadCount
      BY <1>2, <2>4, <3>1
    <3>3. JoinedSoFar'
      BY <1>0, <1>1, <1>2, <2>1, <3>1 DEF JoinedSoFar
    <3> QED BY <1>0, <1>1, <2>1, <2>2, <3>2, <3>3 DEF BasicsTypeOK
  <2> QED BY <2>3, <2>4
<1>5. CASE WaitForFlag
  <2>1. /\ mainAt = "flag" /\ effect[1] /\ mainAt' = "exit"
        /\ UNCHANGED <<threadAt, thread_arg, lots_of_threads>>
    BY <1>5 DEF WaitForFlag, ThreadVars
  <2>2. JoinedSoFar'
    BY <1>0, <1>1, <2>1 DEF JoinedSoFar
  <2> QED BY <1>0, <1>1, <2>1, <2>2 DEF BasicsTypeOK, ThreadAtPlace
<1> QED BY <1>3, <1>4, <1>5

\* The steps of a thread function: what has ended stays ended, and so does
\* what it has left.
LEMMA ThreadMoves ==
  ASSUME BasicsInv, NEW t \in ThreadIds, StartThread(t) \/ PrintChar(t) \/ EndThread(t)
  PROVE  BasicsInv'
<1> USE DEF BasicsInv
<1>0. BasicsTypeOK /\ JoinedSoFar /\ ThreadAtPlace
  OBVIOUS
<1>1. /\ UNCHANGED <<example, mainAt, lots_of_threads, thread_arg>> /\ TurnFollows'
      /\ ThreadCount' = ThreadCount
  BY TurnKept, SameCount DEF StartThread, PrintChar, EndThread
<1>2. ThreadCount \in Nat \ {0} /\ 1 .. ThreadCount \subseteq ThreadIds
  BY ThreadCounts DEF BasicsTypeOK
<1>3. BasicsTypeOK'
  <2>1. CASE StartThread(t)
    BY <1>0, <1>1, <2>1 DEF BasicsTypeOK, StartThread
  <2>2. CASE PrintChar(t)
    BY <1>0, <1>1, <2>2 DEF BasicsTypeOK, PrintChar
  <2>3. CASE EndThread(t)
    BY <1>0, <1>1, <2>3 DEF BasicsTypeOK, EndThread
  <2> QED BY <2>1, <2>2, <2>3
<1>4. \A u \in ThreadIds : /\ threadAt[u] = "ended" => threadAt'[u] = "ended"
                           /\ effect[u] => effect'[u]
  BY <1>0 DEF BasicsTypeOK, StartThread, PrintChar, EndThread
<1>5. JoinedSoFar'
  BY <1>0, <1>1, <1>2, <1>4 DEF JoinedSoFar
<1>6. ThreadAtPlace'
  BY <1>0, <1>1 DEF BasicsTypeOK, ThreadAtPlace, StartThread, PrintChar, EndThread
<1> QED BY <1>1, <1>3, <1>5, <1>6

\* The element after the last one, and the parity of the length.
LEMMA SaidNext ==
  ASSUME NEW s \in Seq({1, 2}), NEW w \in {1, 2}
  PROVE  /\ Append(s, w) \in Seq({1, 2}) /\ Len(Append(s, w)) = Len(s) + 1 /\ Len(s) \in Nat
         /\ Append(s, w)[Len(s) + 1] = w
         /\ \A k \in 1 .. Len(s) : Append(s, w)[k] = s[k]
OBVIOUS

\* A try of one of the loops of thread2.c.
LEMMA TurnStep ==
  ASSUME BasicsInv, NEW w \in {1, 2}, Turn(w)
  PROVE  BasicsInv'
<1> USE DEF BasicsInv
<1>0. BasicsTypeOK /\ JoinedSoFar /\ ThreadAtPlace /\ TurnFollows
  OBVIOUS
<1>1. /\ UNCHANGED <<example, lots_of_threads, thread_arg, my_number>> /\ example = "thread2"
      /\ ThreadCount' = ThreadCount
  BY SameCount DEF Turn
<1>2. ThreadCount = 1 /\ 1 \in ThreadIds
  BY <1>0, <1>1, ThreadCounts DEF BasicsTypeOK
<1>3. BasicsTypeOK'
  BY <1>0, <1>1, <1>2 DEF BasicsTypeOK, ThreadIds, Turn
<1>4. \A u \in ThreadIds : /\ threadAt[u] = "ended" => threadAt'[u] = "ended"
                           /\ effect[u] => effect'[u]
                           /\ threadAt'[u] # "none" => threadAt[u] # "none"
                           /\ threadAt'[u] = "ended" => threadAt[u] = "ended" \/ effect'[u]
  BY <1>0 DEF BasicsTypeOK, Turn
<1>5. mainAt' = mainAt \/ (mainAt = "turn" /\ mainAt' = "join")
  BY DEF Turn
<1>6. JoinedSoFar'
  BY <1>0, <1>1, <1>2, <1>4, <1>5 DEF JoinedSoFar
<1>7. ThreadAtPlace'
  BY <1>0, <1>1, <1>4 DEF ThreadAtPlace
<1>8. TurnFollows'
  <2>1. CASE UNCHANGED TurnVars
    BY <1>0, <2>1, TurnKept
  <2>2. CASE run_now = w /\ said' = Append(said, w) /\ run_now' = 3 - w
    <3>1. said \in Seq({1, 2}) /\ Len(said) \in Nat
      BY <1>0, SaidNext DEF TurnFollows
    <3>2. /\ said' \in Seq({1, 2}) /\ Len(said') = Len(said) + 1
          /\ said'[Len(said) + 1] = w
          /\ \A k \in 1 .. Len(said) : said'[k] = said[k]
      BY <2>2, <3>1, SaidNext
    <3>3. w = (IF Len(said) % 2 = 0 THEN 1 ELSE 2)
      BY <1>0, <2>2 DEF TurnFollows
    <3>4. run_now' = (IF Len(said') % 2 = 0 THEN 1 ELSE 2)
      BY <2>2, <3>1, <3>2, <3>3
    <3>5. w = (IF (Len(said) + 1) % 2 = 1 THEN 1 ELSE 2)
      BY <3>1, <3>3
    <3>6. TurnsAlternate'
      BY <1>0, <3>1, <3>2, <3>5 DEF TurnFollows, TurnsAlternate
    <3> QED BY <3>2, <3>4, <3>6 DEF TurnFollows
  <2>3. CASE run_now # w /\ UNCHANGED <<run_now, said>>
    BY <1>0, <2>3 DEF TurnFollows, TurnsAlternate
  <2> QED BY <2>1, <2>2, <2>3 DEF Turn
<1> QED BY <1>3, <1>6, <1>7, <1>8

\* Every step of the examples keeps the invariant.
LEMMA BasicsInductive == BasicsInv /\ [BasicsNext]_basicVars => BasicsInv'
<1> SUFFICES ASSUME BasicsInv, [BasicsNext]_basicVars
             PROVE  BasicsInv'
  OBVIOUS
<1>1. CASE BasicsNext
  BY <1>1, BasicsMainStep, ThreadMoves, TurnStep DEF BasicsNext
<1>2. CASE UNCHANGED basicVars
  <2>1. TurnFollows' /\ ThreadCount' = ThreadCount
    BY <1>2, TurnKept, SameCount DEF basicVars, BasicsInv, TurnVars
  <2> QED BY <1>2, <2>1 DEF basicVars, BasicsInv, BasicsTypeOK, JoinedSoFar, ThreadAtPlace
<1> QED BY <1>1, <1>2

\* A set of natural numbers that is not empty has a least one.
LEMMA LeastNat ==
  ASSUME NEW T, T \subseteq Nat, T # {}
  PROVE  \E x \in T : \A y \in T : x <= y
<1>1. PICK x \in T : \A y \in T : <<y, x>> \notin OpToRel(<, Nat)
  BY WFMin, NatLessThanWellFounded
<1>2. \A y \in T : ~(y < x)
  BY <1>1 DEF OpToRel
<1> QED BY <1>2

\* What a division leaves.
LEMMA DivRem ==
  ASSUME NEW n \in Nat, NEW d \in Nat \ {0}
  PROVE  /\ n % d \in 0 .. d - 1 /\ n \div d \in Nat
         /\ n = d * (n \div d) + (n % d)
OBVIOUS

\* A remainder that is a multiple of the divisor is 0.
LEMMA Unique ==
  ASSUME NEW d \in Nat \ {0}, NEW e \in Int, NEW r \in 0 .. d - 1, d * e = r
  PROVE  r = 0
<1>1. CASE e >= 1
  <2>1. d * e >= d
    BY <1>1
  <2> QED BY <2>1
<1>2. CASE e <= -1
  <2>1. d * e <= -d
    BY <1>2
  <2> QED BY <2>1
<1> QED BY <1>1, <1>2

\* A multiple leaves nothing.
LEMMA Multiple ==
  ASSUME NEW d \in Nat \ {0}, NEW k \in Nat
  PROVE  (d * k) % d = 0
<1> DEFINE n == d * k
<1>1. n \in Nat
  OBVIOUS
<1>2. PICK q \in Nat, r \in 0 .. d - 1 : n = d * q + r /\ r = n % d
  <2> HIDE DEF n
  <2> QED BY <1>1, DivRem
<1>3. d * (k - q) = r /\ k - q \in Int
  BY <1>2
<1> QED BY <1>2, <1>3, Unique

\* A number that leaves nothing is a multiple.
LEMMA Divisor ==
  ASSUME NEW n \in Nat, NEW d \in Nat \ {0}, n % d = 0
  PROVE  \E k \in Nat : n = d * k
<1>1. PICK q \in Nat, r \in 0 .. d - 1 : n = d * q + r /\ r = n % d
  BY DivRem
<1>2. n = d * q
  <2>1. r = 0
    BY <1>1
  <2>2. d * q + 0 = d * q
    OBVIOUS
  <2> QED BY <1>1, <2>1, <2>2, Zenon
<1> QED BY <1>2

\* A divisor divides the multiples.
LEMMA MultipleOf ==
  ASSUME NEW a \in Nat, NEW b \in Nat, NEW d \in Nat \ {0}, a % d = 0
  PROVE  (a * b) % d = 0
<1>1. PICK k \in Nat : a = d * k
  BY Divisor
<1>2. a * b = d * (k * b) /\ k * b \in Nat
  BY <1>1
<1> QED BY <1>2, Multiple

\* The numbers up to any one have a common multiple (least counterexample).
LEMMA CommonMultiple ==
  ASSUME NEW c \in Nat
  PROVE  \E n \in Nat \ {0} : \A d \in 1 .. c : n % d = 0
<1> DEFINE Has(x) == \E n \in Nat \ {0} : \A d \in 1 .. x : n % d = 0
           T == {x \in Nat : ~Has(x)}
<1>1. SUFFICES ASSUME T # {} PROVE FALSE
  OBVIOUS
<1>2. PICK x \in T : \A y \in T : x <= y
  BY <1>1, LeastNat
<1>3. x # 0
  <2>1. \A d \in 1 .. 0 : 1 % d = 0
    OBVIOUS
  <2> QED BY <2>1
<1>4. x - 1 \in Nat /\ ~(x <= x - 1) /\ x \in Nat
  BY <1>3
<1>5. PICK n \in Nat \ {0} : \A d \in 1 .. x - 1 : n % d = 0
  <2>1. x - 1 \notin T
    <3> HIDE DEF T
    <3> QED BY <1>2, <1>4
  <2>2. Has(x - 1)
    <3> HIDE DEF Has
    <3> QED BY <1>4, <2>1
  <2> QED BY <2>2
<1>6. n * x \in Nat \ {0}
  BY <1>3
<1>7. ASSUME NEW d \in 1 .. x PROVE (n * x) % d = 0
  <2>1. CASE d \in 1 .. x - 1
    <3>1. n % d = 0
      BY <1>5, <2>1, Zenon
    <3>2. d \in Nat \ {0} /\ n \in Nat
      BY <2>1
    <3> HIDE DEF T
    <3> QED BY <1>4, <3>1, <3>2, MultipleOf, Zenon
  <2>2. CASE d = x
    <3>1. n * x = x * n
      OBVIOUS
    <3> QED BY <1>3, <2>2, <3>1, Multiple
  <2> QED BY <2>1, <2>2
<1> QED BY <1>6, <1>7

\* The least divisor from 2 on is one that no smaller number divides.
LEMMA PrimeDivisor ==
  ASSUME NEW n \in Nat, n >= 2
  PROVE  \E p \in 2 .. n : is_prime(p) /\ n % p = 0
<1> DEFINE T == {q \in 2 .. n : n % q = 0}
<1>1. n % n = 0
  <2>1. n = n * 1
    OBVIOUS
  <2> QED BY <2>1, Multiple
<1>2. n \in T /\ T \subseteq Nat
  BY <1>1
<1>3. PICK p \in T : \A y \in T : p <= y
  <2> HIDE DEF T
  <2> QED BY <1>2, LeastNat
<1>4. p \in 2 .. n /\ n % p = 0
  OBVIOUS
<1>5. ASSUME NEW factor \in 2 .. p - 1, p % factor = 0 PROVE FALSE
  <2>1. PICK k \in Nat : n = p * k
    BY <1>4, Divisor
  <2>2. n % factor = 0
    <3>1. p \in Nat /\ factor \in Nat \ {0}
      BY <1>4
    <3> QED BY <1>5, <2>1, <3>1, MultipleOf
  <2>3. factor \in 2 .. n /\ ~(p <= factor)
    BY <1>4
  <2>4. factor \in T
    BY <2>2, <2>3
  <2> QED BY <1>3, <2>3, <2>4
<1>6. is_prime(p)
  BY <1>5 DEF is_prime
<1> QED BY <1>4, <1>6

\* The search ends: there is such a number from any candidate on (Euclid).
LEMMA PrimeFrom ==
  ASSUME NEW c \in Nat
  PROVE  \E p \in Nat : p >= c /\ is_prime(p)
<1>1. PICK n \in Nat \ {0} : \A d \in 1 .. c : n % d = 0
  BY CommonMultiple
<1>2. PICK p \in 2 .. n + 1 : is_prime(p) /\ (n + 1) % p = 0
  <2>1. n + 1 \in Nat /\ n + 1 >= 2
    OBVIOUS
  <2> QED BY <2>1, PrimeDivisor
<1>3. ASSUME p < c PROVE FALSE
  <2>0. p \in Nat \ {0} /\ p \in 1 .. c /\ n + 1 \in Nat
    BY <1>3
  <2>1. PICK a \in Nat : n = p * a
    BY <1>1, <2>0, Divisor
  <2>2. PICK b \in Nat : n + 1 = p * b
    BY <1>2, <2>0, Divisor
  <2>3. p * (b - a) = p * b - p * a
    OBVIOUS
  <2>4. p * (b - a) = 1 /\ b - a \in Int /\ 1 \in 0 .. p - 1
    BY <2>1, <2>2, <2>3
  <2> QED BY <2>0, <2>4, Unique
<1>4. p \in Nat /\ p >= c
  BY <1>3
<1> QED BY <1>2, <1>4

\* The numbers that no smaller one divides, between two candidates, and the
\* nth of them from a candidate on.
PrimesIn(c, p) == {q \in c .. p : is_prime(q)}
NthFrom(c, n) == {p \in Nat : p >= c /\ is_prime(p) /\ Cardinality(PrimesIn(c, p)) = n}

\* The candidates up to a number are finitely many.
LEMMA PrimesFinite ==
  ASSUME NEW c \in Nat, NEW p \in Nat
  PROVE  IsFiniteSet(PrimesIn(c, p)) /\ Cardinality(PrimesIn(c, p)) \in Nat
<1>1. PrimesIn(c, p) \subseteq c .. p /\ IsFiniteSet(c .. p)
  BY FS_Interval DEF PrimesIn
<1> QED BY <1>1, FS_Subset, FS_CardinalityType

\* How the search goes on: past a number that has a divisor, to the end at the
\* one that was asked for, and past one that is counted.
LEMMA CountFrom ==
  ASSUME NEW c \in Nat, NEW n \in Nat \ {0}
  PROVE  /\ ~is_prime(c) => NthFrom(c, n) = NthFrom(c + 1, n)
         /\ is_prime(c) /\ n = 1 => NthFrom(c, n) = {c}
         /\ is_prime(c) /\ n # 1 => NthFrom(c, n) = NthFrom(c + 1, n - 1)
<1>1. ASSUME NEW p \in Nat, p >= c, ~is_prime(c)
      PROVE  PrimesIn(c, p) = PrimesIn(c + 1, p)
  BY <1>1 DEF PrimesIn
<1>2. ~is_prime(c) => NthFrom(c, n) = NthFrom(c + 1, n)
  BY <1>1 DEF NthFrom
<1>3. ASSUME NEW p \in Nat, p >= c, is_prime(c)
      PROVE  Cardinality(PrimesIn(c, p)) = Cardinality(PrimesIn(c + 1, p)) + 1
  <2>1. PrimesIn(c, p) = PrimesIn(c + 1, p) \cup {c} /\ c \notin PrimesIn(c + 1, p)
    BY <1>3 DEF PrimesIn
  <2>2. c + 1 \in Nat
    OBVIOUS
  <2>3. IsFiniteSet(PrimesIn(c + 1, p))
    BY <2>2, PrimesFinite
  <2> QED BY <2>1, <2>3, FS_AddElement, Zenon
<1>4. PrimesIn(c + 1, c) = {} /\ Cardinality(PrimesIn(c + 1, c)) = 0
  <2>1. PrimesIn(c + 1, c) = {}
    BY DEF PrimesIn
  <2> QED BY <2>1, FS_EmptySet, Zenon
<1>5. ASSUME NEW p \in Nat, p > c, is_prime(p)
      PROVE  Cardinality(PrimesIn(c + 1, p)) # 0
  <2>1. p \in PrimesIn(c + 1, p)
    BY <1>5 DEF PrimesIn
  <2> QED BY <2>1, FS_EmptySet, PrimesFinite
<1>6. \A p \in Nat : Cardinality(PrimesIn(c + 1, p)) \in Nat
  BY PrimesFinite
<1>7. is_prime(c) /\ n = 1 => NthFrom(c, n) = {c}
  BY <1>3, <1>4, <1>5, <1>6 DEF NthFrom
<1>8. is_prime(c) /\ n # 1 => NthFrom(c, n) = NthFrom(c + 1, n - 1)
  BY <1>3, <1>4, <1>6 DEF NthFrom
<1> QED BY <1>2, <1>7, <1>8

\* find_prime is the function its definition says: there is one.
LEMMA FindDef ==
  ASSUME NEW c \in Nat, NEW n \in Nat \ {0}
  PROVE  find_prime[n][c] =
           IF ~is_prime(c) THEN find_prime[n][c + 1]
           ELSE IF n = 1 THEN c ELSE find_prime[n - 1][c + 1]
<1> DEFINE Body(f, x, m) == IF ~is_prime(x) THEN f[m][x + 1]
                            ELSE IF m = 1 THEN x ELSE f[m - 1][x + 1]
           g == [m \in Nat \ {0} |-> [x \in Nat |-> CHOOSE p : p \in NthFrom(x, m)]]
<1>1. ASSUME NEW x \in Nat, NEW m \in Nat \ {0}
      PROVE  g[m][x] = Body(g, x, m)
  <2>1. g[m][x] = CHOOSE p : p \in NthFrom(x, m)
    OBVIOUS
  <2>2. g[m][x + 1] = CHOOSE p : p \in NthFrom(x + 1, m)
    OBVIOUS
  <2>3. m # 1 => g[m - 1][x + 1] = CHOOSE p : p \in NthFrom(x + 1, m - 1)
    OBVIOUS
  <2> QED BY <2>1, <2>2, <2>3, CountFrom
<1>2. g = [m \in Nat \ {0} |-> [x \in Nat |-> Body(g, x, m)]]
  <2>1. ASSUME NEW m \in Nat \ {0}
        PROVE  g[m] = [x \in Nat |-> Body(g, x, m)]
    <3>1. g[m] = [x \in Nat |-> g[m][x]]
      OBVIOUS
    <3> HIDE DEF g, Body
    <3> QED BY <1>1, <3>1
  <2>2. g = [m \in Nat \ {0} |-> g[m]]
    OBVIOUS
  <2> HIDE DEF g, Body
  <2> QED BY <2>1, <2>2
<1>3. \E f : f = [m \in Nat \ {0} |-> [x \in Nat |-> Body(f, x, m)]]
  <2> HIDE DEF g, Body
  <2> QED BY <1>2
<1>4. find_prime = [m \in Nat \ {0} |-> [x \in Nat |-> Body(find_prime, x, m)]]
  BY <1>3 DEF find_prime
<1> QED BY <1>4

\* The search returns the nth number that no smaller one divides, from every
\* candidate on (least counterexample, in n and in the distance to the next one).
LEMMA FindNth ==
  ASSUME NEW n \in Nat \ {0}
  PROVE  \A c \in Nat : find_prime[n][c] \in NthFrom(c, n)
<1> DEFINE Good(m) == \A c \in Nat : find_prime[m][c] \in NthFrom(c, m)
           T == {m \in Nat \ {0} : ~Good(m)}
<1>1. SUFFICES ASSUME T # {} PROVE FALSE
  OBVIOUS
<1>2. PICK m \in T : \A y \in T : m <= y
  BY <1>1, LeastNat
<1>3. PICK c0 \in Nat : find_prime[m][c0] \notin NthFrom(c0, m)
  OBVIOUS
<1>4. PICK p \in Nat : p >= c0 /\ is_prime(p)
  BY PrimeFrom
<1> DEFINE D == {d \in Nat : p - d >= c0 /\ find_prime[m][p - d] \notin NthFrom(p - d, m)}
<1>5. p - c0 \in D
  <2>1. p - c0 \in Nat /\ p - (p - c0) = c0
    BY <1>4
  <2> QED BY <1>3, <2>1
<1>6. PICK d \in D : \A y \in D : d <= y
  BY <1>5, LeastNat
<1>7. PICK c \in Nat : c = p - d /\ c >= c0 /\ find_prime[m][c] \notin NthFrom(c, m)
  BY <1>6
<1>8. CASE ~is_prime(c)
  <2>1. d # 0
    BY <1>4, <1>7, <1>8
  <2>2. d - 1 \in Nat /\ d - 1 \notin D /\ p - (d - 1) = c + 1
    BY <1>6, <1>7, <2>1
  <2>3. find_prime[m][c + 1] \in NthFrom(c + 1, m)
    BY <1>7, <2>2
  <2> QED BY <1>7, <1>8, <2>3, CountFrom, FindDef
<1>9. CASE is_prime(c) /\ m = 1
  BY <1>7, <1>9, CountFrom, FindDef
<1>10. CASE is_prime(c) /\ m # 1
  <2>1. m - 1 \in Nat \ {0} /\ m - 1 \notin T
    BY <1>2, <1>10
  <2>2. find_prime[m - 1][c + 1] \in NthFrom(c + 1, m - 1)
    BY <2>1
  <2> QED BY <1>7, <1>10, <2>2, CountFrom, FindDef
<1> QED BY <1>8, <1>9, <1>10

\* Successive division finds the numbers with no divisor but 1 and themselves.
LEMMA PrimeByDivisors ==
  ASSUME NEW q \in Nat, q >= 2
  PROVE  is_prime(q) <=> {d \in 1 .. q : q % d = 0} = {1, q}
<1>1. q = 1 * q /\ q = q * 1
  OBVIOUS
<1>2. q % 1 = 0 /\ q % q = 0
  BY <1>1, Multiple
<1>3. ASSUME is_prime(q), NEW d \in 1 .. q, q % d = 0 PROVE d \in {1, q}
  <2>1. d \notin 2 .. q - 1
    BY <1>3 DEF is_prime
  <2> QED BY <2>1
<1>4. ASSUME NEW factor \in 2 .. q - 1, q % factor = 0,
             {d \in 1 .. q : q % d = 0} = {1, q}
      PROVE  FALSE
  <2>1. factor \in 1 .. q /\ factor \notin {1, q}
    OBVIOUS
  <2>2. factor \in {d \in 1 .. q : q % d = 0}
    BY <1>4, <2>1, Zenon
  <2> QED BY <1>4, <2>1, <2>2, Zenon
<1>5. 1 \in 1 .. q /\ q \in 1 .. q
  OBVIOUS
<1>6. is_prime(q) => {d \in 1 .. q : q % d = 0} = {1, q}
  BY <1>2, <1>3, <1>5, Zenon
<1>7. {d \in 1 .. q : q % d = 0} = {1, q} => is_prime(q)
  BY <1>4 DEF is_prime
<1> QED BY <1>6, <1>7

\* compute_prime returns the number with n primes up to it, for every n.
LEMMA ComputesNth ==
  ASSUME NEW n \in Nat \ {0}, NEW p, p = compute_prime(n)
  PROVE  LET Primes == {q \in 2 .. p : {d \in 1 .. q : q % d = 0} = {1, q}}
         IN  p \in Primes /\ Cardinality(Primes) = n
<1>1. p \in NthFrom(2, n)
  BY FindNth DEF compute_prime
<1>2. p \in Nat /\ p >= 2
  BY <1>1 DEF NthFrom
<1>3. {q \in 2 .. p : {d \in 1 .. q : q % d = 0} = {1, q}} = PrimesIn(2, p)
  BY <1>2, PrimeByDivisors DEF PrimesIn
<1>4. p \in PrimesIn(2, p)
  BY <1>1, <1>2 DEF NthFrom, PrimesIn
<1> QED BY <1>1, <1>3, <1>4 DEF NthFrom

\* main's prime is that of its thread.
LEMMA PrimeStep ==
  ASSUME PrimeIsNth, which_prime \in WhichPrime, [BasicsNext]_basicVars
  PROVE  PrimeIsNth' /\ which_prime' = which_prime
<1>1. which_prime' = which_prime /\ (prime' = prime \/ prime' = compute_prime(which_prime))
  BY DEF BasicsNext, CreateThread, JoinThreads, WaitForFlag, StartThread, PrintChar, EndThread,
         Turn, PrimeVars, basicVars
<1>2. which_prime \in Nat \ {0}
  BY ThreadBasicsAssumption
<1>3. CASE prime' = prime
  BY <1>1, <1>3 DEF PrimeIsNth
<1>4. CASE prime' = compute_prime(which_prime)
  BY <1>1, <1>2, <1>4, ComputesNth DEF PrimeIsNth
<1> QED BY <1>1, <1>3, <1>4

\* main ends after its threads, each of thread8a.c's has its own number, those of
\* thread2.c take turns, and primes.c's returns the prime it was asked for,
\* for any numbers of threads, tries and characters, and any prime.
THEOREM ThreadsServeMain == BasicsSpec => []ExamplesInv
<1>1. BasicsInit => PrimeIsNth /\ which_prime \in WhichPrime
  BY DEF BasicsInit, PrimeIsNth
<1>2. PrimeIsNth /\ which_prime \in WhichPrime /\ [BasicsNext]_basicVars =>
        (PrimeIsNth /\ which_prime \in WhichPrime)'
  BY PrimeStep
<1>3. BasicsInv => MainEndsLast /\ NumbersAreOwn /\ TurnsAlternate
  <2> SUFFICES ASSUME BasicsInv
               PROVE  MainEndsLast /\ NumbersAreOwn /\ TurnsAlternate
    OBVIOUS
  <2>1. 1 .. ThreadCount \subseteq ThreadIds
    BY ThreadCounts DEF BasicsInv, BasicsTypeOK
  <2> QED
    BY <2>1 DEF BasicsInv, JoinedSoFar, ThreadAtPlace, TurnFollows, MainEndsLast, NumbersAreOwn
<1> QED BY <1>1, <1>2, <1>3, BasicsStart, BasicsInductive, PTL DEF BasicsSpec, ExamplesInv

-----------------------------------------------------------------------------
(* The work area with a mutex (thread4.c).                                 *)

TypistPlaces  == {"lock", "type", "unlock", "lock again", "look", "join", "exit"}
CounterPlaces == {"lock", "compare4", "sleep4", "look4", "ended"}

WorkTypeOK ==
  /\ typistPc \in TypistPlaces /\ countPc \in CounterPlaces
  /\ typed \in Seq(Lines \cup {"end"}) /\ counted \in Seq(Lines \cup {NoText})
  /\ work_area \in Lines \cup {NoText, "end"} /\ time_to_exit \in BOOLEAN

\* Who has the mutex, by the places of the two.
WorkMutex ==
  /\ typistPc \in {"type", "unlock", "look"} <=> work_mutex = "main"
  /\ countPc \in {"compare4", "look4"} <=> work_mutex = "thread"

AllCounted  == LinesCounted = typed
NoneCounted == counted = <<>>
TextPending == typed = Append(LinesCounted, work_area)
EndPending  == typed = Append(LinesCounted, "end")

\* The text in the work area is the last line typed, and the only one not counted;
\* "end" is in it until the counter sees it.
TextInPlace ==
  /\ work_area = NoText => time_to_exit \/ AllCounted
  /\ work_area # NoText => ~time_to_exit /\ TextPending
  /\ time_to_exit => work_area = NoText /\ EndPending /\ countPc = "ended"
  /\ typistPc \in {"lock", "type"} => work_area = NoText /\ ~time_to_exit
  /\ countPc = "lock" \/ (countPc = "compare4" /\ work_area = NoText) => NoneCounted
  /\ typistPc = "join" => time_to_exit

WorkInv == work_program = "thread4" => WorkTypeOK /\ WorkMutex /\ TextInPlace

\* The texts that mean something are none of the lines.
LEMMA WorkTexts == NoText # "end" /\ NoText \notin Lines /\ "end" \notin Lines
<1>1. NoText # "end"
  BY DEF NoText
<1> HIDE DEF NoText
<1> QED BY <1>1, WorkAreaAssumption

\* What the counter appends after the first text is a line.
LEMMA LineCounted ==
  ASSUME NEW S, counted \in Seq(S), NEW line \in S, counted' = Append(counted, line),
         line # NoText
  PROVE  LinesCounted' = Append(LinesCounted, line)
<1>1. CASE counted = <<>>
  BY <1>1 DEF LinesCounted
<1>2. CASE counted # <<>>
  <2>1. Head(counted') = Head(counted) /\ counted' # <<>>
    BY <1>2
  <2>2. Tail(counted') = Append(Tail(counted), line)
    BY <1>2
  <2> QED BY <1>2, <2>1, <2>2 DEF LinesCounted
<1> QED BY <1>1, <1>2

\* The typist's steps of thread4.c.
LEMMA TypistStep ==
  ASSUME work_program = "thread4", WorkTypeOK, WorkMutex, TextInPlace, TypistRuns
  PROVE  WorkTypeOK' /\ WorkMutex' /\ TextInPlace'
<1> USE DEF Typist
<1> HIDE DEF NoText
<1>0. typistPc \in TypistPlaces /\ countPc \in CounterPlaces
  BY DEF WorkTypeOK
<1>1. ~TestLine /\ ~PostFast /\ ~WriteWheee /\ ~TypeLine /\ ~PostLine
  BY <1>0 DEF TestLine, PostFast, WriteWheee, TypeLine, PostLine, TypistPlaces
<1>2. ASSUME typed' = typed, work_area' = work_area
      PROVE  /\ countPc' = countPc /\ counted' = counted /\ time_to_exit' = time_to_exit
             /\ AllCounted' = AllCounted /\ TextPending' = TextPending
             /\ EndPending' = EndPending /\ NoneCounted' = NoneCounted
  <2>1. countPc' = countPc /\ counted' = counted /\ time_to_exit' = time_to_exit
    BY <1>1, <1>2 DEF TypistRuns, TypistLocks, TypeLine4, TypistUnlocks, TypistLooks,
           JoinCounter, Fgets
  <2> QED BY <1>2, <2>1 DEF AllCounted, TextPending, EndPending, LinesCounted, NoneCounted
<1>3. CASE TypistLocks
  <2>1. /\ typed' = typed /\ work_area' = work_area /\ work_mutex = "none"
        /\ work_mutex' = "main"
        /\ \/ typistPc = "lock" /\ typistPc' = "type"
           \/ typistPc = "lock again" /\ typistPc' = "look"
    BY <1>3 DEF TypistLocks, LockWork, Rest4
  <2>2. WorkTypeOK'
    BY <1>2, <2>1 DEF WorkTypeOK, TypistPlaces
  <2>3. WorkMutex'
    BY <1>2, <2>1 DEF WorkMutex
  <2>4. TextInPlace'
    <3>1. /\ countPc' = countPc /\ time_to_exit' = time_to_exit /\ AllCounted' = AllCounted
          /\ TextPending' = TextPending /\ EndPending' = EndPending
          /\ NoneCounted' = NoneCounted
      BY <1>2, <2>1
    <3> QED BY <2>1, <3>1 DEF TextInPlace
  <2> QED BY <2>2, <2>3, <2>4
<1>4. CASE TypeLine4
  <2>1. PICK line \in TypedLines :
          /\ work_area' = line /\ typed' = Append(typed, line) /\ work_mutex' = work_mutex
          /\ time_to_exit' = time_to_exit /\ countPc' = countPc /\ counted' = counted
          /\ typistPc = "type" /\ typistPc' = "unlock"
    BY <1>4 DEF TypeLine4, Fgets
  <2>2. line \in Lines \cup {"end"} /\ line # NoText
    BY WorkTexts DEF TypedLines
  <2>3. LinesCounted' = LinesCounted /\ NoneCounted' = NoneCounted
    BY <2>1 DEF LinesCounted, NoneCounted
  <2>4. WorkTypeOK'
    BY <2>1, <2>2 DEF WorkTypeOK, TypistPlaces
  <2>5. WorkMutex'
    BY <2>1 DEF WorkMutex
  <2>6. TextInPlace'
    <3>1. AllCounted /\ ~time_to_exit /\ work_area = NoText
      BY <2>1 DEF TextInPlace
    <3>2. work_mutex = "main" /\ countPc # "compare4"
      BY <2>1 DEF WorkMutex
    <3>3. TextPending'
      BY <2>1, <2>3, <3>1 DEF AllCounted, TextPending
    <3> QED BY <2>1, <2>2, <2>3, <3>1, <3>2, <3>3 DEF TextInPlace
  <2> QED BY <2>4, <2>5, <2>6
<1>5. CASE TypistUnlocks
  <2>1. /\ typed' = typed /\ work_area' = work_area /\ work_mutex' = "none"
        /\ typistPc = "unlock" /\ typistPc' = "lock again"
    BY <1>5 DEF TypistUnlocks, FreeWork, Rest4
  <2>2. WorkTypeOK'
    BY <1>2, <2>1 DEF WorkTypeOK, TypistPlaces
  <2>3. WorkMutex'
    BY <1>2, <2>1 DEF WorkMutex
  <2>4. TextInPlace'
    <3>1. /\ countPc' = countPc /\ time_to_exit' = time_to_exit /\ AllCounted' = AllCounted
          /\ TextPending' = TextPending /\ EndPending' = EndPending
          /\ NoneCounted' = NoneCounted
      BY <1>2, <2>1
    <3> QED BY <2>1, <3>1 DEF TextInPlace
  <2> QED BY <2>2, <2>3, <2>4
<1>6. CASE TypistLooks
  <2>1. /\ typed' = typed /\ work_area' = work_area /\ typistPc = "look"
        /\ \/ typistPc' = "lock again" /\ work_mutex' = "none"
           \/ /\ typistPc' = "type" /\ work_mutex' = work_mutex
              /\ work_area = NoText /\ ~time_to_exit
           \/ typistPc' = "join" /\ work_mutex' = "none" /\ time_to_exit
    BY <1>6 DEF TypistLooks, FreeWork, Rest4
  <2>2. WorkTypeOK'
    BY <1>2, <2>1 DEF WorkTypeOK, TypistPlaces
  <2>3. WorkMutex'
    BY <1>2, <2>1 DEF WorkMutex
  <2>4. TextInPlace'
    <3>1. /\ countPc' = countPc /\ time_to_exit' = time_to_exit /\ AllCounted' = AllCounted
          /\ TextPending' = TextPending /\ EndPending' = EndPending
          /\ NoneCounted' = NoneCounted
      BY <1>2, <2>1
    <3> QED BY <2>1, <3>1 DEF TextInPlace
  <2> QED BY <2>2, <2>3, <2>4
<1>7. CASE JoinCounter
  <2>1. /\ typed' = typed /\ work_area' = work_area /\ work_mutex' = work_mutex
        /\ typistPc = "join" /\ typistPc' = "exit"
    BY <1>7 DEF JoinCounter
  <2>2. WorkTypeOK'
    BY <1>2, <2>1 DEF WorkTypeOK, TypistPlaces
  <2>3. WorkMutex'
    BY <1>2, <2>1 DEF WorkMutex
  <2>4. TextInPlace'
    <3>1. /\ countPc' = countPc /\ time_to_exit' = time_to_exit /\ AllCounted' = AllCounted
          /\ TextPending' = TextPending /\ EndPending' = EndPending
          /\ NoneCounted' = NoneCounted
      BY <1>2, <2>1
    <3> QED BY <2>1, <3>1 DEF TextInPlace
  <2> QED BY <2>2, <2>3, <2>4
<1> QED BY <1>1, <1>3, <1>4, <1>5, <1>6, <1>7 DEF TypistRuns

\* The counter's steps of thread4.c.
LEMMA CounterStep ==
  ASSUME work_program = "thread4", WorkTypeOK, WorkMutex, TextInPlace, CounterRuns
  PROVE  WorkTypeOK' /\ WorkMutex' /\ TextInPlace'
<1> USE DEF Counter
<1> HIDE DEF NoText
<1>0. typistPc \in TypistPlaces /\ countPc \in CounterPlaces
  BY DEF WorkTypeOK
<1>1. ~SemWait3 /\ ~Compare3 /\ ~Count3
  BY <1>0 DEF SemWait3, Compare3, Count3, CounterPlaces
<1>2. typistPc' = typistPc /\ typed' = typed
  BY <1>1 DEF CounterRuns, CounterLocks, Compare4, LookForWork
<1>3. CASE CounterLocks
  <2>1. /\ work_area' = work_area /\ time_to_exit' = time_to_exit /\ counted' = counted
        /\ work_mutex = "none" /\ work_mutex' = "thread"
        /\ \/ countPc = "lock" /\ countPc' = "compare4"
           \/ countPc = "sleep4" /\ countPc' = "look4"
    BY <1>3 DEF CounterLocks, LockWork, Rest4
  <2>2. /\ AllCounted' = AllCounted /\ TextPending' = TextPending
        /\ EndPending' = EndPending /\ NoneCounted' = NoneCounted
    BY <1>2, <2>1 DEF AllCounted, TextPending, EndPending, LinesCounted, NoneCounted
  <2>3. WorkTypeOK'
    BY <1>2, <2>1 DEF WorkTypeOK, CounterPlaces
  <2>4. WorkMutex'
    BY <1>2, <2>1 DEF WorkMutex
  <2>5. TextInPlace'
    BY <1>2, <2>1, <2>2 DEF TextInPlace
  <2> QED BY <2>3, <2>4, <2>5
<1>4. CASE LookForWork
  <2>1. /\ work_area' = work_area /\ time_to_exit' = time_to_exit /\ counted' = counted
        /\ countPc = "look4"
        /\ \/ countPc' = "sleep4" /\ work_mutex' = "none"
           \/ countPc' = "compare4" /\ work_mutex' = work_mutex /\ work_area # NoText
    BY <1>4 DEF LookForWork, FreeWork
  <2>2. /\ AllCounted' = AllCounted /\ TextPending' = TextPending
        /\ EndPending' = EndPending /\ NoneCounted' = NoneCounted
    BY <1>2, <2>1 DEF AllCounted, TextPending, EndPending, LinesCounted, NoneCounted
  <2>3. WorkTypeOK'
    BY <1>2, <2>1 DEF WorkTypeOK, CounterPlaces
  <2>4. WorkMutex'
    BY <1>2, <2>1 DEF WorkMutex
  <2>5. TextInPlace'
    BY <1>2, <2>1, <2>2 DEF TextInPlace
  <2> QED BY <2>3, <2>4, <2>5
<1>5. CASE Compare4
  <2>1. /\ countPc = "compare4" /\ work_area' = NoText /\ work_mutex' = "none"
        /\ time_to_exit' = (work_area = "end")
        /\ countPc' = IF work_area = "end" THEN "ended" ELSE "sleep4"
        /\ counted' = IF work_area = "end" THEN counted ELSE Append(counted, work_area)
    BY <1>5 DEF Compare4, FreeWork
  <2>2. work_mutex = "thread" /\ typistPc \notin {"type", "unlock", "look"} /\ ~time_to_exit
    BY <2>1 DEF WorkMutex, TextInPlace
  <2>3. WorkTypeOK'
    BY <1>2, <2>1 DEF WorkTypeOK, CounterPlaces
  <2>4. WorkMutex'
    BY <1>2, <2>1, <2>2 DEF WorkMutex
  <2>5. CASE work_area = "end"
    <3>1. EndPending'
      <4>1. TextPending
        BY <2>5, WorkTexts DEF TextInPlace
      <4>2. counted' = counted
        BY <2>1, <2>5
      <4> QED BY <1>2, <2>5, <4>1, <4>2 DEF TextPending, EndPending, LinesCounted
    <3>2. typistPc \notin {"lock", "type"}
      BY <2>5, WorkTexts DEF TextInPlace
    <3>3. TextInPlace'
      BY <1>2, <2>1, <2>2, <2>5, <3>1, <3>2 DEF TextInPlace
    <3> QED BY <2>3, <2>4, <3>3
  <2>6. CASE work_area # "end"
    <3>1. AllCounted'
      <4>1. CASE work_area = NoText
        <5>1. counted = <<>> /\ AllCounted
          BY <2>1, <2>2, <4>1 DEF TextInPlace, NoneCounted
        <5>2. counted' = <<NoText>>
          BY <2>1, <2>6, <4>1, <5>1
        <5>3. LinesCounted = <<>> /\ LinesCounted' = <<>>
          BY <5>1, <5>2 DEF LinesCounted
        <5> QED BY <1>2, <5>1, <5>3 DEF AllCounted
      <4>2. CASE work_area # NoText
        <5>1. TextPending
          BY <4>2 DEF TextInPlace
        <5>2. work_area \in Lines \cup {NoText} /\ counted \in Seq(Lines \cup {NoText})
          BY <2>6 DEF WorkTypeOK
        <5>3. counted' = Append(counted, work_area)
          BY <2>1, <2>6
        <5>4. LinesCounted' = Append(LinesCounted, work_area)
          BY <4>2, <5>2, <5>3, LineCounted, Zenon
        <5> QED BY <1>2, <5>1, <5>4 DEF AllCounted, TextPending
      <4> QED BY <4>1, <4>2
    <3>2. ~time_to_exit' /\ countPc' = "sleep4" /\ typistPc # "join"
      BY <2>1, <2>2, <2>6 DEF TextInPlace
    <3>3. TextInPlace'
      BY <1>2, <2>1, <3>1, <3>2 DEF TextInPlace
    <3> QED BY <2>3, <2>4, <3>3
  <2> QED BY <2>5, <2>6
<1> QED BY <1>1, <1>3, <1>4, <1>5 DEF CounterRuns

\* What was counted is the beginning of what was typed.
LEMMA WorkPromise == WorkInv => EachLineCountedOnce
<1> SUFFICES ASSUME WorkTypeOK, TextInPlace
             PROVE  /\ Len(LinesCounted) <= Len(typed)
                    /\ LinesCounted = SubSeq(typed, 1, Len(LinesCounted))
                    /\ typistPc = "join" => LinesCounted = SubSeq(typed, 1, Len(typed) - 1)
  BY DEF WorkInv, EachLineCountedOnce
<1> HIDE DEF NoText
<1> DEFINE lines == LinesCounted
           S     == Lines \cup {NoText, "end"}
<1>1. lines \in Seq(S)
  <2>1. counted \in Seq(S)
    BY DEF WorkTypeOK
  <2> QED BY <2>1 DEF LinesCounted
<1>2. typed \in Seq(S) /\ work_area \in S /\ "end" \in S
  BY DEF WorkTypeOK
<1>3. \/ typed = lines \/ \E x \in S : typed = Append(lines, x)
  BY <1>2, Zenon DEF TextInPlace, AllCounted, TextPending, EndPending
<1>4. typistPc = "join" => typed = Append(lines, "end")
  BY Zenon DEF TextInPlace, EndPending
<1> HIDE DEF lines, S
<1>5. ASSUME NEW x \in S, typed = Append(lines, x)
      PROVE  lines = SubSeq(typed, 1, Len(lines)) /\ Len(typed) = Len(lines) + 1
  BY <1>1, <1>5
<1>6. typed = lines => lines = SubSeq(typed, 1, Len(lines)) /\ Len(lines) = Len(typed)
  BY <1>1
<1>7. Len(lines) \in Nat /\ Len(lines) <= Len(lines) + 1 /\ Len(lines) <= Len(lines)
      /\ (Len(lines) + 1) - 1 = Len(lines)
  BY <1>1
<1>8. Len(lines) <= Len(typed) /\ lines = SubSeq(typed, 1, Len(lines))
  BY <1>3, <1>5, <1>6, <1>7, Zenon
<1>9. typistPc = "join" => lines = SubSeq(typed, 1, Len(typed) - 1)
  BY <1>2, <1>4, <1>5, <1>7, Zenon
<1> QED BY <1>8, <1>9 DEF lines

\* thread4.c: each line is counted once and in order, and none is typed over it before
\* it was, whoever gets the mutex how often, for any lines and any number of them.
THEOREM LinesAreCounted == WorkSpec => []EachLineCountedOnce
<1>1. WorkInit => WorkInv
  <2> SUFFICES ASSUME WorkInit, work_program = "thread4"
               PROVE  WorkTypeOK /\ WorkMutex /\ TextInPlace
    BY DEF WorkInv
  <2> HIDE DEF NoText
  <2>1. /\ typistPc = "lock" /\ countPc = "lock" /\ work_mutex = "none" /\ typed = <<>>
        /\ counted = <<>> /\ time_to_exit = FALSE /\ work_area = NoText
    BY DEF WorkInit
  <2>2. AllCounted /\ NoneCounted /\ typed \in Seq(Lines \cup {"end"})
        /\ counted \in Seq(Lines \cup {NoText})
    <3>1. counted = <<>> /\ typed = <<>>
      BY <2>1
    <3> QED BY <3>1 DEF AllCounted, LinesCounted, NoneCounted
  <2>3. WorkTypeOK /\ WorkMutex
    <3>1. WorkTypeOK
      BY <2>1, <2>2, Zenon DEF WorkTypeOK, TypistPlaces, CounterPlaces
    <3>2. WorkMutex
      BY <2>1, Zenon DEF WorkMutex
    <3> QED BY <3>1, <3>2
  <2>4. TextInPlace
    BY <2>1, <2>2, Zenon DEF TextInPlace
  <2> QED BY <2>3, <2>4
<1>2. WorkInv /\ [WorkNext]_workVars => WorkInv'
  <2> SUFFICES ASSUME WorkInv, [WorkNext]_workVars, work_program' = "thread4"
               PROVE  WorkTypeOK' /\ WorkMutex' /\ TextInPlace'
    BY DEF WorkInv
  <2>1. work_program = "thread4"
    BY DEF WorkNext, workVars, TypistRuns, CounterRuns, TestLine, PostFast, WriteWheee, TypeLine,
           PostLine, TypistLocks, TypeLine4, TypistUnlocks, TypistLooks, JoinCounter, SemWait3,
           Compare3, Count3, CounterLocks, Compare4, LookForWork, Typist, Counter
  <2>2. WorkTypeOK /\ WorkMutex /\ TextInPlace
    BY <2>1 DEF WorkInv
  <2>3. CASE UNCHANGED workVars
    BY <2>2, <2>3 DEF workVars, WorkTypeOK, WorkMutex, TextInPlace, AllCounted,
           TextPending, EndPending, LinesCounted, NoneCounted
  <2> QED BY <2>1, <2>2, <2>3, TypistStep, CounterStep DEF WorkNext
<1> QED BY <1>1, <1>2, WorkPromise, PTL DEF WorkSpec
================================================================================
