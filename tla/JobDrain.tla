------------------------------- MODULE JobDrain -------------------------------
(***************************************************************************)
(* ALP chapter 4, job-queue2.c: threads that take jobs from a list under a *)
(* mutex and end when it is empty.  A step is one access to the list or    *)
(* one call.  job-queue1.c is the same without the mutex: nothing is       *)
(* claimed of it, and with more than one thread it is the mutant NoLock.   *)
(***************************************************************************)
EXTENDS Integers, Sequences, FiniteSets

CONSTANTS Drainers,   \* the threads
          Chain       \* the jobs in the list at the start, in order

ASSUME JobDrainAssumption ==
  /\ Chain \in Seq({Chain[i] : i \in DOMAIN Chain})
  /\ \A i, k \in DOMAIN Chain : i # k => Chain[i] # Chain[k]
  /\ Drainers # {} /\ IsFiniteSet(Drainers) /\ "none" \notin Drainers

VARIABLES
  drainers,      \* the threads that were started: all, or one alone
  job_queue_first,  \* job_queue: the place in Chain of the first job in the list
  drainMutex,    \* job_queue_mutex: the thread that holds it, or "none"
  drainPc, next_job,
  processed      \* the jobs processed and freed, in order

jobDrainVars == <<drainers, job_queue_first, drainMutex, drainPc, next_job, processed>>

EmptyList == Len(Chain) + 1   \* NULL

JobDrainInit ==
  /\ drainers \in {Drainers} \cup {{d} : d \in Drainers}
  /\ job_queue_first = 1 /\ drainMutex = "none"
  /\ drainPc = [d \in Drainers |-> "lock"]
  /\ next_job = [d \in Drainers |-> EmptyList]
  /\ processed = <<>>

DrainMoves(d, from, to) == drainPc[d] = from /\ drainPc' = [drainPc EXCEPT ![d] = to]

\* Mutant of LockList: the code of job-queue1.c with several threads.
NoLock(d) ==
  /\ DrainMoves(d, "lock", "test")
  /\ UNCHANGED <<drainers, job_queue_first, drainMutex, next_job, processed>>

LockList(d) ==
  /\ DrainMoves(d, "lock", "test")
  /\ drainMutex = "none" /\ drainMutex' = d
  /\ UNCHANGED <<drainers, job_queue_first, next_job, processed>>

\* The test of the list, then the reading of its head.
TestList(d) ==
  /\ IF job_queue_first = EmptyList
     THEN DrainMoves(d, "test", "unlock") /\ next_job' = [next_job EXCEPT ![d] = EmptyList]
     ELSE DrainMoves(d, "test", "read") /\ UNCHANGED next_job
  /\ UNCHANGED <<drainers, job_queue_first, drainMutex, processed>>

ReadHead(d) ==
  /\ DrainMoves(d, "read", "remove") /\ next_job' = [next_job EXCEPT ![d] = job_queue_first]
  /\ UNCHANGED <<drainers, job_queue_first, drainMutex, processed>>

\* job_queue is read once more; its next is that of the job which is then first.
RemoveHead(d) ==
  /\ DrainMoves(d, "remove", "unlock")
  /\ job_queue_first # EmptyList /\ job_queue_first' = job_queue_first + 1
  /\ UNCHANGED <<drainers, drainMutex, next_job, processed>>

\* Mutant of UnlockList: a thread that found no job leaves with the mutex.
UnlockIfJob(d) ==
  /\ DrainMoves(d, "unlock", IF next_job[d] = EmptyList THEN "ended" ELSE "process")
  /\ drainMutex' = IF next_job[d] = EmptyList THEN drainMutex ELSE "none"
  /\ UNCHANGED <<drainers, job_queue_first, next_job, processed>>

\* A thread that found no job ends.
UnlockList(d) ==
  /\ DrainMoves(d, "unlock", IF next_job[d] = EmptyList THEN "ended" ELSE "process")
  /\ drainMutex' = "none"
  /\ UNCHANGED <<drainers, job_queue_first, next_job, processed>>

ProcessAndFree(d) ==
  /\ DrainMoves(d, "process", "lock") /\ processed' = Append(processed, Chain[next_job[d]])
  /\ UNCHANGED <<drainers, job_queue_first, drainMutex, next_job>>

DrainStep(d) ==
  \/ LockList(d) \/ TestList(d) \/ ReadHead(d) \/ RemoveHead(d) \/ UnlockList(d)
  \/ ProcessAndFree(d)

JobDrainNext == \E d \in drainers : DrainStep(d)

JobDrainFairness == \A d \in Drainers : WF_jobDrainVars(d \in drainers /\ DrainStep(d))

JobDrainSpec == JobDrainInit /\ [][JobDrainNext]_jobDrainVars /\ JobDrainFairness

-----------------------------------------------------------------------------

\* Each job is processed and freed at most once, and when every thread has
\* ended none was left out, however the threads' accesses to job_queue are
\* interleaved (job-queue2.c 33-55).
EachJobOnce ==
  /\ \A i, k \in DOMAIN processed : i # k => processed[i] # processed[k]
  /\ (\A d \in drainers : drainPc[d] = "ended") => Len(processed) = Len(Chain)

\* "Process queued jobs until the queue is empty": every thread ends after a job
\* was taken, also the one that finds the list empty while it has the mutex.
DrainersEnd == job_queue_first > 1 ~> \A d \in drainers : drainPc[d] = "ended"

-----------------------------------------------------------------------------
(* The inductive invariant.                                                *)

DrainPc == {"lock", "test", "read", "remove", "unlock", "process", "ended"}

DrainTypeOK ==
  /\ drainers \subseteq Drainers /\ drainers # {}
  /\ job_queue_first \in 1 .. EmptyList
  /\ drainMutex \in Drainers \cup {"none"}
  /\ drainPc \in [Drainers -> DrainPc]
  /\ next_job \in [Drainers -> 1 .. EmptyList]
  /\ processed \in Seq({Chain[i] : i \in DOMAIN Chain})

\* The threads that have taken a job out of the list and not yet processed it.
Owning == {d \in Drainers : drainPc[d] \in {"unlock", "process"} /\ next_job[d] # EmptyList}

\* What each place in the code says of the list and of the thread's job.
DrainPlaces ==
  \A d \in Drainers :
    /\ drainPc[d] \in {"test", "read", "remove", "unlock"} <=> drainMutex = d
    /\ drainPc[d] \in {"read", "remove"} => job_queue_first # EmptyList
    /\ drainPc[d] = "remove" => next_job[d] = job_queue_first
    /\ drainPc[d] = "unlock" /\ next_job[d] = EmptyList => job_queue_first = EmptyList
    /\ drainPc[d] = "process" => next_job[d] # EmptyList
    /\ drainPc[d] = "ended" => job_queue_first = EmptyList
    /\ d \notin drainers => drainPc[d] = "lock"

\* A job that is out of the list has one owner, or was processed once.
JobsOutOfList ==
  /\ \A d \in Owning : next_job[d] < job_queue_first
  /\ \A d, e \in Owning : d # e => next_job[d] # next_job[e]
  /\ \A i \in 1 .. Len(processed) : \E k \in 1 .. job_queue_first - 1 :
       processed[i] = Chain[k] /\ \A d \in Owning : next_job[d] # k
  /\ \A i, k \in 1 .. Len(processed) : i # k => processed[i] # processed[k]
  /\ Len(processed) + Cardinality(Owning) = job_queue_first - 1

DrainInv == DrainTypeOK /\ DrainPlaces /\ JobsOutOfList

===============================================================================
