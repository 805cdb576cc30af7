------------------------------- MODULE JobQueue -------------------------------
(***************************************************************************)
(* ALP chapter 4, job-queue3.c: threads take jobs from a list that a mutex *)
(* guards, and a semaphore counts the jobs so that a thread waits while    *)
(* there is none.  A step is one call of the thread library, with the      *)
(* unshared code after it, or one access to the list.                      *)
(***************************************************************************)
EXTENDS Integers, Sequences, FiniteSets

CONSTANTS Workers,    \* the threads that run thread_function
          Enqueuers,  \* the threads that call enqueue_job
          Jobs        \* the jobs that will be enqueued

ASSUME JobQueueAssumption ==
  /\ IsFiniteSet(Workers) /\ IsFiniteSet(Enqueuers)
  /\ Workers \cap Enqueuers = {}

Nobody == "nobody"
NoJob  == "no job"

ASSUME JobNamesAssumption == Nobody \notin Workers \cup Enqueuers /\ NoJob \notin Jobs

VARIABLES
  job_queue,        \* the linked list, the newest job first
  job_queue_count,  \* the semaphore
  job_queue_mutex,  \* the thread that holds it
  jobPc,            \* where each thread is
  held,             \* next_job or new_job of each thread
  waiting,          \* the jobs nobody has allocated yet
  done              \* the jobs that were processed and freed

jobQueueVars == <<job_queue, job_queue_count, job_queue_mutex, jobPc, held, waiting, done>>

Threads == Workers \cup Enqueuers

JobQueueInit ==
  /\ job_queue = <<>> /\ job_queue_count = 0 /\ job_queue_mutex = Nobody
  /\ jobPc = [t \in Threads |-> IF t \in Workers THEN "wait" ELSE "new"]
  /\ held = [t \in Threads |-> NoJob]
  /\ waiting = Jobs /\ done = {}

At(t, from, to) == jobPc[t] = from /\ jobPc' = [jobPc EXCEPT ![t] = to]

\* Mutant of LockQueue: the mutex is not waited for.
LockAnyway(t, from, to) ==
  /\ At(t, from, to) /\ job_queue_mutex' = t
  /\ UNCHANGED <<job_queue, job_queue_count, held, waiting, done>>

\* pthread_mutex_lock and pthread_mutex_unlock.
LockQueue(t, from, to) ==
  /\ At(t, from, to) /\ job_queue_mutex = Nobody /\ job_queue_mutex' = t
  /\ UNCHANGED <<job_queue, job_queue_count, held, waiting, done>>

UnlockQueue(t, from, to) ==
  /\ At(t, from, to) /\ job_queue_mutex' = Nobody
  /\ UNCHANGED <<job_queue, job_queue_count, held, waiting, done>>

\* thread_function.

\* Mutant of SemWait: the thread does not block.
SemDecrement(w) ==
  /\ At(w, "wait", "lock")
  /\ job_queue_count' = job_queue_count - 1
  /\ UNCHANGED <<job_queue, job_queue_mutex, held, waiting, done>>

SemWait(w) ==
  /\ At(w, "wait", "lock") /\ job_queue_count > 0
  /\ job_queue_count' = job_queue_count - 1
  /\ UNCHANGED <<job_queue, job_queue_mutex, held, waiting, done>>

\* Mutant of TakeJob: the job stays in the list.
ReadJob(w) ==
  /\ At(w, "take", "unlock") /\ job_queue # <<>>
  /\ held' = [held EXCEPT ![w] = Head(job_queue)]
  /\ UNCHANGED <<job_queue, job_queue_count, job_queue_mutex, waiting, done>>

\* The two assignments on the list; job_queue->next of NULL is no step.
TakeJob(w) ==
  /\ At(w, "take", "unlock") /\ job_queue # <<>>
  /\ held' = [held EXCEPT ![w] = Head(job_queue)]
  /\ job_queue' = Tail(job_queue)
  /\ UNCHANGED <<job_queue_count, job_queue_mutex, waiting, done>>

ProcessJob(w) ==
  /\ At(w, "process", "wait")
  /\ done' = done \cup {held[w]} /\ held' = [held EXCEPT ![w] = NoJob]
  /\ UNCHANGED <<job_queue, job_queue_count, job_queue_mutex, waiting>>

\* enqueue_job.

NewJob(e) ==
  /\ At(e, "new", "lock new")
  /\ \E j \in waiting : held' = [held EXCEPT ![e] = j] /\ waiting' = waiting \ {j}
  /\ UNCHANGED <<job_queue, job_queue_count, job_queue_mutex, done>>

LinkJob(e) ==
  /\ At(e, "link", "post")
  /\ job_queue' = <<held[e]>> \o job_queue /\ held' = [held EXCEPT ![e] = NoJob]
  /\ UNCHANGED <<job_queue_count, job_queue_mutex, waiting, done>>

\* Mutant of SemPost: the job is not counted.
NoPost(e) ==
  /\ At(e, "post", "unlock new")
  /\ UNCHANGED <<job_queue, job_queue_count, job_queue_mutex, held, waiting, done>>

SemPost(e) ==
  /\ At(e, "post", "unlock new") /\ job_queue_count' = job_queue_count + 1
  /\ UNCHANGED <<job_queue, job_queue_mutex, held, waiting, done>>

WorkerStep(w) ==
  \/ SemWait(w) \/ LockQueue(w, "lock", "take") \/ TakeJob(w)
  \/ UnlockQueue(w, "unlock", "process") \/ ProcessJob(w)

EnqueuerStep(e) ==
  \/ NewJob(e) \/ LockQueue(e, "lock new", "link") \/ LinkJob(e) \/ SemPost(e)
  \/ UnlockQueue(e, "unlock new", "new")

JobQueueNext ==
  \/ \E w \in Workers : WorkerStep(w)
  \/ \E e \in Enqueuers : EnqueuerStep(e)

\* Every thread is scheduled: a step it can take for ever, it takes.
JobQueueFairness ==
  /\ \A w \in Workers : WF_jobQueueVars(WorkerStep(w))
  /\ \A e \in Enqueuers : WF_jobQueueVars(EnqueuerStep(e))

JobQueueSpec == JobQueueInit /\ [][JobQueueNext]_jobQueueVars /\ JobQueueFairness

-----------------------------------------------------------------------------

Holding == {t \in Threads : held[t] # NoJob}
Taking  == {w \in Workers : jobPc[w] \in {"lock", "take"}}   \* past sem_wait
Linked  == {e \in Enqueuers : jobPc[e] = "post"}             \* not yet posted
Inside  == {t \in Threads : jobPc[t] \in {"take", "unlock", "link", "post", "unlock new"}}

WorkerPc   == {"wait", "lock", "take", "unlock", "process"}
EnqueuerPc == {"new", "lock new", "link", "post", "unlock new"}

JobQueueTypeOK ==
  /\ job_queue \in Seq(Jobs) /\ job_queue_count \in Nat
  /\ job_queue_mutex \in Threads \cup {Nobody}
  /\ jobPc \in [Threads -> WorkerPc \cup EnqueuerPc]
  /\ \A t \in Threads : jobPc[t] \in (IF t \in Workers THEN WorkerPc ELSE EnqueuerPc)
  /\ held \in [Threads -> Jobs \cup {NoJob}]
  /\ waiting \subseteq Jobs /\ done \subseteq Jobs

\* One thread at a time is between lock and unlock (53-61, 82-93).
QueueMutex == \A t \in Inside : job_queue_mutex = t

\* The list has a job for the count of the semaphore, for every thread that
\* has passed sem_wait and has not taken one, and for one not yet posted (90).
CountIsOfJobs ==
  Len(job_queue) = job_queue_count + Cardinality(Taking) + Cardinality(Linked)

\* "Because of the semaphore, we know the queue is not empty" (54): the thread
\* that has the mutex after sem_wait finds a job.
QueueNotEmptyAfterWait == \A w \in Workers : jobPc[w] = "take" => job_queue # <<>>

\* A job is in one place: still to come, with one thread, in the list once, or
\* done.  No two threads process or free the same one (65-67).
EachJobInOnePlace ==
  /\ \A t, u \in Holding : t # u => held[t] # held[u]
  /\ \A i, k \in 1 .. Len(job_queue) : i # k => job_queue[i] # job_queue[k]
  /\ \A i \in 1 .. Len(job_queue), t \in Holding : held[t] # job_queue[i]
  /\ \A i \in 1 .. Len(job_queue) : job_queue[i] \notin waiting \cup done
  /\ \A t \in Holding : held[t] \notin waiting \cup done
  /\ waiting \cap done = {}

\* Every job that was allocated is processed in the end, although the newest are
\* taken first and a thread may wait for the mutex behind every other.
EveryJobIsDone == \A j \in Jobs : (j \notin waiting) ~> (j \in done)

\* A thread has a job exactly between the steps that give it one and take it away.
HeldMatchesPc ==
  \A t \in Threads :
    held[t] # NoJob <=> jobPc[t] \in {"unlock", "process", "lock new", "link"}

\* The inductive invariant.
JobInv ==
  /\ JobQueueTypeOK /\ QueueMutex /\ HeldMatchesPc /\ CountIsOfJobs /\ EachJobInOnePlace
===============================================================================
