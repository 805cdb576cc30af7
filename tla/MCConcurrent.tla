----------------------------- MODULE MCConcurrent -----------------------------
(***************************************************************************)
(* Model checking of the programs whose threads or processes run at the    *)
(* same time, which share nothing with one another: a behaviour is one of  *)
(* theirs, chosen in the initial state.  What the others could choose is   *)
(* fixed, and they do not move.                                            *)
(***************************************************************************)
EXTENDS JobQueue, JobDrain, ThreadFlag, Handoff, SemExclusion, Cancellation, WorkArea,
        ThreadBasics, Servers, FileLocks, TLC

CONSTANTS conn1, conn2

MCChain   == <<1, 2, 3>>
MCOpening == [a \in Accounts |-> IF a = "a1" THEN 2 ELSE 1]
MCKinds   == conn1 :> {"protocol", "diskfree", "ok"} @@ conn2 :> {"method"}

VARIABLE program

Programs == {"jobs", "drain", "flag", "handoff", "semaphore", "cancel", "work", "basics",
             "web", "sockets", "locks"}

concurrentVars == <<jobQueueVars, jobDrainVars, threadFlagVars, handoffVars, semVars, cancelVars,
                    workVars, basicVars, webVars, socketVars, lockVars, program>>

ConcurrentInit ==
  /\ program \in Programs
  /\ program # "drain"   => drainers = Drainers
  /\ program # "flag"    => spins = FALSE
  /\ program # "handoff" => medium = "shm"
  /\ program # "cancel"  => body = "loop"
  /\ program # "work"    => work_program = "thread3"
  /\ program # "basics"  => example = "thread1" /\ which_prime = 1
  /\ program # "sockets" => server = "server3"
  /\ program # "locks"   => does = [p \in Lockers |-> "lock2"]
  /\ JobQueueInit /\ JobDrainInit /\ initialize_flag /\ HandoffInit /\ SemInit /\ CancelInit
  /\ WorkInit /\ BasicsInit /\ WebInit /\ SocketsInit /\ LocksInit

Only(p) ==
  /\ program = p /\ UNCHANGED program
  /\ p # "jobs"      => UNCHANGED jobQueueVars
  /\ p # "drain"     => UNCHANGED jobDrainVars
  /\ p # "flag"      => UNCHANGED threadFlagVars
  /\ p # "handoff"   => UNCHANGED handoffVars
  /\ p # "semaphore" => UNCHANGED semVars
  /\ p # "cancel"    => UNCHANGED cancelVars
  /\ p # "work"      => UNCHANGED workVars
  /\ p # "basics"    => UNCHANGED basicVars
  /\ p # "web"       => UNCHANGED webVars
  /\ p # "sockets"   => UNCHANGED socketVars
  /\ p # "locks"     => UNCHANGED lockVars

\* A bound: the second client of the web server sends its request as a whole and stays.
SecondClientStays == sent'[conn2] \in {0, Pieces} /\ hangup'[conn2] = "none"

ConcurrentNext ==
  \/ Only("jobs") /\ JobQueueNext
  \/ Only("drain") /\ JobDrainNext
  \/ Only("flag") /\ ThreadFlagNext
  \/ Only("handoff") /\ HandoffNext
  \/ Only("semaphore") /\ SemNext
  \/ Only("cancel") /\ CancelNext
  \/ Only("work") /\ WorkNext
  \/ Only("basics") /\ BasicsNext
  \/ Only("web") /\ WebNext /\ SecondClientStays
  \/ Only("sockets") /\ SocketsNext
  \/ Only("locks") /\ LocksNext

\* The fairness of each module, of the program that runs.
ConcurrentFairness ==
  /\ \A w \in Workers : WF_jobQueueVars(program = "jobs" /\ WorkerStep(w))
  /\ \A e \in Enqueuers : WF_jobQueueVars(program = "jobs" /\ EnqueuerStep(e))
  /\ \A d \in Drainers : WF_jobDrainVars(program = "drain" /\ d \in drainers /\ DrainStep(d))
  /\ WF_threadFlagVars(program = "flag" /\ WorkerRuns)
  /\ \A s \in Setters : WF_threadFlagVars(program = "flag" /\ SetterRuns(s))
  /\ WF_handoffVars(program = "handoff" /\ ProducerStep)
  /\ WF_handoffVars(program = "handoff" /\ ConsumerStep)
  /\ \A p \in Procs : WF_semVars(program = "semaphore" /\ SemStep(p))
  /\ SF_workVars(program = "work" /\ TypistRuns) /\ SF_workVars(program = "work" /\ CounterRuns)
  /\ WF_webVars(program = "web" /\ ServerRuns)
  /\ \A c \in Connections : /\ WF_webVars(program = "web" /\ ChildRuns(c))
                            /\ WF_webVars(program = "web" /\ DfEnds(c))
  /\ WF_socketVars(program = "sockets" /\ SocketServerRuns)
  /\ \A c \in Clients : /\ WF_socketVars(program = "sockets" /\ ClientRuns(c))
                        /\ WF_socketVars(program = "sockets" /\ Child4(c))
  /\ \A p \in Lockers : WF_lockVars(program = "locks" /\ LockerStep(p))

ConcurrentSpec ==
  ConcurrentInit /\ [][ConcurrentNext]_concurrentVars /\ ConcurrentFairness

-----------------------------------------------------------------------------

\* Nobody waits for ever for a lock, a semaphore, a text or a job: every job is done and every
\* thread and process that can end does, in each program (job-queue3.c 47-68, job-queue2.c
\* 30-56, shm1.c 45, sem1.c 95-124, thread4.c 32-60, lock2.c and lock5.c).
EverybodyEnds ==
  /\ EveryJobIsDone /\ DrainersEnd
  /\ EndReachesReader /\ UsersOfTheSemaphoreEnd /\ LockersEnd
  /\ EndEndsBoth
===============================================================================
