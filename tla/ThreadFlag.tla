------------------------------ MODULE ThreadFlag ------------------------------
(***************************************************************************)
(* ALP chapter 4, condvar.c and spin-condvar.c: a thread that works while  *)
(* a flag is set.  In the first it waits on a condition variable while the *)
(* flag is clear, in the second it looks again and again.  Other threads   *)
(* set and clear the flag.  A step is one call, or one access to the flag. *)
(***************************************************************************)
EXTENDS Naturals, FiniteSets

CONSTANTS Setters,   \* the threads that call set_thread_flag
          MaxSets    \* bound on those calls, by all of them

ASSUME ThreadFlagAssumption == MaxSets \in Nat /\ {"worker", "none"} \cap Setters = {}

VARIABLES
  spins,        \* the program is spin-condvar.c
  thread_flag,
  flagMutex,    \* the holder of thread_flag_mutex, or "none"
  cvWaiting,    \* the worker is blocked in pthread_cond_wait
  workerPc,
  flag_is_set,  \* what the worker of spin-condvar.c has seen
  setPc, setTo, \* the setters, and the argument of their call
  sets          \* calls of set_thread_flag so far

threadFlagVars == <<spins, thread_flag, flagMutex, cvWaiting, workerPc, flag_is_set,
                    setPc, setTo, sets>>

initialize_flag ==
  /\ spins \in BOOLEAN
  /\ thread_flag = 0 /\ flagMutex = "none" /\ cvWaiting = FALSE
  /\ workerPc = "lock" /\ flag_is_set = 0
  /\ setPc = [s \in Setters |-> "idle"] /\ setTo = [s \in Setters |-> 0] /\ sets = 0

setterVars == <<setPc, setTo, sets, spins>>
WorkerMoves(from, to) == workerPc = from /\ workerPc' = to

Acquire(t) == flagMutex = "none" /\ flagMutex' = t

LockFlag ==
  /\ WorkerMoves("lock", "test") /\ Acquire("worker")
  /\ UNCHANGED <<thread_flag, cvWaiting, flag_is_set, setterVars>>

\* Mutant of TestFlag: the mutex is released before the wait begins.
TestUnlocked ==
  /\ ~spins /\ UNCHANGED <<thread_flag, flag_is_set, setterVars>>
  /\ \/ thread_flag = 0 /\ WorkerMoves("test", "wait") /\ flagMutex' = "none" /\ UNCHANGED cvWaiting
     \/ WorkerMoves("wait", "woken") /\ cvWaiting' = TRUE /\ UNCHANGED flagMutex
     \/ thread_flag # 0 /\ WorkerMoves("test", "unlock") /\ UNCHANGED <<flagMutex, cvWaiting>>

\* condvar.c: pthread_cond_wait releases the mutex and blocks in one step.
TestFlag ==
  /\ ~spins /\ UNCHANGED <<thread_flag, flag_is_set, setterVars>>
  /\ \/ /\ thread_flag = 0 /\ WorkerMoves("test", "woken")
        /\ cvWaiting' = TRUE /\ flagMutex' = "none"
     \/ thread_flag # 0 /\ WorkerMoves("test", "unlock") /\ UNCHANGED <<flagMutex, cvWaiting>>

\* The library may end a wait without a signal.
SpuriousWakeup ==
  /\ cvWaiting /\ cvWaiting' = FALSE
  /\ UNCHANGED <<thread_flag, flagMutex, workerPc, flag_is_set, setterVars>>

\* Mutant of Woken: the flag is not looked at again.
WokenWorks ==
  /\ ~cvWaiting /\ WorkerMoves("woken", "unlock") /\ Acquire("worker")
  /\ UNCHANGED <<thread_flag, cvWaiting, flag_is_set, setterVars>>

\* A thread that was woken has the mutex before pthread_cond_wait returns.
Woken ==
  /\ ~cvWaiting /\ WorkerMoves("woken", "test") /\ Acquire("worker")
  /\ UNCHANGED <<thread_flag, cvWaiting, flag_is_set, setterVars>>

\* spin-condvar.c
ReadFlag ==
  /\ spins /\ WorkerMoves("test", "unlock") /\ flag_is_set' = thread_flag
  /\ UNCHANGED <<thread_flag, flagMutex, cvWaiting, setterVars>>

UnlockFlag ==
  /\ WorkerMoves("unlock", IF spins /\ flag_is_set = 0 THEN "lock" ELSE "work")
  /\ flagMutex' = "none" /\ UNCHANGED <<thread_flag, cvWaiting, flag_is_set, setterVars>>

do_work ==
  /\ WorkerMoves("work", "lock")
  /\ UNCHANGED <<thread_flag, flagMutex, cvWaiting, flag_is_set, setterVars>>

WorkerRuns == LockFlag \/ TestFlag \/ Woken \/ ReadFlag \/ UnlockFlag \/ do_work

\* set_thread_flag
SetterMoves(s, from, to) == setPc[s] = from /\ setPc' = [setPc EXCEPT ![s] = to]

CallSet(s) ==
  /\ SetterMoves(s, "idle", "lock") /\ sets < MaxSets /\ sets' = sets + 1
  /\ \E v \in {0, 1} : setTo' = [setTo EXCEPT ![s] = v]
  /\ UNCHANGED <<spins, thread_flag, flagMutex, cvWaiting, workerPc, flag_is_set>>

\* Mutant of SetterRuns: pthread_cond_signal is not called.
SetSilently(s) ==
  /\ UNCHANGED <<spins, setTo, sets, workerPc, flag_is_set, cvWaiting>>
  /\ \/ SetterMoves(s, "lock", "assign") /\ Acquire(s) /\ UNCHANGED thread_flag
     \/ SetterMoves(s, "assign", "unlock") /\ thread_flag' = setTo[s] /\ UNCHANGED flagMutex
     \/ SetterMoves(s, "unlock", "idle") /\ flagMutex' = "none" /\ UNCHANGED thread_flag

SetterRuns(s) ==
  /\ UNCHANGED <<spins, setTo, sets, workerPc, flag_is_set>>
  /\ \/ SetterMoves(s, "lock", "assign") /\ Acquire(s) /\ UNCHANGED <<thread_flag, cvWaiting>>
     \/ /\ SetterMoves(s, "assign", "signal") /\ thread_flag' = setTo[s]
        /\ UNCHANGED <<flagMutex, cvWaiting>>
     \/ /\ SetterMoves(s, "signal", "unlock") /\ UNCHANGED <<thread_flag, flagMutex>>
        /\ IF spins THEN UNCHANGED cvWaiting ELSE cvWaiting' = FALSE
     \/ /\ SetterMoves(s, "unlock", "idle") /\ flagMutex' = "none"
        /\ UNCHANGED <<thread_flag, cvWaiting>>

ThreadFlagNext == WorkerRuns \/ SpuriousWakeup \/ (\E s \in Setters : CallSet(s) \/ SetterRuns(s))

\* Threads are scheduled; nothing says who gets a mutex that others want too.
ThreadFlagFairness ==
  /\ WF_threadFlagVars(WorkerRuns)
  /\ \A s \in Setters : WF_threadFlagVars(SetterRuns(s))

ThreadFlagSpec == initialize_flag /\ [][ThreadFlagNext]_threadFlagVars /\ ThreadFlagFairness

-----------------------------------------------------------------------------

Quiet == \A s \in Setters : setPc[s] = "idle"
Working == workerPc = "work"

\* No wake-up is lost between the test of the flag and the wait (30-37): a
\* worker that waits while the flag is set has a signal coming from the setter
\* that set it and still holds the mutex.
NoLostWakeup ==
  cvWaiting /\ thread_flag = 1 =>
    \E s \in Setters : setPc[s] = "signal" /\ flagMutex = s

\* "Calls do_work repeatedly while the thread flag is set" (condvar.c 24,
\* spin-condvar.c 17): once the flag stays set, work is done again and again.
WorksWhileSet == <>[](thread_flag = 1 /\ Quiet) => []<>Working

\* "blocks if the flag is clear" (25): once it stays clear, no more work.
StopsWhileClear == <>[](thread_flag = 0 /\ Quiet) => <>[]~Working

\* The worker follows the flag: it works while the flag is set and stops while it is clear.
WorkerFollowsFlag == WorksWhileSet /\ StopsWhileClear

-----------------------------------------------------------------------------
(* The inductive invariant.                                                *)

SetterPc == {"idle", "lock", "assign", "signal", "unlock"}

FlagTypeOK ==
  /\ spins \in BOOLEAN /\ thread_flag \in {0, 1} /\ cvWaiting \in BOOLEAN
  /\ flagMutex \in Setters \cup {"worker", "none"}
  /\ workerPc \in {"lock", "test", "woken", "unlock", "work"}
  /\ setPc \in [Setters -> SetterPc] /\ setTo \in [Setters -> {0, 1}]

\* The flag is read and written by the holder of the mutex only, and a worker
\* that waits does not have it.
FlagMutexInv ==
  /\ \A s \in Setters : setPc[s] \in {"assign", "signal", "unlock"} <=> flagMutex = s
  /\ workerPc \in {"test", "unlock"} <=> flagMutex = "worker"
  /\ cvWaiting => workerPc = "woken" /\ ~spins

FlagInv == FlagTypeOK /\ FlagMutexInv /\ NoLostWakeup

===============================================================================
