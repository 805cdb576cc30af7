----------------------------- MODULE SemExclusion -----------------------------
(***************************************************************************)
(* ch14, sem1.c: processes that enter and leave a critical section under a *)
(* System V semaphore.  The one with an argument ("the first to be         *)
(* called") sets it to 1 and removes it at its end.  Every operation has   *)
(* SEM_UNDO: the kernel takes back what a process that dies has not.  A    *)
(* step is one system call; a process may be killed between any two.       *)
(***************************************************************************)
EXTENDS Integers, FiniteSets

CONSTANTS Procs, FirstProc,  \* the processes, and the one with an argument
          Rounds           \* how often each enters (10 in the code)

ASSUME SemExclusionAssumption == FirstProc \in Procs /\ Rounds \in Nat \ {0}

VARIABLES
  semId,    \* the semaphores of key 1234 so far; the last exists iff semThere
  semThere,
  semval,   \* the value of the last one
  semadj,   \* what the kernel will add when the process ends
  sem_id,   \* the one each process got from semget
  semPc, semI, \* where each is, and the loop counter
  setId     \* history: the semaphore that was set

semVars == <<semId, semThere, semval, semadj, sem_id, semPc, semI, setId>>

SemInit ==
  /\ semId = 0 /\ semThere = FALSE /\ semval = 0
  /\ semadj = [p \in Procs |-> 0] /\ sem_id = [p \in Procs |-> 0]
  /\ semPc = [p \in Procs |-> "start"] /\ semI = [p \in Procs |-> 0] /\ setId = 0

SemMoves(p, from, to) == semPc[p] = from /\ semPc' = [semPc EXCEPT ![p] = to]
HasSem(p) == semThere /\ sem_id[p] = semId

\* semget with IPC_CREAT; a new semaphore has the value 0.
SemGet(p) ==
  /\ SemMoves(p, "start", IF p = FirstProc THEN "set" ELSE "p")
  /\ semThere' = TRUE
  /\ IF semThere THEN UNCHANGED <<semId, semval>> ELSE semId' = semId + 1 /\ semval' = 0
  /\ sem_id' = [sem_id EXCEPT ![p] = semId']
  /\ UNCHANGED <<semadj, semI, setId>>

\* SETVAL also forgets what was to be undone.
set_semvalue ==
  /\ SemMoves(FirstProc, "set", "p") /\ HasSem(FirstProc)
  /\ semval' = 1 /\ semadj' = [p \in Procs |-> 0] /\ setId' = semId
  /\ UNCHANGED <<semId, semThere, sem_id, semI>>

\* A call on a semaphore that was removed fails, also when it was blocked.
semaphore_p(p) ==
  \/ /\ SemMoves(p, "p", "inside") /\ HasSem(p) /\ semval > 0
     /\ semval' = semval - 1 /\ semadj' = [semadj EXCEPT ![p] = @ + 1]
     /\ UNCHANGED <<semId, semThere, sem_id, semI, setId>>
  \/ /\ SemMoves(p, "p", "failed") /\ ~HasSem(p)
     /\ UNCHANGED <<semId, semThere, semval, semadj, sem_id, semI, setId>>

\* Mutant of semaphore_v: the semaphore is not raised.
vWithoutPlus(p) ==
  LET last == semI[p] + 1 = Rounds IN
  /\ SemMoves(p, "inside", IF ~last THEN "p" ELSE IF p = FirstProc THEN "delete" ELSE "ended")
  /\ semI' = [semI EXCEPT ![p] = @ + 1]
  /\ UNCHANGED <<semId, semThere, semval, semadj, sem_id, setId>>

semaphore_v(p) ==
  LET last == semI[p] + 1 = Rounds IN
  \/ /\ SemMoves(p, "inside", IF ~last THEN "p" ELSE IF p = FirstProc THEN "delete" ELSE "ended")
     /\ HasSem(p) /\ semval' = semval + 1 /\ semadj' = [semadj EXCEPT ![p] = @ - 1]
     /\ semI' = [semI EXCEPT ![p] = @ + 1]
     /\ UNCHANGED <<semId, semThere, sem_id, setId>>
  \/ /\ SemMoves(p, "inside", "failed") /\ ~HasSem(p)
     /\ UNCHANGED <<semId, semThere, semval, semadj, sem_id, semI, setId>>

\* IPC_RMID, 10 seconds after the last round, whoever still uses it.
del_semvalue ==
  /\ SemMoves(FirstProc, "delete", "ended") /\ semThere' = FALSE
  /\ UNCHANGED <<semId, semval, semadj, sem_id, semI, setId>>

\* Mutant of Killed: the operations have no SEM_UNDO.
KilledNoUndo(p) ==
  /\ semPc[p] \in {"start", "set", "p", "inside", "delete"}
  /\ semPc' = [semPc EXCEPT ![p] = "killed"]
  /\ UNCHANGED <<semId, semThere, semval, semadj, sem_id, semI, setId>>

Killed(p) ==
  /\ semPc[p] \in {"start", "set", "p", "inside", "delete"}
  /\ semPc' = [semPc EXCEPT ![p] = "killed"]
  /\ semval' = IF HasSem(p) THEN semval + semadj[p] ELSE semval
  /\ semadj' = [semadj EXCEPT ![p] = 0]
  /\ UNCHANGED <<semId, semThere, sem_id, semI, setId>>

SemStep(p) ==
  \/ SemGet(p) \/ semaphore_p(p) \/ semaphore_v(p)
  \/ p = FirstProc /\ (set_semvalue \/ del_semvalue)

SemNext == \E p \in Procs : SemStep(p) \/ Killed(p)

\* Each process goes on.
SemFairness == \A p \in Procs : WF_semVars(SemStep(p))

SemSpec == SemInit /\ [][SemNext]_semVars /\ SemFairness

-----------------------------------------------------------------------------

InSection == {p \in Procs : semPc[p] = "inside" /\ HasSem(p)}

\* The semaphore that was set is 1 when nobody is in the critical section and
\* 0 when one is, whoever was killed wherever: not two at a time, and none shut
\* out for ever by a process that died inside (SEM_UNDO, 105 and 120).
SectionIsFreeOrOneInside ==
  semThere /\ setId = semId => semval + Cardinality(InSection) = 1

\* Each process that got the semaphore the first one has set comes to an end.
UsersOfTheSemaphoreEnd ==
  \A p \in Procs :
    (semPc[p] = "p" /\ setId # 0 /\ sem_id[p] = setId)
      ~> semPc[p] \in {"ended", "failed", "killed"}

-----------------------------------------------------------------------------
(* The inductive invariant.                                                *)

SemTypeOK ==
  /\ semId \in Nat /\ semThere \in BOOLEAN /\ setId \in 0 .. semId
  /\ sem_id \in [Procs -> 0 .. semId] /\ semI \in [Procs -> Nat]
  /\ semPc \in [Procs -> {"start", "set", "p", "inside", "delete", "ended", "failed", "killed"}]
  /\ semval \in Nat /\ semadj \in [Procs -> Int]
  /\ semThere => semId # 0
  /\ \A p \in Procs : semPc[p] = "start" => semadj[p] = 0

\* Only the first process sets the semaphore, once, and removes it.
SetOnce ==
  /\ semPc[FirstProc] \in {"start", "set"} => setId = 0
  /\ semPc[FirstProc] = "set" => HasSem(FirstProc)
  /\ \A p \in Procs \ {FirstProc} : semPc[p] \notin {"set", "delete"}

\* What the kernel will undo is the process that is inside; a semaphore that was
\* not set lets nobody in.
UndoInv ==
  semThere =>
    IF setId = semId
    THEN /\ \/ semval = 1 /\ InSection = {}
            \/ semval = 0 /\ \E p \in Procs : InSection = {p}
         /\ \A p \in Procs : HasSem(p) => semadj[p] = IF semPc[p] = "inside" THEN 1 ELSE 0
    ELSE /\ semval = 0 /\ InSection = {}
         /\ \A p \in Procs : HasSem(p) => semadj[p] = 0

SemInv == SemTypeOK /\ SetOnce /\ UndoInv

===============================================================================
