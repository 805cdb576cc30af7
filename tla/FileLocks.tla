------------------------------ MODULE FileLocks ------------------------------
(***************************************************************************)
(* The lock programs of ch07: lock2.c, whose processes exclude each other  *)
(* with a file made with O_EXCL, and lock3.c and lock5.c, which lock       *)
(* regions of a file with fcntl.  A step is one system call; a process may *)
(* be killed between any two.  The kernel gives the regions of a process   *)
(* back when it ends, but nobody removes the lock file of a dead process.  *)
(***************************************************************************)
EXTENDS Naturals, FiniteSets, Sequences

CONSTANTS
  Lockers,   \* the processes
  Tries,     \* how often lock2 tries (10 in the code)
  FileBytes  \* the bytes of the file that are looked at, one of each part
             \* that some region separates

ASSUME FileLocksAssumption == Tries \in Nat \ {0} /\ FileBytes \subseteq 0 .. 99

VARIABLES
  does,      \* the program of each process
  lockPc,    \* "try", "inside", "calls", "closes", "killed" or "ended"
  triesLeft, \* of the loop
  lock_file, \* it exists
  fcntls,    \* the fcntl calls of p so far
  locked,    \* the lock of p on each byte
  diedInside \* history: the processes killed between open and unlink

lockVars == <<does, lockPc, triesLeft, lock_file, fcntls, locked, diedInside>>

Region(start, len) == FileBytes \cap (start .. start + len - 1)
Fcntl(cmd, type, start, len) == [cmd |-> cmd, type |-> type, on |-> Region(start, len)]

\* The shared region 10 -> 30 and the exclusive one 40 -> 50.
Lock3Calls == << Fcntl("F_SETLK", "F_RDLCK", 10, 20), Fcntl("F_SETLK", "F_WRLCK", 40, 10) >>

Lock5Calls == << Fcntl("F_SETLK", "F_RDLCK", 10, 5), Fcntl("F_SETLK", "F_UNLCK", 10, 5),
                 Fcntl("F_SETLK", "F_UNLCK", 0, 50), Fcntl("F_SETLK", "F_WRLCK", 16, 5),
                 Fcntl("F_SETLK", "F_RDLCK", 40, 10), Fcntl("F_SETLKW", "F_WRLCK", 16, 5) >>

CallsOf(p) == IF does[p] = "lock3" THEN Lock3Calls ELSE Lock5Calls

Unlocked == [b \in FileBytes |-> "F_UNLCK"]

LocksInit ==
  /\ does \in [Lockers -> {"lock3", "lock5"}] \cup {[p \in Lockers |-> "lock2"]}
  /\ lockPc = [p \in Lockers |-> IF does[p] = "lock2" THEN "try" ELSE "calls"]
  /\ triesLeft = [p \in Lockers |-> Tries] /\ lock_file = FALSE
  /\ fcntls = [p \in Lockers |-> 0] /\ locked = [p \in Lockers |-> Unlocked]
  /\ diedInside = {}

LockerMoves(p, from, to) == lockPc[p] = from /\ lockPc' = [lockPc EXCEPT ![p] = to]

\* Mutant of OpenLock: only the tries that get the file are counted.
OpenUncounted(p) ==
  /\ triesLeft[p] > 0
  /\ \/ /\ ~lock_file /\ lock_file' = TRUE /\ LockerMoves(p, "try", "inside")
        /\ triesLeft' = [triesLeft EXCEPT ![p] = @ - 1]
     \/ lock_file /\ LockerMoves(p, "try", "try") /\ UNCHANGED <<lock_file, triesLeft>>
  /\ UNCHANGED <<does, fcntls, locked, diedInside>>

\* Mutant of OpenLock: open without O_EXCL.
OpenAnyway(p) ==
  /\ triesLeft[p] > 0 /\ triesLeft' = [triesLeft EXCEPT ![p] = @ - 1]
  /\ lock_file' = TRUE /\ LockerMoves(p, "try", "inside")
  /\ UNCHANGED <<does, fcntls, locked, diedInside>>

\* lock2: open with O_CREAT and O_EXCL; when the file is there, sleep and try again.
OpenLock(p) ==
  /\ triesLeft[p] > 0 /\ triesLeft' = [triesLeft EXCEPT ![p] = @ - 1]
  /\ \/ ~lock_file /\ lock_file' = TRUE /\ LockerMoves(p, "try", "inside")
     \/ lock_file /\ LockerMoves(p, "try", "try") /\ UNCHANGED lock_file
  /\ UNCHANGED <<does, fcntls, locked, diedInside>>

\* The critical region ends: close and unlink.
UnlinkLock(p) ==
  /\ LockerMoves(p, "inside", "try") /\ lock_file' = FALSE
  /\ UNCHANGED <<does, triesLeft, fcntls, locked, diedInside>>

LastTry(p) ==
  /\ triesLeft[p] = 0 /\ LockerMoves(p, "try", "ended")
  /\ UNCHANGED <<does, triesLeft, lock_file, fcntls, locked, diedInside>>

\* The processes with a lock that conflicts with the lock p asks for.
InTheWay(p, c) ==
  {q \in Lockers \ {p} : \E b \in c.on :
     \/ c.type = "F_WRLCK" /\ locked[q][b] # "F_UNLCK"
     \/ c.type = "F_RDLCK" /\ locked[q][b] = "F_WRLCK"}

\* lock3 and lock5: the next fcntl.  F_SETLK fails when a lock is in the way
\* and the program goes on without it; F_SETLKW waits.
NextFcntl(p) ==
  /\ fcntls[p] < Len(CallsOf(p))
  /\ LET c == CallsOf(p)[fcntls[p] + 1] IN
       \/ /\ InTheWay(p, c) = {}
          /\ locked' = [locked EXCEPT ![p] =
                          [b \in FileBytes |-> IF b \in c.on THEN c.type ELSE @[b]]]
       \/ InTheWay(p, c) # {} /\ c.cmd = "F_SETLK" /\ UNCHANGED locked
  /\ fcntls' = [fcntls EXCEPT ![p] = @ + 1]
  /\ LockerMoves(p, "calls", IF fcntls'[p] = Len(CallsOf(p)) THEN "closes" ELSE "calls")
  /\ UNCHANGED <<does, triesLeft, lock_file, diedInside>>

\* After its sleep (lock3) the program closes the file, which gives up its locks.
CloseLocked(p) ==
  /\ LockerMoves(p, "closes", "ended") /\ locked' = [locked EXCEPT ![p] = Unlocked]
  /\ UNCHANGED <<does, triesLeft, lock_file, fcntls, diedInside>>

LockerKilled(p) ==
  /\ lockPc[p] \notin {"killed", "ended"} /\ lockPc' = [lockPc EXCEPT ![p] = "killed"]
  /\ locked' = [locked EXCEPT ![p] = Unlocked]
  /\ diedInside' = IF lockPc[p] = "inside" THEN diedInside \cup {p} ELSE diedInside
  /\ UNCHANGED <<does, triesLeft, lock_file, fcntls>>

LockerStep(p) ==
  OpenLock(p) \/ UnlinkLock(p) \/ LastTry(p) \/ NextFcntl(p) \/ CloseLocked(p)

LocksNext == \E p \in Lockers : LockerStep(p) \/ LockerKilled(p)

LocksSpec == LocksInit /\ [][LocksNext]_lockVars

-----------------------------------------------------------------------------

\* One process at most is in the critical region of lock2.c, or died there and
\* shuts out the others for ever: exactly one while the lock file exists.
LockFileIsOfOne ==
  Cardinality({p \in Lockers : lockPc[p] = "inside"} \cup diedInside)
    = IF lock_file THEN 1 ELSE 0

\* A program that has made its first call comes to its end, or is killed: lock2.c also
\* when the lock file is left there by a dead process (its tries are counted, 13), and
\* lock5.c although it waits in F_SETLKW while it holds another region (the one it
\* waits for never waits for it).
LockersEnd ==
  \A p \in Lockers :
    (triesLeft[p] < Tries \/ fcntls[p] > 0) ~> (lockPc[p] \in {"ended", "killed"})

-----------------------------------------------------------------------------
(* The inductive invariant.                                                *)

LockTypes == {"F_UNLCK", "F_RDLCK", "F_WRLCK"}

LocksTypeOK ==
  /\ does \in [Lockers -> {"lock2", "lock3", "lock5"}]
  /\ lockPc \in [Lockers -> {"try", "inside", "calls", "closes", "killed", "ended"}]
  /\ lock_file \in BOOLEAN /\ fcntls \in [Lockers -> Nat]
  /\ locked \in [Lockers -> [FileBytes -> LockTypes]]

Owners == {p \in Lockers : lockPc[p] = "inside"} \cup diedInside

\* The lock file has one owner, in the critical region or dead.
LockFileOwner ==
  /\ diedInside \subseteq {p \in Lockers : lockPc[p] = "killed"}
  /\ IF lock_file THEN \E p \in Lockers : Owners = {p} ELSE Owners = {}

FileLocksInv == LocksTypeOK /\ LockFileOwner

===============================================================================
