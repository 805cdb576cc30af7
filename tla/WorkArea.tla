-------------------------------- MODULE WorkArea --------------------------------
(***************************************************************************)
(* ch12: main types texts into a work area and a thread counts their       *)
(* letters, until the text "end".  thread3.c and thread3a.c tell the       *)
(* thread with a semaphore, thread4.c takes turns under a mutex.  A step   *)
(* is one call, or one access to the work area.                            *)
(***************************************************************************)
EXTENDS Naturals, Sequences

CONSTANTS Lines,     \* what is typed besides "end" and "FAST"
          MaxLines   \* bound on the lines typed, "end" included

\* The work area without a text: work_area[0] is '\0'.
NoText == ""

ASSUME WorkAreaAssumption ==
  MaxLines \in Nat \ {0} /\ {NoText, "end", "FAST", "Wheeee..."} \cap Lines = {}

VARIABLES
  work_program,       \* "thread3", "thread3a" or "thread4"
  work_area, bin_sem, work_mutex, time_to_exit,
  typistPc, countPc,   \* main and thread_function
  typed, counted       \* history: the lines typed, the texts counted

workVars == <<work_program, work_area, bin_sem, work_mutex, time_to_exit, typistPc, countPc,
              typed, counted>>

WorkInit ==
  /\ work_program \in {"thread3", "thread3a", "thread4"}
  /\ work_area = NoText /\ bin_sem = 0 /\ work_mutex = "none" /\ time_to_exit = FALSE
  /\ typistPc = (IF work_program = "thread4" THEN "lock" ELSE "test")
  /\ countPc = (IF work_program = "thread4" THEN "lock" ELSE "wait")
  /\ typed = <<>> /\ counted = <<>>

Typist(from, to) ==
  typistPc = from /\ typistPc' = to /\ UNCHANGED <<work_program, countPc, counted>>
Counter(from, to) ==
  countPc = from /\ countPc' = to /\ UNCHANGED <<work_program, typistPc, typed>>

TypedLines == Lines \cup {"end"} \cup (IF work_program = "thread3a" THEN {"FAST"} ELSE {})

\* fgets(work_area)
Fgets ==
  /\ \E line \in TypedLines :
       /\ Len(typed) = MaxLines - 1 => line = "end"
       /\ work_area' = line /\ typed' = Append(typed, line)
  /\ UNCHANGED <<bin_sem, work_mutex, time_to_exit>>

PostSem == bin_sem' = bin_sem + 1 /\ UNCHANGED <<work_mutex, time_to_exit>>

\* thread3.c and thread3a.c, main

TestLine ==
  /\ work_program # "thread4"
  /\ Typist("test", CASE work_area = "end" -> "join"
                      [] work_area = "FAST" /\ work_program = "thread3a" -> "fast"
                      [] OTHER -> "type")
  /\ UNCHANGED <<work_area, bin_sem, work_mutex, time_to_exit, typed>>

\* thread3a.c posts for "FAST" and writes a text of its own at once.
PostFast   == Typist("fast", "write") /\ PostSem /\ UNCHANGED <<work_area, typed>>
WriteWheee ==
  /\ Typist("write", "post") /\ work_area' = "Wheeee..."
  /\ UNCHANGED <<bin_sem, work_mutex, time_to_exit, typed>>
TypeLine   == work_program # "thread4" /\ Typist("type", "post") /\ Fgets
PostLine   == Typist("post", "test") /\ PostSem /\ UNCHANGED <<work_area, typed>>

\* thread3.c and thread3a.c, thread_function

SemWait3 ==
  /\ Counter("wait", "compare") /\ bin_sem > 0 /\ bin_sem' = bin_sem - 1
  /\ UNCHANGED <<work_area, work_mutex, time_to_exit, counted>>

Compare3 ==
  /\ work_program # "thread4"
  /\ Counter("compare", IF work_area = "end" THEN "ended" ELSE "count")
  /\ UNCHANGED <<work_area, bin_sem, work_mutex, time_to_exit, counted>>

Count3 ==
  /\ work_program # "thread4" /\ Counter("count", "wait") /\ counted' = Append(counted, work_area)
  /\ UNCHANGED <<work_area, bin_sem, work_mutex, time_to_exit>>

\* thread4.c: both sides look at the work area with the mutex, and sleep
\* without it.

LockWork(t) == work_mutex = "none" /\ work_mutex' = t
FreeWork    == work_mutex' = "none"
Rest4       == UNCHANGED <<bin_sem, typed>>

TypistLocks ==
  /\ \E to \in {"type", "look"} :
       Typist(IF to = "type" THEN "lock" ELSE "lock again", to)
  /\ LockWork("main") /\ Rest4 /\ UNCHANGED <<work_area, time_to_exit>>

TypeLine4 ==
  /\ work_program = "thread4" /\ Typist("type", "unlock") /\ Fgets

TypistUnlocks ==
  /\ Typist("unlock", "lock again") /\ FreeWork /\ Rest4
  /\ UNCHANGED <<work_area, time_to_exit>>

\* Not cleared yet: unlock, sleep, lock.  Cleared: the next line, or the end.
TypistLooks ==
  /\ \/ work_area # NoText /\ Typist("look", "lock again") /\ FreeWork
     \/ work_area = NoText /\ ~time_to_exit /\ Typist("look", "type") /\ UNCHANGED work_mutex
     \/ work_area = NoText /\ time_to_exit /\ Typist("look", "join") /\ FreeWork
  /\ Rest4 /\ UNCHANGED <<work_area, time_to_exit>>

CounterLocks ==
  /\ \E to \in {"compare4", "look4"} :
       Counter(IF to = "compare4" THEN "lock" ELSE "sleep4", to)
  /\ LockWork("thread") /\ Rest4 /\ UNCHANGED <<work_area, time_to_exit, counted>>

\* Mutant of Compare4: time_to_exit is not set.
Compare4NoExit ==
  /\ Counter("compare4", IF work_area = "end" THEN "ended" ELSE "sleep4")
  /\ work_area' = NoText /\ FreeWork /\ UNCHANGED <<bin_sem, time_to_exit>>
  /\ counted' = IF work_area = "end" THEN counted ELSE Append(counted, work_area)

\* A text that is not "end" is counted, cleared, and the mutex released.
Compare4 ==
  /\ Counter("compare4", IF work_area = "end" THEN "ended" ELSE "sleep4")
  /\ work_area' = NoText /\ FreeWork /\ UNCHANGED bin_sem
  /\ time_to_exit' = (work_area = "end")
  /\ counted' = IF work_area = "end" THEN counted ELSE Append(counted, work_area)

\* Mutant of LookForWork: the loop that waits for a text is left out.
LookOnce == Counter("look4", "compare4") /\ UNCHANGED <<work_area, work_mutex, time_to_exit,
                                                       bin_sem, counted>>

LookForWork ==
  /\ \/ work_area = NoText /\ Counter("look4", "sleep4") /\ FreeWork
     \/ work_area # NoText /\ Counter("look4", "compare4") /\ UNCHANGED work_mutex
  /\ UNCHANGED <<work_area, time_to_exit, bin_sem, counted>>

JoinCounter ==
  /\ Typist("join", "exit") /\ countPc = "ended"
  /\ UNCHANGED <<work_area, bin_sem, work_mutex, time_to_exit, typed>>

TypistRuns ==
  \/ TestLine \/ PostFast \/ WriteWheee \/ TypeLine \/ PostLine
  \/ TypistLocks \/ TypeLine4 \/ TypistUnlocks \/ TypistLooks \/ JoinCounter

CounterRuns == SemWait3 \/ Compare3 \/ Count3 \/ CounterLocks \/ Compare4 \/ LookForWork

WorkNext == TypistRuns \/ CounterRuns

\* Both run.  In thread4.c each sleeps a second without the mutex whenever it
\* has found nothing to do, so that the other gets it.
WorkFairness == SF_workVars(TypistRuns) /\ SF_workVars(CounterRuns)

WorkSpec == WorkInit /\ [][WorkNext]_workVars /\ WorkFairness

-----------------------------------------------------------------------------

\* The texts counted but the first one when that is empty: the thread that has the
\* mutex before main counts the area as it was.
LinesCounted ==
  IF counted # <<>> /\ Head(counted) = NoText THEN Tail(counted) ELSE counted

\* thread4.c: the thread counts each line the user typed, once and in order,
\* and nothing is typed over it before.
EachLineCountedOnce ==
  work_program = "thread4" =>
    /\ Len(LinesCounted) <= Len(typed)
    /\ LinesCounted = SubSeq(typed, 1, Len(LinesCounted))
    /\ typistPc = "join" => LinesCounted = SubSeq(typed, 1, Len(typed) - 1)

\* The text "end" ends all three programs: the thread sees it, main joins.
EndEndsBoth == (\E i \in DOMAIN typed : typed[i] = "end") ~> typistPc = "exit"
=================================================================================
