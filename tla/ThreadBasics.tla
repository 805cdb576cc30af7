------------------------------ MODULE ThreadBasics ------------------------------
(***************************************************************************)
(* Threads that a main creates and waits for: ch12 thread1.c (a message    *)
(* the thread changes), thread5.c, thread6.c and thread6a.c (a detached    *)
(* thread and a flag), thread8a.c (many threads, each with its number);    *)
(* ALP chapter 4 thread-create2.c (arguments on main's stack), tsd.c (a    *)
(* log for each thread), primes.c (a result).  And thread2.c, two loops    *)
(* that take turns with a variable.                                        *)
(***************************************************************************)
EXTENDS Integers, Sequences, FiniteSets

CONSTANTS NumThreads,  \* of thread8a.c and tsd.c
          PrintCount,  \* the tries of thread2.c (20)
          CharCount,   \* what thread-create2.c prints (30000)
          WhichPrime   \* the arguments given to compute_prime

ASSUME ThreadBasicsAssumption ==
  {NumThreads, PrintCount, CharCount} \subseteq Nat \ {0} /\ WhichPrime \subseteq Nat \ {0}

VARIABLES
  example,   \* the program
  mainAt, lots_of_threads,  \* where main is, and its loop counter
  threadAt,  \* where each thread is
  thread_arg,       \* what pthread_create handed to it
  my_number, \* its copy of the number, or the count of the characters printed
  effect,    \* what it leaves for main: message, thread_finished, a closed log
  threadLog, \* thread_log_key of each thread: the log of which thread, or 0
  run_now, said, tries,  \* thread2.c: whose turn, what was printed, the counters
  which_prime, prime     \* primes.c

basicVars == <<example, mainAt, lots_of_threads, threadAt, thread_arg, my_number, effect,
               threadLog, run_now, said, tries, which_prime, prime>>

Examples == {"thread1", "thread2", "thread5", "thread8a", "thread-create2", "tsd", "primes"}

ThreadCount == CASE example \in {"thread8a", "tsd"} -> NumThreads
           [] example = "thread-create2" -> 2
           [] OTHER -> 1

ThreadIds == 1 .. (NumThreads + 2)

BasicsInit ==
  /\ example \in Examples
  /\ mainAt = "create" /\ lots_of_threads = 1
  /\ threadAt = [t \in ThreadIds |-> "none"] /\ thread_arg = [t \in ThreadIds |-> 0]
  /\ my_number = [t \in ThreadIds |-> 0] /\ effect = [t \in ThreadIds |-> FALSE]
  /\ threadLog = [t \in ThreadIds |-> 0]
  /\ run_now = 1 /\ said = <<>> /\ tries = [w \in {1, 2} |-> 0]
  /\ which_prime \in WhichPrime /\ prime = 0

TurnVars  == <<run_now, said, tries>>
PrimeVars == <<which_prime, prime>>
ThreadVars == <<threadAt, thread_arg, my_number, effect, threadLog>>

-----------------------------------------------------------------------------
\* main

CreateThread ==
  /\ mainAt = "create"
  /\ threadAt' = [threadAt EXCEPT ![lots_of_threads] = "start"]
  /\ thread_arg' = [thread_arg EXCEPT ![lots_of_threads] = lots_of_threads]
  /\ IF lots_of_threads < ThreadCount
     THEN lots_of_threads' = lots_of_threads + 1 /\ UNCHANGED mainAt
     ELSE /\ mainAt' = (CASE example = "thread2" -> "turn" [] example = "thread5" -> "flag"
                          [] OTHER -> "join")
          /\ lots_of_threads' = (IF example = "thread8a" THEN lots_of_threads ELSE 1)
  /\ UNCHANGED <<example, my_number, effect, threadLog, TurnVars, PrimeVars>>

\* Mutant of JoinThreads: main joins one thread only.
JoinOne ==
  /\ mainAt = "join" /\ threadAt[lots_of_threads] = "ended" /\ mainAt' = "exit"
  /\ UNCHANGED <<example, lots_of_threads, ThreadVars, TurnVars, PrimeVars>>

\* One pthread_join after the other; thread8a.c begins with the last.
JoinThreads ==
  LET last == IF example = "thread8a" THEN 1 ELSE ThreadCount IN
  /\ mainAt = "join" /\ threadAt[lots_of_threads] = "ended"
  /\ IF lots_of_threads = last THEN mainAt' = "exit" /\ UNCHANGED lots_of_threads
     ELSE /\ lots_of_threads' = lots_of_threads + (IF example = "thread8a" THEN -1 ELSE 1)
          /\ UNCHANGED mainAt
  /\ UNCHANGED <<example, ThreadVars, TurnVars, PrimeVars>>

\* thread5.c, thread6.c, thread6a.c: the thread is detached; main looks at a flag.
WaitForFlag ==
  /\ mainAt = "flag" /\ effect[1] /\ mainAt' = "exit"
  /\ UNCHANGED <<example, lots_of_threads, ThreadVars, TurnVars, PrimeVars>>

-----------------------------------------------------------------------------
\* The thread functions.

\* Mutant of StartThread: the number is read where main counts (thread8.c).
StartShared(t) ==
  /\ threadAt[t] = "start" /\ threadAt' = [threadAt EXCEPT ![t] = "work"]
  /\ my_number' = [my_number EXCEPT ![t] = IF example = "thread8a" THEN lots_of_threads ELSE 0]
  /\ threadLog' = [threadLog EXCEPT ![t] = IF example = "tsd" THEN t ELSE 0]
  /\ UNCHANGED <<example, mainAt, lots_of_threads, thread_arg, effect, TurnVars, PrimeVars>>

StartThread(t) ==
  /\ threadAt[t] = "start" /\ threadAt' = [threadAt EXCEPT ![t] = "work"]
  /\ my_number' = [my_number EXCEPT ![t] = IF example = "thread8a" THEN thread_arg[t] ELSE 0]
  /\ threadLog' = [threadLog EXCEPT ![t] = IF example = "tsd" THEN t ELSE 0]
  /\ UNCHANGED <<example, mainAt, lots_of_threads, thread_arg, effect, TurnVars, PrimeVars>>

\* thread-create2.c reads p->count, in main's frame, for each character.
PrintChar(t) ==
  /\ example = "thread-create2" /\ threadAt[t] = "work" /\ my_number[t] < CharCount
  /\ my_number' = [my_number EXCEPT ![t] = @ + 1]
  /\ UNCHANGED <<example, mainAt, lots_of_threads, threadAt, thread_arg, effect, threadLog,
                 TurnVars, PrimeVars>>

\* Mutant of is_prime: two is not tried as a factor.
is_odd_prime(candidate) == \A factor \in 3 .. candidate - 1 : candidate % factor # 0

\* Successive division.
is_prime(candidate) == \A factor \in 2 .. candidate - 1 : candidate % factor # 0

\* The nth number from candidate on that no smaller one divides.
find_prime[n \in Nat \ {0}] ==
  [candidate \in Nat |-> IF ~is_prime(candidate) THEN find_prime[n][candidate + 1]
                         ELSE IF n = 1 THEN candidate ELSE find_prime[n - 1][candidate + 1]]

compute_prime(n) == find_prime[n][2]

\* The last statements: strcpy of the message, the flag, the log that the
\* destructor of the key closes, the returned prime.
EndThread(t) ==
  /\ threadAt[t] = "work" /\ example # "thread2"
  /\ example = "thread-create2" => my_number[t] = CharCount
  /\ threadAt' = [threadAt EXCEPT ![t] = "ended"]
  /\ effect' = [effect EXCEPT ![t] = TRUE]
  /\ threadLog' = [threadLog EXCEPT ![t] = 0]
  /\ prime' = IF example = "primes" THEN compute_prime(which_prime) ELSE prime
  /\ UNCHANGED <<example, mainAt, lots_of_threads, thread_arg, my_number, TurnVars, which_prime>>

\* Mutant of Turn: the one whose turn it is not prints all the same.
TurnAnyway(w) ==
  /\ example = "thread2" /\ tries[w] < PrintCount
  /\ IF w = 1 THEN mainAt = "turn" ELSE threadAt[1] = "work"
  /\ tries' = [tries EXCEPT ![w] = @ + 1] /\ said' = Append(said, w) /\ run_now' = 3 - w
  /\ UNCHANGED <<example, mainAt, lots_of_threads, ThreadVars, PrimeVars>>

\* thread2.c: main is 1, the thread is 2.  The turn is read, then written.
Turn(w) ==
  /\ example = "thread2"
  /\ IF w = 1 THEN mainAt = "turn" ELSE threadAt[1] = "work"
  /\ UNCHANGED <<example, lots_of_threads, thread_arg, my_number, threadLog, PrimeVars>>
  /\ IF tries[w] = PrintCount
     THEN /\ UNCHANGED TurnVars
          /\ IF w = 1 THEN mainAt' = "join" /\ UNCHANGED <<threadAt, effect>>
             ELSE /\ threadAt' = [threadAt EXCEPT ![1] = "ended"]
                  /\ effect' = [effect EXCEPT ![1] = TRUE] /\ UNCHANGED mainAt
     ELSE /\ tries' = [tries EXCEPT ![w] = @ + 1]
          /\ UNCHANGED <<mainAt, threadAt, effect>>
          /\ \/ run_now = w /\ said' = Append(said, w) /\ run_now' = 3 - w
             \/ run_now # w /\ UNCHANGED <<run_now, said>>

BasicsNext ==
  \/ CreateThread \/ JoinThreads \/ WaitForFlag
  \/ \E t \in ThreadIds : StartThread(t) \/ PrintChar(t) \/ EndThread(t)
  \/ \E w \in {1, 2} : Turn(w)

BasicsSpec == BasicsInit /\ [][BasicsNext]_basicVars

-----------------------------------------------------------------------------

\* Main waits for what it started: when it has ended, and its stack with the
\* arguments is gone, every thread has left its message, flag, log or result
\* (thread1.c 21, thread5.c 33, thread8a.c 31, thread-create2.c 54, tsd.c 61).
MainEndsLast == mainAt = "exit" => \A t \in 1 .. ThreadCount : effect[t]

\* Each thread of thread8a.c has the number main created it with, although
\* main counts on while it starts (21, 45).
NumbersAreOwn ==
  example = "thread8a" =>
    \A t \in 1 .. ThreadCount : threadAt[t] \in {"work", "ended"} => my_number[t] = t

\* The two loops of thread2.c print 1 and 2 by turns, 1 first, however the
\* tries of one fall between those of the other (22-30, 45-53).
TurnsAlternate == \A k \in 1 .. Len(said) : said[k] = (IF k % 2 = 1 THEN 1 ELSE 2)

\* compute_prime (primes.c 13-37) returns the number with n primes up to it.
PrimeIsNth ==
  prime # 0 =>
    LET Primes == {q \in 2 .. prime : {d \in 1 .. q : q % d = 0} = {1, q}}
    IN prime \in Primes /\ Cardinality(Primes) = which_prime

\* What the examples show: threads that main waits for, that have arguments of their own,
\* that take turns and that return a result.
ExamplesInv == MainEndsLast /\ NumbersAreOwn /\ TurnsAlternate /\ PrimeIsNth
=================================================================================
