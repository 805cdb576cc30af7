------------------------------ MODULE Cancellation ------------------------------
(***************************************************************************)
(* A thread that is cancelled: ALP chapter 4, critical-section.c (money is *)
(* moved with cancellation disabled), cleanup.c (a buffer with a cleanup   *)
(* handler), cxx-exit.cpp (a thread that leaves through an exception), and *)
(* ch12, thread7.c (main cancels a loop and joins it).  The thread's code  *)
(* is one of the three; main is that of thread7.c.                         *)
(***************************************************************************)
EXTENDS Integers

CONSTANTS Accounts, Opening,  \* account_balances at the start
          Amounts,            \* what process_transaction is called with
          Ticks               \* how often the loop of thread7.c sleeps (10)

ASSUME CancellationAssumption ==
  Opening \in [Accounts -> Nat] /\ Amounts \subseteq Nat /\ Ticks \in Nat

VARIABLES
  body,       \* what the thread runs: "transfer", "buffer" or "loop"
  account_balances, transfer,   \* the accounts and the call's arguments
  cancelState,  \* PTHREAD_CANCEL_ENABLE is TRUE
  asynchronous, \* the cancel type: FALSE is deferred
  cancelled,    \* pthread_cancel was called
  handler,      \* a cleanup handler is registered
  temp_buffer,  \* "none", "allocated", "freed", or "freed twice"
  threadPc, tick, thread_result,
  mainPc

cancelVars == <<body, account_balances, transfer, cancelState, asynchronous, cancelled,
                handler, temp_buffer, threadPc, tick, thread_result, mainPc>>

Transfers ==
  {t \in [from : Accounts, to : Accounts, dollars : Amounts] : t.from # t.to}

CancelInit ==
  /\ body \in {"transfer", "buffer", "loop"}
  /\ account_balances = Opening
  /\ transfer \in Transfers
  /\ body # "transfer" => transfer = CHOOSE t \in Transfers : TRUE
  /\ cancelState = TRUE /\ asynchronous = (body = "transfer") /\ cancelled = FALSE
  /\ handler = FALSE /\ temp_buffer = "none"
  /\ threadPc = "start" /\ tick = 0 /\ thread_result = "none" /\ mainPc = "sleep"

Th(from, to) ==
  /\ threadPc = from /\ threadPc' = to
  /\ UNCHANGED <<body, transfer, asynchronous, cancelled, mainPc>>

Moved(acct, d) == account_balances' = [account_balances EXCEPT ![acct] = @ + d]
NoMoney  == UNCHANGED account_balances
NoBuffer == UNCHANGED <<handler, temp_buffer>>

\* process_transaction: each of its statements is a step.  A cancellation is acted on
\* between any two of them while it is enabled, as the type is asynchronous.

TooSmall == account_balances[transfer.from] < transfer.dollars

CheckBalance ==
  /\ body = "transfer" /\ Th("start", IF TooSmall THEN "refuse" ELSE "disable")
  /\ NoMoney /\ NoBuffer /\ UNCHANGED <<cancelState, tick, thread_result>>

\* Mutant of DisableCancel: the critical section is left out.
LeaveEnabled ==
  /\ Th("disable", "credit")
  /\ UNCHANGED cancelState /\ NoMoney /\ NoBuffer /\ UNCHANGED <<tick, thread_result>>

DisableCancel ==
  /\ Th("disable", "credit") /\ cancelState' = FALSE
  /\ NoMoney /\ NoBuffer /\ UNCHANGED <<tick, thread_result>>

Credit ==
  /\ Th("credit", "debit") /\ Moved(transfer.to, transfer.dollars)
  /\ NoBuffer /\ UNCHANGED <<cancelState, tick, thread_result>>

Debit ==
  /\ Th("debit", "enable") /\ Moved(transfer.from, -transfer.dollars)
  /\ NoBuffer /\ UNCHANGED <<cancelState, tick, thread_result>>

\* The old state is restored; a cancellation that is pending ends the thread here.
EnableCancel ==
  /\ Th("enable", "return") /\ cancelState' = TRUE
  /\ NoMoney /\ NoBuffer /\ UNCHANGED <<tick, thread_result>>

ReturnSuccess ==
  /\ Th("return", "ended") /\ thread_result' = "0"
  /\ NoMoney /\ NoBuffer /\ UNCHANGED <<cancelState, tick>>

Refuse ==
  /\ Th("refuse", "ended") /\ thread_result' = "1"
  /\ NoMoney /\ NoBuffer /\ UNCHANGED <<cancelState, tick>>

\* do_some_work of cleanup.c.  The work may end the thread: pthread_exit, or
\* the exception of cxx-exit.cpp, whose handler in thread_function exits.

Free == IF temp_buffer = "allocated" THEN "freed" ELSE "freed twice"

AllocateBuffer ==
  /\ body = "buffer" /\ Th("start", "push") /\ temp_buffer' = "allocated"
  /\ NoMoney /\ UNCHANGED <<handler, cancelState, tick, thread_result>>

PushHandler ==
  /\ Th("push", "work") /\ handler' = TRUE
  /\ NoMoney /\ UNCHANGED <<temp_buffer, cancelState, tick, thread_result>>

\* pthread_cleanup_pop (1)
PopHandler ==
  /\ Th("work", "ended") /\ handler' = FALSE /\ temp_buffer' = Free
  /\ NoMoney /\ UNCHANGED <<cancelState, tick>> /\ thread_result' = "0"

\* Mutant of Leave: the handlers are not run.
LeaveNoHandlers(result) ==
  /\ threadPc' = "ended" /\ thread_result' = result /\ handler' = FALSE
  /\ UNCHANGED <<body, transfer, asynchronous, cancelled, mainPc, temp_buffer>>
  /\ NoMoney /\ UNCHANGED <<cancelState, tick>>

\* The thread ends at once; the registered handlers run.
Leave(result) ==
  /\ threadPc' = "ended" /\ thread_result' = result /\ handler' = FALSE
  /\ temp_buffer' = IF handler THEN Free ELSE temp_buffer
  /\ UNCHANGED <<body, transfer, asynchronous, cancelled, mainPc>>
  /\ NoMoney /\ UNCHANGED <<cancelState, tick>>

ThrowExit == threadPc = "work" /\ Leave("exception")

\* The loop of thread7.c.
LoopTick ==
  /\ body = "loop" /\ Th("start", IF tick < Ticks THEN "start" ELSE "ended")
  /\ IF tick < Ticks THEN tick' = tick + 1 /\ UNCHANGED thread_result
                     ELSE thread_result' = "0" /\ UNCHANGED tick
  /\ NoMoney /\ NoBuffer /\ UNCHANGED cancelState

\* Cancellation is acted upon where the thread blocks or works when its type is
\* deferred, and anywhere when it is asynchronous.
ActOnCancel ==
  /\ cancelled /\ cancelState /\ threadPc # "ended"
  /\ asynchronous \/ threadPc = "work" \/ body = "loop"
  /\ Leave("PTHREAD_CANCELED")

ThreadRuns ==
  \/ CheckBalance \/ DisableCancel \/ Credit \/ Debit \/ EnableCancel \/ ReturnSuccess \/ Refuse
  \/ AllocateBuffer \/ PushHandler \/ PopHandler \/ ThrowExit
  \/ LoopTick

\* main of thread7.c: pthread_cancel, then pthread_join.
CancelThread ==
  /\ mainPc = "sleep" /\ mainPc' = "join" /\ cancelled' = TRUE
  /\ UNCHANGED <<body, account_balances, transfer, cancelState, asynchronous, handler,
                 temp_buffer, threadPc, tick, thread_result>>

JoinThread ==
  /\ mainPc = "join" /\ threadPc = "ended" /\ mainPc' = "exit"
  /\ UNCHANGED <<body, account_balances, transfer, cancelState, asynchronous, cancelled,
                 handler, temp_buffer, threadPc, tick, thread_result>>

CancelNext == ThreadRuns \/ ActOnCancel \/ CancelThread \/ JoinThread

CancelSpec == CancelInit /\ [][CancelNext]_cancelVars

-----------------------------------------------------------------------------

Moving(a) == (IF a = transfer.to THEN transfer.dollars ELSE 0)
             - (IF a = transfer.from THEN transfer.dollars ELSE 0)

Transferred == [a \in Accounts |-> Opening[a] + Moving(a)]

\* A transfer is made as a whole or not at all, wherever the thread was when it was
\* cancelled (critical-section.c 28-33).  "Return 0 if the transaction succeeded, or 1 if
\* the balance FROM_ACCT is too small" (15-17) holds of a thread that returns; a result of
\* PTHREAD_CANCELED says neither, as a pending cancellation is also acted on after the
\* money was moved, between the end of the critical section and the return (33-35).
MoneyMovesWhole ==
  body = "transfer" /\ threadPc = "ended" =>
    /\ account_balances \in {Opening, Transferred}
    /\ thread_result = "0" => account_balances = Transferred
    /\ thread_result = "1" => account_balances = Opening

\* The temporary buffer is freed once, whether the work ended, was cancelled
\* or left through an exception (cleanup.c 30-38).
BufferFreedOnce ==
  /\ temp_buffer # "freed twice"
  /\ threadPc = "ended" => temp_buffer # "allocated"

\* Cancellation leaves nothing half done: no transfer and no buffer.
NothingHalfDone == MoneyMovesWhole /\ BufferFreedOnce

-----------------------------------------------------------------------------
(* The inductive invariant.                                                *)

\* The accounts after the first of the two statements that move the money.
Credited == [Opening EXCEPT ![transfer.to] = @ + transfer.dollars]

\* Where the thread of critical-section.c is, and what the accounts hold there.
TransferInv ==
  body = "transfer" =>
    /\ threadPc \in {"start", "refuse", "disable", "credit", "debit", "enable", "return", "ended"}
    /\ threadPc \in {"credit", "debit", "enable"} => ~cancelState
    /\ threadPc \in {"start", "refuse", "disable", "credit"} => account_balances = Opening
    /\ threadPc = "debit" => account_balances = Credited
    /\ threadPc \in {"enable", "return"} => account_balances = Transferred
    /\ temp_buffer = "none" /\ ~handler

\* The cleanup handler is registered while the thread of cleanup.c works.
BufferInv ==
  body # "transfer" =>
    /\ threadPc \in {"start", "push", "work", "ended"} /\ ~asynchronous
    /\ handler <=> threadPc = "work"
    /\ temp_buffer = "allocated" <=> threadPc \in {"push", "work"}
    /\ threadPc = "start" => temp_buffer = "none"
    /\ body = "loop" => threadPc \in {"start", "ended"} /\ temp_buffer = "none"

CancelInv ==
  /\ body \in {"transfer", "buffer", "loop"} /\ transfer \in Transfers
  /\ account_balances \in [Accounts -> Int]
  /\ TransferInv /\ BufferInv /\ NothingHalfDone

=================================================================================
