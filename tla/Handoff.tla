-------------------------------- MODULE Handoff --------------------------------
(***************************************************************************)
(* ch14: a process types texts, another prints them, through shared memory *)
(* with a flag (shm2.c to shm1.c) or through a message queue (msg2.c to    *)
(* msg1.c).  A step is one system call or one access to shared memory.     *)
(* Either may be started first.                                            *)
(***************************************************************************)
EXTENDS Naturals, Sequences

CONSTANTS Texts,     \* what is typed besides "end"
          MaxTexts,  \* bound on the texts typed, "end" included
          QueueLen   \* the messages a queue holds before msgsnd blocks

ASSUME HandoffAssumption ==
  /\ MaxTexts \in Nat \ {0} /\ QueueLen \in Nat \ {0} /\ "end" \notin Texts

VARIABLES
  medium,          \* "shm" or "msg": the pair of programs that runs
  written_by_you, some_text,  \* the shared memory, zero when it is created
  msg_queue,       \* the message queue
  producerPc, buffer,         \* shm2 or msg2
  consumerPc,                 \* shm1 or msg1
  written, shown   \* history: the texts handed over and the ones printed

handoffVars == <<medium, written_by_you, some_text, msg_queue, producerPc, buffer, consumerPc,
                 written, shown>>

HandoffInit ==
  /\ medium \in {"shm", "msg"}
  /\ written_by_you = 0 /\ some_text = "" /\ msg_queue = <<>>
  /\ producerPc = "start" /\ buffer = "" /\ consumerPc = "start"
  /\ written = <<>> /\ shown = <<>>

Produce(from, to) ==
  producerPc = from /\ producerPc' = to /\ UNCHANGED <<medium, consumerPc, shown>>
Consume(from, to) ==
  consumerPc = from /\ consumerPc' = to /\ UNCHANGED <<medium, producerPc, buffer, written>>

\* fgets; the last text that is counted is "end".
TypeText ==
  /\ \E t \in Texts \cup {"end"} :
       buffer' = t /\ (Len(written) = MaxTexts - 1 => t = "end")
  /\ UNCHANGED <<written_by_you, some_text, msg_queue, written>>

\* shm2.c

\* Mutant of WaitForClient: the flag is not waited for.
WriteAtOnce ==
  /\ medium = "shm" /\ Produce("start", "type")
  /\ UNCHANGED <<written_by_you, some_text, msg_queue, buffer, written>>

WaitForClient ==
  /\ medium = "shm" /\ Produce("start", "type") /\ written_by_you # 1
  /\ UNCHANGED <<written_by_you, some_text, msg_queue, buffer, written>>

CopyText ==
  /\ medium = "shm" /\ Produce("copy", "flag") /\ some_text' = buffer
  /\ UNCHANGED <<written_by_you, msg_queue, buffer, written>>

RaiseFlag ==
  /\ medium = "shm" /\ Produce("flag", IF buffer = "end" THEN "ended" ELSE "start")
  /\ written_by_you' = 1 /\ written' = Append(written, buffer)
  /\ UNCHANGED <<some_text, msg_queue, buffer>>

\* msg2.c

AskText ==
  /\ medium = "msg" /\ Produce("start", "type")
  /\ UNCHANGED <<written_by_you, some_text, msg_queue, buffer, written>>

SendText ==
  /\ medium = "msg" /\ Len(msg_queue) < QueueLen
  /\ Produce("copy", IF buffer = "end" THEN "ended" ELSE "start")
  /\ msg_queue' = Append(msg_queue, buffer) /\ written' = Append(written, buffer)
  /\ UNCHANGED <<written_by_you, some_text, buffer>>

ProducerStep ==
  \/ WaitForClient \/ (Produce("type", "copy") /\ TypeText) \/ CopyText \/ RaiseFlag
  \/ AskText \/ SendText

\* shm1.c

ClearAtStart ==
  /\ medium = "shm" /\ Consume("start", "test") /\ written_by_you' = 0
  /\ UNCHANGED <<some_text, msg_queue, shown>>

PrintText ==
  /\ medium = "shm" /\ Consume("test", "clear") /\ written_by_you # 0
  /\ shown' = Append(shown, some_text) /\ UNCHANGED <<written_by_you, some_text, msg_queue>>

\* Mutant of ClearFlag: the text is cleared with it.
ClearFlagAndText ==
  /\ medium = "shm" /\ Consume("clear", "compare") /\ written_by_you' = 0 /\ some_text' = ""
  /\ UNCHANGED <<msg_queue, shown>>

ClearFlag ==
  /\ medium = "shm" /\ Consume("clear", "compare") /\ written_by_you' = 0
  /\ UNCHANGED <<some_text, msg_queue, shown>>

\* The text is looked at after the producer was let in again.
CompareText ==
  /\ medium = "shm"
  /\ Consume("compare", IF some_text = "end" THEN "ended" ELSE "test")
  /\ UNCHANGED <<written_by_you, some_text, msg_queue, shown>>

\* msg1.c; it removes the queue after "end", and its one sender has ended then.
ReceiveText ==
  /\ medium = "msg" /\ msg_queue # <<>> /\ msg_queue' = Tail(msg_queue)
  /\ shown' = Append(shown, Head(msg_queue))
  /\ Consume("start", IF Head(msg_queue) = "end" THEN "ended" ELSE "start")
  /\ UNCHANGED <<written_by_you, some_text>>

ConsumerStep == ClearAtStart \/ PrintText \/ ClearFlag \/ CompareText \/ ReceiveText

HandoffNext == ProducerStep \/ ConsumerStep

\* Both processes are scheduled, and the user goes on typing.
HandoffFairness == WF_handoffVars(ProducerStep) /\ WF_handoffVars(ConsumerStep)

HandoffSpec == HandoffInit /\ [][HandoffNext]_handoffVars /\ HandoffFairness

-----------------------------------------------------------------------------

IsPrefixOf(s, t) == Len(s) <= Len(t) /\ s = SubSeq(t, 1, Len(s))

\* The texts come out in the order they were typed, each once and whole, with
\* none missing in between; the one missing may be the first, when the program
\* that prints is started after it (shm1.c 46), never with the queue.
ShownInOrder ==
  \/ IsPrefixOf(shown, written)
  \/ medium = "shm" /\ written # <<>> /\ IsPrefixOf(shown, Tail(written))

\* The program that prints ends after "end" when it was there before the first
\* text, or the texts wait in a queue.
EndReachesReader ==
  [](medium = "msg" \/ (consumerPc = "start" => producerPc \in {"start", "type", "copy"}))
    => (producerPc = "ended" ~> consumerPc = "ended")

--------------------------------------------------------------------------------
(* The inductive invariant.                                                     *)

Typed == Texts \cup {"end"}

HandoffTypeOK ==
  /\ medium \in {"shm", "msg"} /\ written_by_you \in {0, 1}
  /\ written \in Seq(Typed) /\ shown \in Seq(Typed) /\ msg_queue \in Seq(Typed)
  /\ some_text \in Typed \cup {""} /\ buffer \in Typed \cup {""}
  /\ producerPc \in {"copy", "flag"} => buffer \in Typed
  /\ producerPc \in {"start", "type", "copy", "flag", "ended"}
  /\ consumerPc \in {"start", "test", "clear", "compare", "ended"}

\* The queue holds what was sent and not received.
QueueInOrder == medium = "msg" => written = shown \o msg_queue

\* k texts were lost; all the others were printed, but for the one in the memory
\* while the flag is up and the consumer has not printed it.
LostFirst(k) ==
  /\ Len(shown) + k + (IF written_by_you = 1 /\ consumerPc # "clear" THEN 1 ELSE 0) = Len(written)
  /\ \A i \in 1 .. Len(shown) : shown[i] = written[i + k]

\* While the flag is up the producer leaves the memory alone, which holds the
\* last text; nothing is lost but what was there before the consumer started.
MemoryInOrder ==
  medium = "shm" =>
    /\ written_by_you = 1 =>
         /\ producerPc \in {"start", "ended"} /\ written # <<>>
         /\ some_text = written[Len(written)]
    /\ producerPc = "flag" => some_text = buffer
    /\ consumerPc = "start" => shown = <<>>
    /\ consumerPc = "clear" => written_by_you = 1
    /\ LostFirst(0) \/ (consumerPc # "start" /\ LostFirst(1))

HandoffInv == HandoffTypeOK /\ QueueInOrder /\ MemoryInOrder

================================================================================
