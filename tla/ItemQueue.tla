------------------------------ MODULE ItemQueue ------------------------------
(* A bounded first-in first-out queue: what both small ring buffers promise. *)
(* A put into a full queue and a get from an empty one are refused.          *)
EXTENDS Naturals, Sequences

CONSTANTS Entries, Bound

VARIABLES items,  \* the queue, the oldest first
          out     \* the result of the last call

QueueInit == items = <<>> /\ out = "none"

Put(x) == Len(items) < Bound /\ items' = Append(items, x) /\ out' = "put"
Get    == items # <<>> /\ items' = Tail(items) /\ out' = Head(items)
Refuse == /\ Len(items) \in {0, Bound} /\ out' = "refused" /\ UNCHANGED items

QueueNext == (\E x \in Entries : Put(x)) \/ Get \/ Refuse

QueueSpec == QueueInit /\ [][QueueNext]_<<items, out>>
==============================================================================
