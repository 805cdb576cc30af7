------------------------------ MODULE SmallRings ------------------------------
(***************************************************************************)
(* The two small ring buffers of Programming-Techniques/Ring-buffer.       *)
(* ring3 is an array of items with a count, ring1 a circle of slots that   *)
(* are filled in place through ringbuffer_write_ptr, then appended, and    *)
(* read in pieces.  Neither has a lock: one thread makes the calls.        *)
(***************************************************************************)
EXTENDS Naturals, Sequences, FiniteSets

CONSTANTS Things,     \* the items of ring3, and the bytes of ring1
          capacity,   \* ring3: of ring_init
          RING_SLOTS, \* ring1
          BlockLen    \* bound on the bytes written to a slot of ring1

ASSUME SmallRingsAssumption ==
  /\ capacity \in Nat \ {0} /\ RING_SLOTS \in Nat \ {0} /\ BlockLen \in Nat
  /\ {"put", "refused", "none"} \cap Things = {}

VARIABLES
  ring3,    \* buffer, head, tail and count of a ringbuffer_t
  answer3,  \* the last call's result
  ring1,    \* slots, head, tail and used of a ringbuffer
  answer1,
  block     \* history: the unread bytes of each appended slot, oldest first

smallRingVars == <<ring3, answer3, ring1, answer1, block>>

ring_init == [buffer |-> [i \in 0 .. capacity - 1 |-> "none"],
              head |-> 0, tail |-> 0, count |-> 0]

\* data is what the writer put into the slot, ptr and left what is unread.
ringbuffer_init ==
  [slots |-> [i \in 0 .. RING_SLOTS - 1 |-> [data |-> <<>>, ptr |-> 0, left |-> 0]],
   head |-> 0, tail |-> 0, used |-> 0]

SmallRingsInit ==
  /\ ring3 = ring_init /\ answer3 = "none"
  /\ ring1 = ringbuffer_init /\ answer1 = "none" /\ block = <<>>

-----------------------------------------------------------------------------
\* ring3: head and tail go back to the start when they reach buffer_end.

Forward(i) == IF i + 1 = capacity THEN 0 ELSE i + 1

\* Mutant of ring_push_head: count is not compared with capacity.
PushOverwrites(x) ==
  /\ ring3' = [ring3 EXCEPT !.buffer[ring3.head] = x, !.head = Forward(@),
                            !.count = IF @ = capacity THEN @ ELSE @ + 1]
  /\ answer3' = "put"

ring_push_head(x) ==
  \/ ring3.count = capacity /\ answer3' = "refused" /\ UNCHANGED ring3
  \/ /\ ring3.count # capacity
     /\ ring3' = [ring3 EXCEPT !.buffer[ring3.head] = x, !.head = Forward(@),
                               !.count = @ + 1]
     /\ answer3' = "put"

ring_pop_tail ==
  \/ ring3.count = 0 /\ answer3' = "refused" /\ UNCHANGED ring3
  \/ /\ ring3.count # 0
     /\ answer3' = ring3.buffer[ring3.tail]
     /\ ring3' = [ring3 EXCEPT !.tail = Forward(@), !.count = @ - 1]

-----------------------------------------------------------------------------
\* ring1: the next pointers of the slots make the circle.

next(i) == (i + 1) % RING_SLOTS

ringbuffer_is_full  == ring1.used = RING_SLOTS
ringbuffer_is_empty == ring1.used = 0

\* Mutant of WriteInPlace: ringbuffer_write_ptr of a full ring is no null pointer.
WriteAnywhere(bytes) ==
  /\ ring1' = [ring1 EXCEPT !.slots[ring1.tail].data = bytes]
  /\ UNCHANGED <<answer1, block>>

\* ringbuffer_write_ptr, and what the caller does with it.
WriteInPlace(bytes) ==
  /\ ~ringbuffer_is_full
  /\ ring1' = [ring1 EXCEPT !.slots[ring1.tail].data = bytes]
  /\ UNCHANGED <<answer1, block>>

ringbuffer_write_append ==
  /\ ~ringbuffer_is_full /\ ring1.slots[ring1.tail].data # <<>>
  /\ LET d == ring1.slots[ring1.tail].data IN
       /\ ring1' = [ring1 EXCEPT !.slots[ring1.tail] = [data |-> d, ptr |-> 0, left |-> Len(d)],
                                 !.tail = next(@), !.used = @ + 1]
       /\ block' = Append(block, d)
  /\ answer1' = "put"

\* The unread bytes of the head slot.
ringbuffer_read_next ==
  LET h == ring1.slots[ring1.head] IN SubSeq(h.data, h.ptr + 1, h.ptr + h.left)

ringbuffer_read_skip(n) ==
  /\ ~ringbuffer_is_empty /\ n <= ring1.slots[ring1.head].left
  /\ ring1' = [ring1 EXCEPT !.slots[ring1.head].ptr = @ + n,
                            !.slots[ring1.head].left = @ - n]
  /\ block' = [block EXCEPT ![1] = SubSeq(@, n + 1, Len(@))]
  /\ UNCHANGED answer1

\* The caller pops what it has read.
ringbuffer_read_pop ==
  /\ ~ringbuffer_is_empty
  /\ answer1' = ringbuffer_read_next
  /\ ring1' = [ring1 EXCEPT !.head = next(@), !.used = @ - 1]
  /\ block' = Tail(block)

Blocks == UNION {[1 .. n -> Things] : n \in 1 .. BlockLen}

Ring3Next ==
  /\ (\E x \in Things : ring_push_head(x)) \/ ring_pop_tail
  /\ UNCHANGED <<ring1, answer1, block>>

Ring1Next ==
  /\ \/ \E b \in Blocks : WriteInPlace(b)
     \/ ringbuffer_write_append \/ ringbuffer_read_pop
     \/ \E n \in 1 .. BlockLen : ringbuffer_read_skip(n)
  /\ UNCHANGED <<ring3, answer3>>

SmallRingsSpec == SmallRingsInit /\ [][Ring3Next \/ Ring1Next]_smallRingVars

-----------------------------------------------------------------------------

\* The items of ring3 in the order they will be popped.
Content3 == [i \in 1 .. ring3.count |-> ring3.buffer[(ring3.tail + i - 1) % capacity]]

Queue3 == INSTANCE ItemQueue
  WITH Entries <- Things, Bound <- capacity, items <- Content3, out <- answer3

\* ring_push_head and ring_pop_tail are a queue of capacity items: a full
\* and an empty ring, where head and tail are equal, are told apart by count.
Ring3IsQueue == Queue3!QueueSpec

\* A slot of ring1 that was appended and not popped keeps its bytes: neither a
\* write in place nor the part already read moves what ringbuffer_read_next
\* shows, for all slots from head to tail.
Ring1KeepsUnread ==
  /\ ring1.used = Len(block)
  /\ \A i \in 1 .. ring1.used :
       LET s == ring1.slots[(ring1.head + i - 1) % RING_SLOTS] IN
       SubSeq(s.data, s.ptr + 1, s.ptr + s.left) = block[i]

-----------------------------------------------------------------------------
(* The inductive invariants.                                               *)

\* ring3's next free place is count items after the oldest one.
Ring3Inv ==
  /\ ring3 \in [buffer : [0 .. capacity - 1 -> Things \cup {"none"}],
                head : 0 .. capacity - 1, tail : 0 .. capacity - 1, count : 0 .. capacity]
  /\ ring3.head = (ring3.tail + ring3.count) % capacity

Slot == [data : Seq(Things), ptr : Nat, left : Nat]

\* ring1's tail is used slots after its head, and what is left of an appended
\* slot goes to the end of its data.
Ring1Inv ==
  /\ ring1 \in [slots : [0 .. RING_SLOTS - 1 -> Slot], head : 0 .. RING_SLOTS - 1,
                tail : 0 .. RING_SLOTS - 1, used : 0 .. RING_SLOTS]
  /\ ring1.tail = (ring1.head + ring1.used) % RING_SLOTS
  /\ block \in Seq(Seq(Things))
  /\ \A i \in 1 .. ring1.used :
       LET s == ring1.slots[(ring1.head + i - 1) % RING_SLOTS] IN s.ptr + s.left = Len(s.data)
  /\ Ring1KeepsUnread

===============================================================================
