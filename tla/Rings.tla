--------------------------------- MODULE Rings ---------------------------------
(***************************************************************************)
(* The ring buffers of Programming-Techniques/Ring-buffer, which share     *)
(* nothing with one another: ring1 and ring3, and ring2.                   *)
(***************************************************************************)
EXTENDS RingBuf, SmallRings

RingsSpec == RingSpec /\ SmallRingsSpec

\* ring2's positions are in its array and searches in its two pieces find what is in it
\* (ringbuf.c 144-172); ring1 keeps what was appended and not popped (ringbuffer.c 54-89).
RingsInv == RingTypeOK /\ FindchrFindsFirst /\ Ring1KeepsUnread
================================================================================
