------------------------------ MODULE RingTest ------------------------------
(***************************************************************************)
(* The unit tests of Programming-Techniques/Ring-buffer/ring2              *)
(* (ringbuf-test.c), played on the operators of RingBuf: the same calls in *)
(* the same order, with the results and positions the test asserts.  A     *)
(* test here is what it is there; only RINGBUF_SIZE is smaller than 4096,  *)
(* with the same remainder modulo the length of the test patterns, since   *)
(* the tests of ringbuf_findchr count on it.                               *)
(***************************************************************************)
EXTENDS RingBuf

CONSTANT RINGBUF_SIZE

ASSUME RingTestAssumption ==
  RINGBUF_SIZE \in Nat /\ RINGBUF_SIZE > 24 /\ RINGBUF_SIZE % 11 = 4096 % 11

VARIABLES ring,     \* rb1, rb2 and rb3 of the test
          rdfd,     \* the position in the file to read, which holds buf
          wrfd,     \* the file written: its bytes and the position
          dst,      \* the test's destination buffer
          step,     \* the next step of the script
          passed    \* no assert has failed

ringTestVars == <<ring, rdfd, wrfd, dst, step, passed>>

S == RINGBUF_SIZE

AnyPlace == 2 * S   \* a position no assert is about

\* buf before and after it gets the first test pattern, and buf2; the letters
\* a, b, c, ... are 100, 101, 102, ...
fill_buffer(src, i) ==
  CASE src = "fill" -> IF i < S THEN 57 ELSE 58
    [] src = "buf"  -> 100 + (i % 11)
    [] src = "buf2" -> 200 + (i % 11)

Source(src, off, n) == [i \in 1 .. n |-> fill_buffer(src, off + i - 1)]

-----------------------------------------------------------------------------
\* The steps: calls with the result asserted, and asserts.

New1(n)              == [op |-> "new", n |-> n]
Reset(r)             == [op |-> "reset", r |-> r]
Memset(r, c, n, ret) == [op |-> "memset", r |-> r, c |-> c, n |-> n, ret |-> ret]
Into(r, src, off, n) == [op |-> "into", r |-> r, src |-> src, off |-> off, n |-> n]
From(r, off, n)      == [op |-> "from", r |-> r, off |-> off, n |-> n]
Under(r, n)          == [op |-> "under", r |-> r, n |-> n]
Copy(d, s, n)        == [op |-> "copy", d |-> d, r |-> s, n |-> n]
Fill(n, ret)         == [op |-> "fill", n |-> n, ret |-> ret]
Drain(n, ret)        == [op |-> "drain", n |-> n, ret |-> ret]
Rewind               == [op |-> "rewind"]
Files                == [op |-> "files"]
Seek                 == [op |-> "seek"]
Back(off, n, ret)    == [op |-> "back", off |-> off, n |-> n, ret |-> ret]
Dst(src)             == [op |-> "dst", src |-> src]

Used(r, n)           == [op |-> "used", r |-> r, n |-> n]
At(r, tail, head)    == [op |-> "at", r |-> r, tail |-> tail, head |-> head]
Find(c, off, ret)    == [op |-> "find", c |-> c, off |-> off, ret |-> ret]
Marked1              == [op |-> "marked"]
AtStart              == [op |-> "start"]
FromTail(r, k, src, off, n) ==
  [op |-> "tail", r |-> r, k |-> k, src |-> src, off |-> off, n |-> n]
FromBase(r, k, src, off, n) ==
  [op |-> "base", r |-> r, k |-> k, src |-> src, off |-> off, n |-> n]
InDst(k, src, off, n) ==
  [op |-> "indst", k |-> k, src |-> src, off |-> off, n |-> n]

Used1 == AnyPlace   \* the result "not found", bytes_used(rb1)

Mark  == <<Reset(1), Memset(1, 1, S, S), Reset(1)>>
Mark2 == <<Reset(1), Reset(2), Memset(1, 1, S, S), Reset(1),
           Memset(2, 2, S, S), Reset(2)>>

\* A new buffer, an odd size, ringbuf_reset, ringbuf_memset of nothing.
InitialTests ==
  <<Used(1, 0), At(1, 0, AnyPlace)>>
  \o <<New1(24), Used(1, 0), At(1, 0, AnyPlace)>>
  \o <<New1(S - 1), Memset(1, 1, 8, 8), Reset(1), Used(1, 0), At(1, 0, AnyPlace)>>
  \o <<Memset(1, 1, S, S), Reset(1), Used(1, 0), At(1, 0, AnyPlace)>>
  \o <<Reset(1), Memset(1, 1, 0, 0), Used(1, 0)>>

\* ringbuf_memset up to an overflow, and clamped.
MemsetTests ==
  <<Reset(1), Memset(1, 57, 7, 7), Used(1, 7), FromTail(1, 0, "fill", 0, 7)>>
  \o <<Reset(1), Memset(1, 57, S - 1, S - 1), Used(1, S - 1),
      FromTail(1, 0, "fill", 0, S - 1)>>
  \o <<Reset(1), Memset(1, 57, 7, 7), Memset(1, 57, 15, 15), Used(1, 22),
      FromTail(1, 0, "fill", 0, 22)>>
  \o <<Reset(1), Memset(1, 57, S - 2, S - 2), Memset(1, 57, 1, 1),
      Used(1, S - 1), FromTail(1, 0, "fill", 0, S - 1)>>
  \o <<Reset(1), Memset(1, 57, S, S), Used(1, S - 1), At(1, 1, 0),
      FromTail(1, 0, "fill", 0, S - 1)>>
  \o <<Reset(1), Memset(1, 57, S - 1, S - 1), Memset(1, 57, 1, 1),
      Used(1, S - 1), At(1, 1, 0), FromTail(1, 0, "fill", 0, S - 1)>>
  \o <<Reset(1), Memset(1, 57, S + 1, S), Used(1, S - 1), At(1, 1, 0),
      FromTail(1, 0, "fill", 0, S - 1)>>
  \o <<Reset(1), Memset(1, 57, S, S), Memset(1, 58, S, S), Used(1, S - 1),
      At(1, 1, 0), FromTail(1, 0, "fill", S, S - 1)>>

\* ringbuf_memcpy_into up to an overflow by more than a lap's end.
IntoTests ==
  Mark \o <<Into(1, "buf", 0, 0), Used(1, 0), Marked1>>
  \o Mark \o <<Into(1, "buf", 0, 11), Used(1, 11),
      FromTail(1, 0, "buf", 0, 11), Marked1>>
  \o Mark \o <<Into(1, "buf", 0, S - 1), Used(1, S - 1),
      FromTail(1, 0, "buf", 0, S - 1), Marked1>>
  \o Mark \o <<Into(1, "buf", 0, 11), Into(1, "buf", 11, 10), Used(1, 21),
      FromTail(1, 0, "buf", 0, 21), Marked1>>
  \o Mark \o <<Into(1, "buf", 0, S - 2), Into(1, "buf", S - 2, 1),
      Used(1, S - 1), FromTail(1, 0, "buf", 0, S - 1)>>
  \o Mark \o <<Into(1, "buf", 0, S), Used(1, S - 1), At(1, 1, 0),
      FromTail(1, 0, "buf", 1, S - 1)>>
  \o Mark \o <<Into(1, "buf", 0, S - 1), Into(1, "buf", S - 1, 1),
      Used(1, S - 1), At(1, 1, 0), FromTail(1, 0, "buf", 1, S - 1)>>
  \o Mark \o <<Into(1, "buf", 0, S + 1), Used(1, S - 1), At(1, 2, 1),
      FromTail(1, 0, "buf", 2, S - 2), FromBase(1, 0, "buf", S, 1)>>

\* ringbuf_read, which does not wrap.
ReadTests ==
  Mark \o <<Rewind, Fill(0, 0), Used(1, 0), Marked1, AtStart>>
  \o Mark \o <<Rewind, Fill(11, 11), Used(1, 11), FromTail(1, 0, "buf", 0, 11),
      Marked1>>
  \o Mark \o <<Rewind, Fill(S - 1, S - 1), Used(1, S - 1),
      FromTail(1, 0, "buf", 0, S - 1), Marked1>>
  \o Mark \o <<Rewind, Fill(11, 11), Fill(10, 10), Used(1, 21),
      FromTail(1, 0, "buf", 0, 21), Marked1>>
  \o Mark \o <<Rewind, Fill(S - 2, S - 2), Fill(1, 1), Used(1, S - 1),
      FromTail(1, 0, "buf", 0, S - 1)>>
  \o Mark \o <<Rewind, Fill(S, S), Used(1, S - 1), At(1, 1, 0),
      FromTail(1, 0, "buf", 1, S - 1)>>
  \o Mark \o <<Rewind, Fill(S - 1, S - 1), Fill(1, 1), Used(1, S - 1),
      At(1, 1, 0), FromTail(1, 0, "buf", 1, S - 1)>>
  \o Mark \o <<Rewind, Fill(S + 1, S), Used(1, S - 1), At(1, 1, 0),
      FromTail(1, 0, "buf", 1, S - 1)>>

\* ringbuf_memcpy_from, and more than is there.
FromTests ==
  Mark \o <<Dst("buf"), From(1, 0, 0), Used(1, 0), At(1, 0, AnyPlace),
      InDst(0, "buf", 0, 2 * S)>>
  \o Mark \o <<Dst("buf"), Into(1, "buf2", 0, 11), From(1, 0, 0), Used(1, 11),
      At(1, 0, AnyPlace), InDst(0, "buf", 0, 2 * S)>>
  \o Mark \o <<Dst("buf"), Into(1, "buf2", 0, 11), From(1, 0, 3), Used(1, 8),
      At(1, 3, AnyPlace), InDst(0, "buf2", 0, 3), InDst(3, "buf", 3, 2 * S - 3)>>
  \o Mark \o <<Dst("buf"), Into(1, "buf2", 0, S - 1), From(1, 0, S - 1),
      Used(1, 0), At(1, AnyPlace, S - 1), InDst(0, "buf2", 0, S - 1),
      InDst(S - 1, "buf", S - 1, S + 1)>>
  \o Mark \o <<Dst("buf"), Into(1, "buf2", 0, 13), From(1, 0, 9),
      From(1, 9, 4), Used(1, 0), At(1, 13, AnyPlace), InDst(0, "buf2", 0, 13),
      InDst(13, "buf", 13, 2 * S - 13)>>
  \o Mark \o <<Dst("buf"), Into(1, "buf2", 0, S - 1), From(1, 0, S - 2),
      From(1, S - 2, 1), Used(1, 0), At(1, S - 1, AnyPlace),
      InDst(0, "buf2", 0, S - 1), InDst(S - 1, "buf", S - 1, S + 1)>>
  \o Mark \o <<Dst("buf"), Into(1, "buf2", 0, 15), Under(1, 16), Used(1, 15),
      At(1, 0, 15), InDst(0, "buf", 0, 2 * S)>>

\* The same twice; ringbuf_write.
FromWriteTests ==
  Mark \o <<Dst("buf"), Into(1, "buf2", 0, 15), From(1, 0, 14), Under(1, 2),
      Used(1, 1), At(1, 14, 15), InDst(0, "buf2", 0, 14),
      InDst(14, "buf", 14, 2 * S - 14)>>
  \o Mark \o <<Seek, Drain(0, 0), Used(1, 0), Seek, Back(0, 10, 0)>>
  \o Mark \o <<Seek, Into(1, "buf2", 0, 11), Drain(0, 0), Used(1, 11), At(1, 0,
      AnyPlace), Seek, Back(0, 10, 0)>>
  \o Mark \o <<Files, Dst("buf"), Into(1, "buf2", 0, 11), Drain(3, 3),
      Used(1, 8), At(1, 3, AnyPlace), Seek, Back(0, 4, 3), Back(3, 1, 0),
      InDst(0, "buf2", 0, 3), InDst(3, "buf", 3, 2 * S - 3)>>
  \o Mark \o <<Files, Dst("buf"), Into(1, "buf2", 0, S - 1),
      Drain(S - 1, S - 1), Used(1, 0), At(1, AnyPlace, S - 1), Seek,
      Back(0, S, S - 1), Back(S - 1, 1, 0), InDst(0, "buf2", 0, S - 1),
      InDst(S - 1, "buf", S - 1, S + 1)>>
  \o Mark \o <<Files, Dst("buf"), Into(1, "buf2", 0, 13), Drain(9, 9),
      Drain(4, 4), Used(1, 0), At(1, 13, AnyPlace), Seek, Back(0, 14, 13),
      Back(13, 1, 0), InDst(0, "buf2", 0, 13),
      InDst(13, "buf", 13, 2 * S - 13)>>

\* ringbuf_write, and more than is there; a read and a write.
WriteTests ==
  Mark \o <<Files, Dst("buf"), Into(1, "buf2", 0, S - 1), Drain(S - 2, S - 2),
      Drain(1, 1), Used(1, 0), At(1, S - 1, AnyPlace), Seek, Back(0, S - 1, S - 1),
      Back(S - 1, 1, 0), InDst(0, "buf2", 0, S - 1),
      InDst(S - 1, "buf", S - 1, S + 1)>>
  \o Mark \o <<Files, Dst("buf"), Into(1, "buf2", 0, 15), Drain(16, 0),
      Used(1, 15), At(1, 0, 15), Seek, Back(0, 1, 0),
      InDst(0, "buf", 0, 2 * S)>>
  \o Mark \o <<Files, Dst("buf"), Into(1, "buf2", 0, 15), Drain(14, 14),
      Drain(2, 0), Used(1, 1), At(1, 14, 15), Seek, Back(0, 15, 14),
      Back(0, 1, 0), InDst(0, "buf2", 0, 1), InDst(14, "buf", 14, 2 * S - 14)>>
  \o Mark \o <<Dst("buf2"), Files, Fill(11, 11), Drain(11, 11), Used(1, 0),
      Seek, Back(0, 11, 11), Back(0, 1, 0), InDst(0, "buf", 0, 11),
      InDst(11, "buf2", 11, 2 * S - 11), Marked1>>
  \o Mark \o <<Dst("buf2"), Files, Reset(1), Fill(11, 11), Drain(7, 7),
      Used(1, 4), Seek, Back(0, 11, 7), Back(0, 1, 0), InDst(0, "buf", 0, 7),
      InDst(7, "buf2", 7, 2 * S - 7), At(1, 7, 11), Marked1>>

\* Reads and writes up to the end of the array: short counts.
ReadWriteTests ==
  Mark \o <<Dst("buf2"), Files, Fill(11, 11), Drain(11, 11),
      Fill(S - 12, S - 12), Used(1, S - 12), At(1, 11, S - 1), Seek,
      Back(0, 11, 11), Back(0, 1, 0), InDst(0, "buf", 0, 11),
      InDst(11, "buf2", 11, 2 * S - 11)>>
  \o Mark \o <<Dst("buf2"), Files, Fill(11, 11), Drain(11, 11),
      Fill(S - 11, S - 11), Used(1, S - 11), At(1, 11, 0), Seek,
      Back(0, 11, 11), Back(0, 1, 0), InDst(0, "buf", 0, 11),
      InDst(11, "buf2", 11, 2 * S - 11)>>
  \o Mark \o <<Dst("buf2"), Files, Fill(11, 11), Drain(11, 11),
      Fill(S - 10, S - 11), Drain(S - 12, S - 12), Used(1, 1), At(1, S - 1, 0),
      Seek, Back(0, S - 1, S - 1), Back(0, 1, 0), InDst(0, "buf", 0, S - 1),
      InDst(S - 1, "buf2", S - 1, S + 1)>>
  \o Mark \o <<Dst("buf2"), Files, Fill(11, 11), Drain(11, 11),
      Fill(S - 10, S - 11), Fill(1, 1), Drain(S - 12, S - 12), Used(1, 2),
      At(1, S - 1, 1), Seek, Back(0, S - 1, S - 1), Back(0, 1, 0),
      InDst(0, "buf", 0, S - 1), InDst(S - 1, "buf2", S - 1, S + 1)>>

\* Reads and writes after the wrap.
WrapTests ==
  Mark \o <<Dst("buf2"), Files, Fill(11, 11), Drain(11, 11),
      Fill(S - 10, S - 11), Fill(1, 1), Drain(S - 11, S - 11), Used(1, 1),
      At(1, 0, 1), Seek, Back(0, S, S), Back(0, 1, 0), InDst(0, "buf", 0, S),
      InDst(S, "buf2", S, S)>>
  \o Mark \o <<Dst("buf2"), Files, Fill(11, 11), Drain(11, 11),
      Fill(S - 10, S - 11), Fill(1, 1), Drain(S - 10, S - 11), Used(1, 1),
      At(1, 0, 1), Seek, Back(0, S, S), Back(0, 1, 0), InDst(0, "buf", 0, S),
      InDst(S, "buf2", S, S)>>
  \o Mark \o <<Dst("buf2"), Files, Fill(11, 11), Drain(11, 11),
      Fill(S - 10, S - 11), Fill(1, 1), Drain(S - 10, S - 11), Drain(1, 1),
      Used(1, 0), At(1, 1, 1), Seek, Back(0, S + 1, S + 1), Back(0, 1, 0),
      InDst(0, "buf", 0, S + 1), InDst(S + 1, "buf2", S + 1, S - 1)>>

\* Copies in and out up to the wrap.
IntoFromTests ==
  Mark \o <<Dst("buf2"), Into(1, "buf", 0, 11), From(1, 0, 11), Used(1, 0),
      InDst(0, "buf", 0, 11), InDst(11, "buf2", 11, 2 * S - 11), Marked1>>
  \o Mark \o <<Dst("buf2"), Into(1, "buf", 0, 11), From(1, 0, 7), Used(1, 4),
      InDst(0, "buf", 0, 7), InDst(7, "buf2", 7, 2 * S - 7), At(1, 7, 11),
      Marked1>>
  \o Mark \o <<Dst("buf2"), Into(1, "buf", 0, 11), From(1, 0, 11),
      Into(1, "buf", 11, S - 12), Used(1, S - 12), At(1, 11, S - 1),
      InDst(0, "buf", 0, 11), InDst(11, "buf2", 11, 2 * S - 11)>>
  \o Mark \o <<Dst("buf2"), Into(1, "buf", 0, 11), From(1, 0, 11),
      Into(1, "buf", 11, S - 11), Used(1, S - 11), At(1, 11, 0),
      InDst(0, "buf", 0, 11), InDst(11, "buf2", 11, 2 * S - 11)>>
  \o Mark \o <<Dst("buf2"), Into(1, "buf", 0, 11), From(1, 0, 11),
      Into(1, "buf", 11, S - 10), From(1, 11, S - 12), Used(1, 2),
      At(1, S - 1, 1), InDst(0, "buf", 0, S - 1),
      InDst(S - 1, "buf2", S - 1, S + 1)>>
  \o Mark \o <<Dst("buf2"), Into(1, "buf", 0, 11), From(1, 0, 11),
      Into(1, "buf", 11, S - 10), From(1, 11, S - 11), Used(1, 1), At(1, 0, 1),
      InDst(0, "buf", 0, S), InDst(S, "buf2", S, S)>>

\* Overflow with tail ahead of head.
OverflowTests ==
  Mark \o <<Dst("buf2"), Into(1, "buf", 0, 11), From(1, 0, 11),
      Into(1, "buf", 11, S - 10), From(1, 11, S - 10), Used(1, 0), At(1, 1, 1),
      InDst(0, "buf", 0, S + 1), InDst(S + 1, "buf2", S + 1, S - 1)>>
  \o <<Reset(1), Memset(1, 1, S, S), Dst("buf2"), Files, Fill(11, 11),
      Drain(11, 11), Fill(S - 11, S - 11), Fill(11, 11), Used(1, S - 1),
      At(1, 12, 11)>>
  \o Mark \o <<Dst("buf2"), Files, Fill(11, 11), Drain(11, 11),
      Fill(S - 11, S - 11), Drain(S - 12, S - 12), At(1, S - 1, AnyPlace),
      Fill(S - 1, S - 1), Used(1, S - 1), At(1, 0, S - 1)>>
  \o Mark \o <<Dst("buf2"), Into(1, "buf", 0, 11), From(1, 0, 11),
      Into(1, "buf", 11, S - 11), Into(1, "buf", S, 11), Used(1, S - 1),
      At(1, 12, 11)>>
  \o Mark \o <<Dst("buf2"), Into(1, "buf", 0, 11), From(1, 0, 11),
      Into(1, "buf", 11, S - 11), From(1, 11, S - 12), At(1, S - 1, AnyPlace),
      Into(1, "buf", S, S - 1), Used(1, S - 1), At(1, 0, S - 1)>>

\* ringbuf_copy.
CopyTests ==
  Mark2 \o <<Copy(1, 2, 0), Used(1, 0), Used(2, 0), At(1, AnyPlace, 0), At(2,
      AnyPlace, 0)>>
  \o Mark2 \o <<Into(1, "buf", 0, 2), Copy(1, 2, 0), Used(1, 2), Used(2, 0),
      At(1, 0, 2), At(2, AnyPlace, 0)>>
  \o Mark2 \o <<Into(2, "buf", 0, 2), Copy(1, 2, 0), Used(1, 0), Used(2, 2),
      At(2, 0, 2), At(1, AnyPlace, 0)>>
  \o Mark2 \o <<Into(1, "buf", 0, 2), Into(2, "buf2", 0, 2), Copy(1, 2, 0),
      Used(1, 2), Used(2, 2), At(1, 0, 2), At(2, 0, 2)>>
  \o Mark2 \o <<Into(2, "buf2", 0, 2), Copy(1, 2, 2), Used(1, 2), Used(2, 0),
      At(1, 0, 2), At(2, 2, 2), FromTail(1, 0, "buf2", 0, 2)>>

\* ringbuf_copy with a wrap on one side.
CopyWrapTests ==
  Mark2 \o <<Into(1, "buf", 0, 3), Into(2, "buf2", 0, 2), Copy(1, 2, 2),
      Used(1, 5), Used(2, 0), At(1, 0, 5), At(2, 2, 2),
      FromTail(1, 0, "buf", 0, 3), FromTail(1, 3, "buf2", 0, 2)>>
  \o Mark2 \o <<Into(1, "buf", 0, S - 1), At(1, AnyPlace, S - 1), From(1, 0, 1),
      Into(2, "buf2", 0, 1), Copy(1, 2, 1), Used(1, S - 1), Used(2, 0),
      At(1, 1, 0), At(2, 1, 1), FromTail(1, 0, "buf", 1, S - 2),
      FromTail(1, S - 2, "buf2", 0, 1)>>
  \o Mark2 \o <<Into(1, "buf", 0, S - 1), At(1, AnyPlace, S - 1), From(1, 0, 2),
      Into(2, "buf2", 0, 2), Copy(1, 2, 2), Used(1, S - 1), Used(2, 0),
      At(1, 2, 1), At(2, 2, 2), FromTail(1, 0, "buf", 2, S - 3),
      FromTail(1, S - 3, "buf2", 0, 1), FromBase(1, 0, "buf2", 1, 1)>>
  \o Mark2 \o <<Into(2, "buf2", 0, S - 1), At(2, AnyPlace, S - 1),
      From(2, 0, S - 3), At(2, S - 3, AnyPlace), Into(2, "buf2", S - 1, 2),
      Copy(1, 2, 3), Used(1, 3), Used(2, 1), At(1, 0, 3), At(2, 0, 1),
      FromTail(1, 0, "buf2", S - 3, 3), Marked1>>

\* ringbuf_copy with a wrap on both sides, and an overflow.
CopyBothTests ==
  Mark2 \o <<Into(2, "buf2", 0, S - 1), At(2, AnyPlace, S - 1), From(2, 0, S - 3),
      At(2, S - 3, AnyPlace), Into(2, "buf2", S - 1, 2), Copy(1, 2, 4), Used(1, 4),
      Used(2, 0), At(1, 0, 4), At(2, 1, 1), FromTail(1, 0, "buf2", S - 3, 4),
      Marked1>>
  \o Mark2 \o <<Into(2, "buf2", 0, S - 1), At(2, AnyPlace, S - 1),
      From(2, 0, S - 3), At(2, S - 3, AnyPlace), Into(2, "buf2", S - 1, 2),
      Into(1, "buf", 0, S - 3), At(1, AnyPlace, S - 3), From(1, 0, S - 3),
      At(1, S - 3, AnyPlace), Copy(1, 2, 4), Used(1, 4), Used(2, 0),
      At(1, S - 3, 1), At(2, 1, 1), FromTail(1, 0, "buf2", S - 3, 3),
      FromBase(1, 0, "buf2", S, 1)>>
  \o Mark2 \o <<Into(2, "buf2", 0, S - 1), At(2, AnyPlace, S - 1),
      From(2, 0, S - 2), At(2, S - 2, AnyPlace), Into(2, "buf2", S - 1, 5),
      Into(1, "buf", 0, S - 3), At(1, AnyPlace, S - 3), From(1, 0, S - 4),
      At(1, S - 4, AnyPlace), Copy(1, 2, 5), Used(1, 6), Used(2, 1),
      At(1, S - 4, 2), At(2, 3, 4), FromTail(1, 0, "buf", S - 4, 1),
      FromTail(1, 1, "buf2", S - 2, 3), FromBase(1, 0, "buf2", S + 1, 2)>>
  \o Mark2 \o <<Into(1, "buf", 0, S - 1), At(1, 0, S - 1),
      Into(2, "buf2", 0, 2), Copy(1, 2, 2), Used(1, S - 1), Used(2, 0),
      At(1, 2, 1), At(2, 2, 2), FromTail(1, 0, "buf", 2, S - 3),
      FromTail(1, S - 3, "buf2", 0, 1), FromBase(1, 0, "buf2", 1, 1)>>

\* ringbuf_copy of too much and into a smaller buffer; ringbuf_findchr.
CopyEndTests ==
  Mark2 \o <<Into(1, "buf", 0, 2), Into(2, "buf2", 0, 2), Under(2, 3),
      Used(1, 2), Used(2, 2), At(1, 0, 2), At(2, 0, 2)>>
  \o <<Memset(1, 1, S, S), Reset(1), Memset(3, 3, 9, 9), Reset(3),
      Into(1, "buf", 0, 10), Copy(3, 1, 10), Used(1, 0), Used(3, 8),
      At(1, 10, 10), At(3, 2, 1), FromTail(3, 0, "buf", 2, 7),
      FromBase(3, 0, "buf", 9, 1)>>
  \o Mark \o <<Find(100, 0, 0)>>
  \o Mark \o <<Into(1, "buf", 0, 2), Find(100, 0, 0)>>
  \o Mark \o <<Into(1, "buf", 0, 2), Find(100, 1, Used1)>>
  \o Mark \o <<Into(1, "buf", 0, 2), Find(101, 0, 1)>>
  \o Mark \o <<Into(1, "buf", 0, 2), Find(101, 1, 1)>>

\* ringbuf_findchr in the first lap.
FindTests ==
  Mark \o <<Into(1, "buf", 0, 2), Find(101, 2, Used1)>>
  \o Mark \o <<Into(1, "buf", 0, 2), Find(1, 0, Used1)>>
  \o Mark \o <<Into(1, "buf", 0, 12), Find(100, 1, 11)>>
  \o Mark \o <<Into(1, "buf", 0, 12), Find(100, 11, 11)>>
  \o Mark \o <<Into(1, "buf", 0, 12), Find(100, 12, Used1)>>
  \o Mark \o <<Into(1, "buf", 0, 21), Find(100, 12, Used1)>>
  \o Mark \o <<Into(1, "buf", 0, 3), From(1, 0, 1), Find(100, 0, Used1)>>
  \o Mark \o <<Into(1, "buf", 0, 3), From(1, 0, 1), Find(101, 0, 0)>>
  \o Mark \o <<Into(1, "buf", 0, 3), From(1, 0, 2), Find(101, 0, Used1)>>
  \o Mark \o <<Into(1, "buf", 0, S - 1), From(1, 0, S - 4), Find(103, 0, 3)>>
  \o Mark \o <<Into(1, "buf", 0, S + 1), From(1, 0, S - 4), Find(103, 1, 1)>>
  \o Mark \o <<Into(1, "buf", 0, S + 1), From(1, 0, S - 4), Find(103, 2,
      Used1)>>

\* ringbuf_findchr across the wrap.
FindWrapTests ==
  Mark \o <<Into(1, "buf", 0, S), From(1, 0, S - 4), Find(100, 0, Used1)>>
  \o Mark \o <<Into(1, "buf", 0, S + 1), From(1, 0, S - 4), Find(104, 0, 2)>>
  \o Mark \o <<Into(1, "buf", 0, S + 1), From(1, 0, S - 4), Find(104, 1, 2)>>
  \o Mark \o <<Into(1, "buf", 0, S + 1), From(1, 0, S - 4), Find(104, 2, 2)>>
  \o Mark \o <<Into(1, "buf", 0, S + 1), From(1, 0, S - 4), Find(104, 3,
      Used1)>>
  \o Mark \o <<Into(1, "buf", 0, S + 1), From(1, 0, S - 1), Find(102, 0,
      Used1)>>
  \o Mark \o <<Into(1, "buf", 0, S + 1), From(1, 0, S - 1), Find(103, 1,
      Used1)>>

Script ==
  InitialTests \o MemsetTests \o IntoTests \o ReadTests \o FromTests
  \o FromWriteTests \o WriteTests \o ReadWriteTests \o WrapTests
  \o IntoFromTests \o OverflowTests \o CopyTests \o CopyWrapTests
  \o CopyBothTests \o CopyEndTests \o FindTests \o FindWrapTests

-----------------------------------------------------------------------------

RingTestInit ==
  /\ ring = <<New(S - 1), New(S - 1), New(8)>>
  /\ rdfd = 0
  /\ wrfd = [data |-> <<>>, pos |-> 0]
  /\ dst = Source("buf", 0, 2 * S)
  /\ step = 1
  /\ passed = TRUE

\* dst with the bytes s from index off on.
Over(off, s) ==
  [i \in 1 .. 2 * S |-> IF i \in off + 1 .. off + Len(s) THEN s[i - off] ELSE dst[i]]

\* A call on rb1, rb2 or rb3 that is no assert on its own.
CallRing(s) ==
  /\ ring' =
       CASE s.op = "new"    -> [ring EXCEPT ![1] = New(s.n)]
         [] s.op = "reset"  -> [ring EXCEPT ![s.r].head = 0, ![s.r].tail = 0]
         [] s.op = "memset" ->
              [ring EXCEPT ![s.r] =
                 Write(@, [i \in 1 .. MemsetCount(@, s.n) |-> s.c])]
         [] s.op = "into"   -> [ring EXCEPT ![s.r] = Write(@, Source(s.src, s.off, s.n))]
         [] s.op = "copy"   ->
              [ring EXCEPT ![s.d] = Write(@, Read(ring[s.r], s.n)),
                           ![s.r] = Consume(@, s.n)]
  /\ passed' =
       CASE s.op = "memset" -> MemsetCount(ring[s.r], s.n) = s.ret
         [] s.op = "copy"   -> s.n <= bytes_used(ring[s.r])
         [] OTHER           -> TRUE
  /\ UNCHANGED <<rdfd, wrfd, dst>>

\* Bytes go from rb1 or rb2 to dst, and between rb1 and the files.
MoveBytes(s) ==
  \/ /\ s.op = "from"
     /\ dst' = Over(s.off, Read(ring[s.r], s.n))
     /\ ring' = [ring EXCEPT ![s.r] = Consume(@, s.n)]
     /\ passed' = (s.n <= bytes_used(ring[s.r]))
     /\ UNCHANGED <<rdfd, wrfd>>
  \/ /\ s.op = "fill"
     /\ LET n == ReadCount(ring[1], s.n) IN
          /\ ring' = [ring EXCEPT ![1] = Write(@, Source("buf", rdfd, n))]
          /\ rdfd' = rdfd + n
          /\ passed' = (n = s.ret /\ rdfd + n <= 2 * S)
     /\ UNCHANGED <<wrfd, dst>>
  \/ /\ s.op = "drain"
     /\ LET n == WriteCount(ring[1], s.n) IN
          /\ wrfd' = [data |-> wrfd.data \o Read(ring[1], n), pos |-> wrfd.pos + n]
          /\ ring' = [ring EXCEPT ![1] = Consume(@, n)]
          /\ passed' = (n = s.ret)
     /\ UNCHANGED <<rdfd, dst>>

\* The test's own calls on its files and its buffer.
UseFiles(s) ==
  /\ rdfd' = IF s.op \in {"rewind", "files"} THEN 0 ELSE rdfd
  /\ wrfd' = CASE s.op = "files" -> [data |-> <<>>, pos |-> 0]
               [] s.op = "seek"  -> [wrfd EXCEPT !.pos = 0]
               [] s.op = "back"  -> [wrfd EXCEPT !.pos = @ + s.ret]
               [] OTHER          -> wrfd
  /\ dst' = CASE s.op = "dst"  -> Source(s.src, 0, 2 * S)
              [] s.op = "back" ->
                   Over(s.off, SubSeq(wrfd.data, wrfd.pos + 1, wrfd.pos + s.ret))
              [] OTHER         -> dst
  /\ passed' = (s.op = "back" => s.ret = Least(s.n, Len(wrfd.data) - wrfd.pos))
  /\ UNCHANGED ring

\* n bytes of rb's array from index i on are those of the source.
SameBytes(b, i, s) == \A j \in 1 .. s.n : b.buf[i + j - 1] = fill_buffer(s.src, s.off + j - 1)

\* An assert, or the result of a call that changes nothing.
Holds(s) ==
  CASE s.op = "used" ->
         LET b == ring[s.r] IN
         bytes_used(b) = s.n /\ bytes_free(b) = b.size - 1 - s.n
    [] s.op = "at" ->
         /\ s.tail \in {AnyPlace, ring[s.r].tail}
         /\ s.head \in {AnyPlace, ring[s.r].head}
    [] s.op = "under"  -> s.n > bytes_used(ring[s.r])
    [] s.op = "marked" -> ring[1].buf[ring[1].head] = 1
    [] s.op = "start"  -> rdfd = 0
    [] s.op = "tail"   -> SameBytes(ring[s.r], ring[s.r].tail + s.k, s)
    [] s.op = "base"   -> SameBytes(ring[s.r], s.k, s)
    [] s.op = "indst"  ->
         SubSeq(dst, s.k + 1, s.k + s.n) = Source(s.src, s.off, s.n)
    [] s.op = "find" ->
         ringbuf_findchr(ring[1], s.c, s.off) =
           IF s.ret = Used1 THEN bytes_used(ring[1]) ELSE s.ret

CheckAssert(s) == passed' = Holds(s) /\ UNCHANGED <<ring, rdfd, wrfd, dst>>

\* The next step; a failed assert ends the program (sigabort, 59-64).
RingTestNext ==
  /\ passed /\ step <= Len(Script)
  /\ step' = step + 1
  /\ LET s == Script[step] IN
       \/ s.op \in {"new", "reset", "memset", "into", "copy"} /\ CallRing(s)
       \/ MoveBytes(s)
       \/ s.op \in {"rewind", "files", "seek", "back", "dst"} /\ UseFiles(s)
       \/ /\ s.op \in {"used", "at", "under", "marked", "start", "tail", "base",
                       "indst", "find"}
          /\ CheckAssert(s)

-----------------------------------------------------------------------------

\* Every assert of the unit tests (ringbuf-test.c 113-2195) holds of the
\* operators RingBuf models ringbuf.c with: positions after each wrap and
\* overflow, short counts, refused underflows, what a search finds.
TestsPass == passed
=============================================================================
