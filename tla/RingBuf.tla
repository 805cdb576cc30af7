------------------------------- MODULE RingBuf -------------------------------
(***************************************************************************)
(* The byte ring buffer of Programming-Techniques/Ring-buffer/ring2        *)
(* (ringbuf.c): an array with one byte more than it can hold, an index     *)
(* head where the next byte goes and an index tail of the oldest one.  A   *)
(* copy loop of the code works in chunks up to the end of the array; the   *)
(* model says which bytes the array has after all of them.                 *)
(***************************************************************************)
EXTENDS Naturals, Sequences

CONSTANTS
  Buffers,
  Capacity,    \* Capacity[r]: what ringbuf_new makes r with
  MaxCount,    \* bound on the length of one call's data
  Bytes,
  Junk         \* what malloc leaves in the array

ASSUME RingAssumption ==
  /\ Capacity \in [Buffers -> Nat]
  /\ MaxCount \in Nat
  /\ Junk \notin Bytes

VARIABLES rb,      \* rb[r]: the struct ringbuf_t, buf an array from 0
          taken    \* the bytes the last call copied out

ringVars == <<rb, taken>>

Least(a, b) == IF a < b THEN a ELSE b

Indices(b) == 0 .. b.size - 1

bytes_free(b) ==
  IF b.head >= b.tail THEN (b.size - 1) - (b.head - b.tail)
  ELSE b.tail - b.head - 1

bytes_used(b) == (b.size - 1) - bytes_free(b)

\* Mutant of nextp: it may point past the end of the array.
nextpPastEnd(b, p) == p + 1

nextp(b, p) == (p + 1) % b.size

\* ringbuf_new: malloc does not fail.
New(capacity) ==
  [size |-> capacity + 1, buf |-> [i \in 0 .. capacity |-> Junk],
   head |-> 0, tail |-> 0]

RingInit ==
  /\ rb = [r \in Buffers |-> New(Capacity[r])]
  /\ taken = <<>>

\* The bytes of b from tail on, n of them.
Read(b, n) == [i \in 1 .. n |-> b.buf[(b.tail + i - 1) % b.size]]

\* The numbers of the first and of the last byte of a copy of n bytes that go
\* to index k; there is one when the first is at most n.
FirstTo(b, k) == ((k + b.size - b.head) % b.size) + 1
LastTo(b, n, k) == FirstTo(b, k) + b.size * ((n - FirstTo(b, k)) \div b.size)

\* Mutant of Write: tail is not moved on past the byte that stays free.
WriteTailAtHead(b, s) ==
  LET n    == Len(s)
      head == (b.head + n) % b.size
  IN [b EXCEPT
        !.buf  = [k \in Indices(b) |->
                    IF FirstTo(b, k) <= n THEN s[LastTo(b, n, k)] ELSE b.buf[k]],
        !.head = head,
        !.tail = IF n > bytes_free(b) THEN head ELSE b.tail]

\* The copy loop from s to head, with its wraps, and the fix of tail.
Write(b, s) ==
  LET n    == Len(s)
      head == (b.head + n) % b.size
  IN [b EXCEPT
        !.buf  = [k \in Indices(b) |->
                    IF FirstTo(b, k) <= n THEN s[LastTo(b, n, k)] ELSE b.buf[k]],
        !.head = head,
        !.tail = IF n > bytes_free(b) THEN nextp(b, head) ELSE b.tail]

\* The copy loop from tail, with its wraps.
Consume(b, n) == [b EXCEPT !.tail = (b.tail + n) % b.size]

\* Mutant of ringbuf_findchr: memchr goes on to the end of the array.
findchrToEnd(b, c, offset) ==
  LET used == bytes_used(b)
      find[o \in Nat] ==
        IF o >= used THEN used
        ELSE LET start == (b.tail + o) % b.size
                 n     == b.size - start
                 found == {i \in 0 .. n - 1 : b.buf[start + i] = c}
             IN IF found # {}
                THEN o + (CHOOSE i \in found : \A j \in found : i <= j)
                ELSE find[o + n]
  IN find[offset]

\* memchr over the bytes from offset to the end of the array or of the
\* content, then again from there.
ringbuf_findchr(b, c, offset) ==
  LET used == bytes_used(b)
      find[o \in Nat] ==
        IF o >= used THEN used
        ELSE LET start == (b.tail + o) % b.size
                 n     == Least(b.size - start, used - o)
                 found == {i \in 0 .. n - 1 : b.buf[start + i] = c}
             IN IF found # {}
                THEN o + (CHOOSE i \in found : \A j \in found : i <= j)
                ELSE find[o + n]
  IN find[offset]

\* How many bytes ringbuf_memset, ringbuf_read and ringbuf_write move when
\* asked for count: at most size, or to the end of the array; a ringbuf_write
\* of more than is there moves none.
MemsetCount(b, count) == Least(count, b.size)
ReadCount(b, count)   == Least(count, b.size - b.head)
WriteCount(b, count)  ==
  IF count > bytes_used(b) THEN 0 ELSE Least(count, b.size - b.tail)

Strings(k) == UNION {[1 .. n -> Bytes] : n \in 0 .. k}

-------------------------------------------------------------------------------

ringbuf_reset(r) ==
  /\ rb' = [rb EXCEPT ![r].head = 0, ![r].tail = 0]
  /\ UNCHANGED taken

\* ringbuf_free and ringbuf_new; no call has r in between.
Renew(r) ==
  /\ rb' = [rb EXCEPT ![r] = New(Capacity[r])]
  /\ UNCHANGED taken

\* At most size bytes are written.
ringbuf_memset(r) ==
  /\ \E c \in Bytes, len \in 0 .. MaxCount :
       rb' = [rb EXCEPT ![r] = Write(@, [i \in 1 .. MemsetCount(rb[r], len) |-> c])]
  /\ UNCHANGED taken

ringbuf_memcpy_into(r) ==
  /\ \E src \in Strings(MaxCount) : rb' = [rb EXCEPT ![r] = Write(@, src)]
  /\ UNCHANGED taken

\* One read(2) up to the end of the array; it may be short, 0 at end of file
\* or fail, and then nothing changes.
ringbuf_read(r) ==
  /\ \E count \in 0 .. MaxCount :
       \E s \in Strings(ReadCount(rb[r], count)) :
         /\ s # <<>>
         /\ rb' = [rb EXCEPT ![r] = Write(@, s)]
  /\ UNCHANGED taken

\* Nothing happens when count is more than is there.
ringbuf_memcpy_from(r) ==
  /\ \E count \in 0 .. Least(MaxCount, bytes_used(rb[r])) :
       /\ taken' = Read(rb[r], count)
       /\ rb' = [rb EXCEPT ![r] = Consume(@, count)]

\* One write(2) up to the end of the array; it may be short.
ringbuf_write(r) ==
  /\ \E count \in 0 .. MaxCount :
       \E n \in 1 .. WriteCount(rb[r], count) :
         /\ taken' = Read(rb[r], n)
         /\ rb' = [rb EXCEPT ![r] = Consume(@, n)]

ringbuf_copy(dst, src) ==
  /\ \E count \in 0 .. Least(MaxCount, bytes_used(rb[src])) :
       rb' = [rb EXCEPT ![dst] = Write(@, Read(rb[src], count)),
                        ![src] = Consume(@, count)]
  /\ UNCHANGED taken

RingNext ==
  \/ \E r \in Buffers :
       \/ Renew(r) \/ ringbuf_reset(r)
       \/ ringbuf_memset(r) \/ ringbuf_memcpy_into(r)
       \/ ringbuf_read(r) \/ ringbuf_memcpy_from(r) \/ ringbuf_write(r)
  \/ \E dst, src \in Buffers : dst # src /\ ringbuf_copy(dst, src)

RingSpec == RingInit /\ [][RingNext]_ringVars

-------------------------------------------------------------------------------

\* head and tail point into the array, and no byte malloc left there is ever
\* taken for content (ringbuf_bytes_used, 108).
RingTypeOK ==
  /\ taken \in Seq(Bytes)
  /\ \A r \in Buffers :
       LET b == rb[r] IN
       /\ b.size = Capacity[r] + 1
       /\ b.buf \in [Indices(b) -> Bytes \cup {Junk}]
       /\ b.head \in Indices(b) /\ b.tail \in Indices(b)
       /\ Read(b, bytes_used(b)) \in Seq(Bytes)

\* ringbuf_findchr (155-172), which searches the array in two pieces, finds
\* the first c at or after the offset that ringbuf.h 106-116 speaks of, and
\* bytes_used when there is none, wherever the content lies in the array.
FindchrFindsFirst ==
  \A r \in Buffers, c \in Bytes, offset \in 0 .. MaxCount :
    LET used    == bytes_used(rb[r])
        content == Read(rb[r], used)
        at      == {i \in offset .. used - 1 : content[i + 1] = c}
        result  == ringbuf_findchr(rb[r], c, offset)
    IN IF at = {} THEN result = used
       ELSE result \in at /\ \A i \in at : result <= i

\* Every call on the buffers does what ringbuf.h 120-241 says of FIFOs of the
\* given capacity: each byte comes out once, in the order it was put in, and
\* an overflow drops the oldest bytes only.
Fifo == INSTANCE ByteFifo WITH
  capacity <- Capacity,
  MaxPut   <- MaxCount,
  content  <- [r \in Buffers |-> Read(rb[r], bytes_used(rb[r]))],
  taken    <- taken

FifoSpec == Fifo!Spec
===============================================================================
