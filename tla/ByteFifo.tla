------------------------------- MODULE ByteFifo -------------------------------
(***************************************************************************)
(* What ringbuf.h promises: ring buffers that are FIFOs of bounded size.   *)
(* Putting in more than fits drops the oldest bytes; taking out more than  *)
(* there is takes nothing.                                                 *)
(***************************************************************************)
EXTENDS Naturals, Sequences

CONSTANTS Buffers, Bytes,
          MaxPut,   \* bound on the bytes one call puts in
          capacity  \* usable bytes of each buffer

VARIABLES content,  \* the bytes in each buffer, oldest first
          taken     \* the bytes the last call took out

Drop(s, n) == SubSeq(s, n + 1, Len(s))

\* s with t put in, when n bytes fit.
Overwrite(s, t, n) ==
  LET u == s \o t IN IF Len(u) > n THEN Drop(u, Len(u) - n) ELSE u

Put(r, t) ==
  /\ content' = [content EXCEPT ![r] = Overwrite(@, t, capacity[r])]
  /\ UNCHANGED taken

Take(r, n) ==
  /\ n <= Len(content[r])
  /\ taken' = SubSeq(content[r], 1, n)
  /\ content' = [content EXCEPT ![r] = Drop(@, n)]

Move(dst, src, n) ==
  /\ n <= Len(content[src])
  /\ content' = [content EXCEPT
       ![dst] = Overwrite(@, SubSeq(content[src], 1, n), capacity[dst]),
       ![src] = Drop(@, n)]
  /\ UNCHANGED taken

Clear(r) ==
  /\ content' = [content EXCEPT ![r] = <<>>]
  /\ UNCHANGED taken

Next ==
  \/ \E r \in Buffers :
       \/ \E k \in 0 .. MaxPut : \E t \in [1 .. k -> Bytes] : Put(r, t)
       \/ \E n \in 0 .. capacity[r] : Take(r, n)
       \/ Clear(r)
  \/ \E dst, src \in Buffers :
       dst # src /\ \E n \in 0 .. capacity[src] : Move(dst, src, n)

Init ==
  /\ content = [r \in Buffers |-> <<>>]
  /\ taken = <<>>

Spec == Init /\ [][Next]_<<content, taken>>

===============================================================================
