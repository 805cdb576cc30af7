------------------------------- MODULE CdService -------------------------------
(***************************************************************************)
(* What the client/server application promises its user interface: each    *)
(* call of an access function of cd_data.h takes effect once, atomically,  *)
(* between the call and the return, on the one database, and returns the   *)
(* result of that execution.  A call may be abandoned (its client or the   *)
(* server is gone) and the administrator may recreate the database.        *)
(***************************************************************************)
EXTENDS CdDbm

CONSTANTS Callers, None

VARIABLES db,    \* the database
          call,  \* call[p]: the call in progress of p
          got    \* got[p]: the last result returned to p

serviceVars == <<db, call, got>>

Idle           == [at |-> "idle"]
Pending(r)     == [at |-> "pending", req |-> r]
Executed(r, x) == [at |-> "executed", req |-> r, result |-> x]

Init == /\ db = EmptyDb
        /\ call = [p \in Callers |-> Idle]
        /\ got = [p \in Callers |-> None]

Invoke(p) ==
  /\ call[p] = Idle
  /\ \E r \in Requests : call' = [call EXCEPT ![p] = Pending(r)]
  /\ UNCHANGED <<db, got>>

Execute(p) ==
  /\ call[p].at = "pending"
  /\ \E o \in Outcomes(db, call[p].req) :
       /\ db' = o.db
       /\ call' = [call EXCEPT ![p] = Executed(call[p].req, o.result)]
  /\ UNCHANGED got

Return(p) ==
  /\ call[p].at = "executed"
  /\ got' = [got EXCEPT ![p] = call[p].result]
  /\ call' = [call EXCEPT ![p] = Idle]
  /\ UNCHANGED db

\* One event, the end of the server, may abandon several calls.
Abandon ==
  /\ \E Q \in SUBSET Callers :
       call' = [p \in Callers |-> IF p \in Q THEN Idle ELSE call[p]]
  /\ UNCHANGED <<db, got>>

Recreate ==
  /\ db' = EmptyDb
  /\ UNCHANGED <<call, got>>

Next == \/ \E p \in Callers : Invoke(p) \/ Execute(p) \/ Return(p)
        \/ Abandon
        \/ Recreate

Spec == Init /\ [][Next]_serviceVars

==============================================================================
