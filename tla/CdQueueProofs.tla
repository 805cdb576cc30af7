---------------------------- MODULE CdQueueProofs ----------------------------
(* Theorems about the CD application over message queues, for any clients,   *)
(* any requests and queues of any size.                                      *)
EXTENDS CdQueue, CdDbmProofs

Slots == [msg_key : Pids, msg : Messages]

(***************************************************************************)
(* The queue of the responses.                                             *)
(***************************************************************************)

\* msgrcv takes the i-th message out.
LEMMA RemoveFacts ==
  ASSUME NEW S, NEW s \in Seq(S), NEW i \in 1 .. Len(s), NEW t,
         t = SubSeq(s, 1, i - 1) \o SubSeq(s, i + 1, Len(s))
  PROVE  /\ t \in Seq(S) /\ Len(s) \in Nat \ {0} /\ Len(t) = Len(s) - 1
         /\ \A j \in 1 .. Len(t) : t[j] = IF j < i THEN s[j] ELSE s[j + 1]
<1>1. Len(s) \in Nat \ {0} /\ i \in Nat
  OBVIOUS
<1>2. SubSeq(s, 1, i - 1) \in Seq(S) /\ Len(SubSeq(s, 1, i - 1)) = i - 1
      /\ \A j \in 1 .. i - 1 : SubSeq(s, 1, i - 1)[j] = s[j]
  BY <1>1
<1>3. SubSeq(s, i + 1, Len(s)) \in Seq(S) /\ Len(SubSeq(s, i + 1, Len(s))) = Len(s) - i
      /\ \A j \in 1 .. Len(s) - i : SubSeq(s, i + 1, Len(s))[j] = s[i + j]
  BY <1>1
<1> DEFINE a == SubSeq(s, 1, i - 1)
           b == SubSeq(s, i + 1, Len(s))
<1> HIDE DEF a, b
<1>4. /\ t = a \o b /\ a \in Seq(S) /\ b \in Seq(S) /\ Len(a) = i - 1 /\ Len(b) = Len(s) - i
      /\ \A j \in 1 .. i - 1 : a[j] = s[j]
      /\ \A j \in 1 .. Len(s) - i : b[j] = s[i + j]
  BY <1>2, <1>3 DEF a, b
<1>5. /\ t \in Seq(S) /\ Len(t) = Len(s) - 1
      /\ \A j \in 1 .. Len(t) : t[j] = IF j <= Len(a) THEN a[j] ELSE b[j - Len(a)]
  <2>1. /\ t \in Seq(S) /\ Len(t) = Len(a) + Len(b)
        /\ \A j \in 1 .. Len(a) + Len(b) : t[j] = IF j <= Len(a) THEN a[j] ELSE b[j - Len(a)]
    <3>1. t = a \o b /\ a \in Seq(S) /\ b \in Seq(S)
      BY <1>4
    <3>2. /\ a \o b \in Seq(S) /\ Len(a \o b) = Len(a) + Len(b)
          /\ \A j \in 1 .. Len(a) + Len(b) :
               (a \o b)[j] = IF j <= Len(a) THEN a[j] ELSE b[j - Len(a)]
      BY <3>1, ConcatProperties, Zenon
    <3> QED BY <3>1, <3>2, Zenon
  <2>2. Len(a) + Len(b) = Len(s) - 1
    BY <1>1, <1>4
  <2> QED BY <2>1, <2>2
<1>6. ASSUME NEW j \in 1 .. Len(t)
      PROVE  t[j] = IF j < i THEN s[j] ELSE s[j + 1]
  <2>1. CASE j < i
    BY <1>1, <1>4, <1>5, <2>1
  <2>2. CASE ~(j < i)
    <3>1. j \in 1 .. Len(s) - 1 /\ Len(a) = i - 1
      BY <1>4, <1>5
    <3>2. j - (i - 1) \in 1 .. Len(s) - i /\ i + (j - (i - 1)) = j + 1 /\ ~(j <= i - 1)
      BY <1>1, <2>2, <3>1
    <3>3. t[j] = b[j - (i - 1)]
      BY <1>5, <3>1, <3>2
    <3>4. b[j - (i - 1)] = s[i + (j - (i - 1))]
      BY <1>4, <3>2
    <3> QED BY <2>2, <3>2, <3>3, <3>4
  <2> QED BY <2>1, <2>2
<1> QED BY <1>1, <1>5, <1>6

\* t is s without its i-th element.
IsRest(t, s, i) ==
  /\ Len(t) = Len(s) - 1
  /\ \A j \in 1 .. Len(t) : t[j] = IF j < i THEN s[j] ELSE s[j + 1]

\* What is left of a message is behind those that stay.
LEMMA RemoveData ==
  ASSUME NEW s \in Seq(Slots), NEW i \in 1 .. Len(s), NEW t \in Seq(Slots), IsRest(t, s, i),
         NEW p, NEW n \in 0 .. Len(t)
  PROVE  /\ n < i => DataFor(t, p, n) = DataFor(s, p, n)
         /\ n >= i - 1 /\ s[i].msg_key # p => DataFor(t, p, n) = DataFor(s, p, n + 1)
         /\ n >= i - 1 /\ s[i].msg_key = p =>
              DataFor(t, p, n) \cup {s[i].msg.data} = DataFor(s, p, n + 1)
<1> USE DEF IsRest
<1>1. Len(s) \in Nat /\ Len(t) \in Nat /\ i \in Nat /\ n \in Nat
  OBVIOUS
<1>2. ASSUME n < i
      PROVE  DataFor(t, p, n) = DataFor(s, p, n)
  <2>1. \A k \in Nat : k \in 1 .. Len(t) /\ k <= n <=> k \in 1 .. Len(s) /\ k <= n
    BY <1>1, <1>2
  <2>2. \A k \in 1 .. Len(t) : k <= n => t[k] = s[k]
    BY <1>1, <1>2
  <2> QED BY <1>1, <2>1, <2>2 DEF DataFor
<1>3. ASSUME n >= i - 1
      PROVE  DataFor(t, p, n) \subseteq DataFor(s, p, n + 1)
  <2>1. SUFFICES ASSUME NEW k \in 1 .. Len(t), t[k].msg_key = p, k <= n
                 PROVE  t[k].msg.data \in DataFor(s, p, n + 1)
    BY DEF DataFor
  <2>2. CASE k < i
    <3>1. t[k] = s[k] /\ k \in 1 .. Len(s) /\ k <= n + 1
      BY <1>1, <2>1, <2>2
    <3> QED BY <2>1, <3>1 DEF DataFor
  <2>3. CASE ~(k < i)
    <3>1. t[k] = s[k + 1] /\ k + 1 \in 1 .. Len(s) /\ k + 1 <= n + 1
      BY <1>1, <2>1, <2>3
    <3> QED BY <2>1, <3>1 DEF DataFor
  <2> QED BY <2>2, <2>3
<1>4. ASSUME n >= i - 1, NEW k \in 1 .. Len(s), s[k].msg_key = p, k <= n + 1, k # i
      PROVE  s[k].msg.data \in DataFor(t, p, n)
  <2>1. CASE k < i
    <3>1. t[k] = s[k] /\ k \in 1 .. Len(t) /\ k <= n
      BY <1>1, <1>4, <2>1
    <3> QED BY <1>4, <3>1 DEF DataFor
  <2>2. CASE ~(k < i)
    <3>1. t[k - 1] = s[k] /\ k - 1 \in 1 .. Len(t) /\ k - 1 <= n
      BY <1>1, <1>4, <2>2
    <3> QED BY <1>4, <3>1 DEF DataFor
  <2> QED BY <2>1, <2>2
<1>5. ASSUME n >= i - 1, s[i].msg_key # p
      PROVE  DataFor(s, p, n + 1) \subseteq DataFor(t, p, n)
  BY <1>4, <1>5 DEF DataFor
<1>6. ASSUME n >= i - 1, s[i].msg_key = p
      PROVE  DataFor(t, p, n) \cup {s[i].msg.data} = DataFor(s, p, n + 1)
  <2>1. DataFor(s, p, n + 1) \subseteq DataFor(t, p, n) \cup {s[i].msg.data}
    BY <1>4, <1>6 DEF DataFor
  <2>2. s[i].msg.data \in DataFor(s, p, n + 1)
    <3>1. i <= n + 1
      BY <1>1, <1>6
    <3> QED BY <1>6, <3>1 DEF DataFor
  <2> QED BY <1>3, <1>6, <2>1, <2>2
<1> QED BY <1>2, <1>3, <1>5, <1>6

\* msgsnd puts a message behind the others.
LEMMA AppendQueueData ==
  ASSUME NEW s \in Seq(Slots), NEW m \in Slots, NEW p
  PROVE  /\ \A n \in 0 .. Len(s) : DataFor(Append(s, m), p, n) = DataFor(s, p, n)
         /\ m.msg_key = p =>
              DataFor(Append(s, m), p, Len(s) + 1) = DataFor(s, p, Len(s)) \cup {m.msg.data}
         /\ m.msg_key # p =>
              DataFor(Append(s, m), p, Len(s) + 1) = DataFor(s, p, Len(s))
<1> DEFINE t == Append(s, m)
<1>1. /\ Len(s) \in Nat /\ Len(t) = Len(s) + 1 /\ t[Len(s) + 1] = m
      /\ \A i \in 1 .. Len(s) : t[i] = s[i]
  BY AppendFacts
<1> HIDE DEF t
<1>2. ASSUME NEW n \in 0 .. Len(s)
      PROVE  DataFor(t, p, n) = DataFor(s, p, n)
  <2>1. \A k \in Nat : k \in 1 .. Len(t) /\ k <= n <=> k \in 1 .. Len(s) /\ k <= n
    BY <1>1
  <2> QED BY <1>1, <2>1 DEF DataFor
<1>3. DataFor(s, p, Len(s)) \subseteq DataFor(t, p, Len(s) + 1)
  <2>1. ASSUME NEW k \in 1 .. Len(s), s[k].msg_key = p
        PROVE  s[k].msg.data \in DataFor(t, p, Len(s) + 1)
    <3>1. k \in 1 .. Len(t) /\ t[k] = s[k] /\ k <= Len(s) + 1
      BY <1>1
    <3> QED BY <2>1, <3>1 DEF DataFor
  <2> QED BY <2>1 DEF DataFor
<1>4. ASSUME NEW k \in 1 .. Len(t), t[k].msg_key = p, k # Len(s) + 1
      PROVE  t[k].msg.data \in DataFor(s, p, Len(s))
  <2>1. k \in 1 .. Len(s) /\ t[k] = s[k] /\ k <= Len(s)
    BY <1>1, <1>4
  <2> QED BY <1>4, <2>1 DEF DataFor
<1>5. CASE m.msg_key = p
  <2>1. DataFor(t, p, Len(s) + 1) \subseteq DataFor(s, p, Len(s)) \cup {m.msg.data}
    BY <1>1, <1>4 DEF DataFor
  <2>2. m.msg.data \in DataFor(t, p, Len(s) + 1)
    <3>1. Len(s) + 1 \in 1 .. Len(t) /\ Len(s) + 1 <= Len(s) + 1
      BY <1>1
    <3> QED BY <1>1, <1>5, <3>1 DEF DataFor
  <2> QED BY <1>2, <1>3, <1>5, <2>1, <2>2 DEF t
<1>6. CASE m.msg_key # p
  <2>1. DataFor(t, p, Len(s) + 1) \subseteq DataFor(s, p, Len(s))
    BY <1>1, <1>4, <1>6 DEF DataFor
  <2> QED BY <1>2, <1>3, <1>6, <2>1 DEF t
<1> QED BY <1>5, <1>6

(***************************************************************************)
(* Types, places and identifiers.                                          *)
(***************************************************************************)

\* The client and the request of the command in service.
LEMMA CommandType ==
  ASSUME cmd \in Commands, cmd # None
  PROVE  cmd.client_pid \in Pids /\ cmd.req \in Ops /\ cmd.req \in Requests
BY CdQueueAssumption DEF Commands

\* A match that is sent is a message.
LEMMA MatchType ==
  ASSUME TypeOK, IsFind(cmd.req), cmd.req \in Requests, NEW c \in Unsent
  PROVE  c \in Catalogs /\ MatchOf(c) \in Messages
<1>1. cmd.req.pattern \in Patterns
  BY DEF IsFind, Requests
<1>2. c \in Catalogs /\ db.cdc[c] \in Titles
  BY <1>1, CdDbmAssumption DEF Unsent, Matching, TypeOK, Databases
<1> QED BY <1>2 DEF Messages, ResponseCodes, Data, Entries, MatchOf

\* The answer of an operation that is no search is a message.
LEMMA AnswerType ==
  ASSUME NEW x \in Results
  PROVE  [response |-> x.response, data |-> x.data] \in Messages
BY DEF Results, Messages

\* The bounds are numbers.
LEMMA Bounds == MaxStarts \in Nat /\ QCap \in Nat \ {0}
BY CdQueueAssumption

\* The empty queues.
LEMMA EmptyQueues ==
  <<>> \in Seq(Commands) /\ <<>> \in Seq(Slots) /\ Len(<<>>) = 0 /\ 0 <= QCap
BY Bounds

LEMMA QueueInit == Init => QueueInv
<1> SUFFICES ASSUME Init
             PROVE  QueueInv
  OBVIOUS
<1>1. TypeOK
  <2>1. /\ spc \in SPc /\ running \in BOOLEAN /\ starts \in 0 .. MaxStarts
        /\ cmd \in Commands \cup {None} /\ resp \in Messages \cup {None}
        /\ seen \subseteq Catalogs /\ db \in Databases
        /\ sqid \in 0 .. starts /\ cqid \in 0 .. starts
    <3>1. 0 \in 0 .. MaxStarts /\ 0 \in 0 .. 0
      BY Bounds
    <3> QED BY <3>1, EmptyDbType DEF Init, SPc
  <2>2. /\ sq \in Seq(Commands) /\ Len(sq) <= QCap
        /\ cq \in Seq([msg_key : Pids, msg : Messages]) /\ Len(cq) <= QCap
    BY EmptyQueues DEF Init, Slots
  <2>3. /\ cpc \in [Pids -> CPc]
        /\ csid \in [Pids -> 0 .. starts] /\ ccid \in [Pids -> 0 .. starts]
        /\ creq \in [Pids -> Ops \cup {None}] /\ cres \in [Pids -> SUBSET Data]
        /\ answer \in [Pids -> Results \cup {None}] /\ got \in [Pids -> Results \cup {None}]
    BY DEF Init, CPc
  <2> QED BY <2>1, <2>2, <2>3 DEF TypeOK
<1>2. ServerInv /\ QueuesFollowServer /\ EndRemovesQueues
  BY DEF Init, ServerInv, QueuesFollowServer, EndRemovesQueues, Serving
<1>3. \A p \in Pids : ClientHasQueues(p)
  BY DEF Init, ClientHasQueues, Waiting
<1> QED BY <1>1, <1>2, <1>3 DEF QueueInv

LEMMA TypeStep == QueueInv /\ [Next]_vars => TypeOK'
<1> SUFFICES ASSUME QueueInv, [Next]_vars
             PROVE  TypeOK'
  OBVIOUS
<1>a. TypeOK /\ ServerInv
  BY DEF QueueInv
<1> USE DEF TypeOK
<1>b. /\ cmd # None <=> spc \in Serving
      /\ cmd # None => cmd.client_pid \in Pids /\ cmd.req \in Ops /\ cmd.req \in Requests
      /\ starts \in Nat
  BY <1>a, CommandType, CdQueueAssumption DEF ServerInv
<1>1. CASE ServerStart
  <2>1. starts' = starts + 1 /\ starts' \in 0 .. MaxStarts /\ starts \in 0 .. starts'
        /\ \A x \in 0 .. starts : x \in 0 .. starts'
    BY <1>1, <1>a, CdQueueAssumption DEF ServerStart
  <2>2. db' \in Databases
    BY <1>1, <1>a, EmptyDbType DEF ServerStart
  <2>3. csid' \in [Pids -> 0 .. starts'] /\ ccid' \in [Pids -> 0 .. starts']
    BY <1>1, <1>a, <2>1 DEF ServerStart, clientVars
  <2> QED BY <1>1, <1>a, <2>1, <2>2, <2>3
      DEF ServerStart, SPc, queueVars, clientVars, history
<1>2. CASE ServerGetRequests
  BY <1>2, <1>a, <1>b DEF ServerGetRequests, SPc, clientVars, history
<1>3. CASE ServerGetReplies
  BY <1>3, <1>a, <1>b DEF ServerGetReplies, SPc, clientVars, history
<1>4. CASE ServerLoop \/ ServerEndSearch \/ ServerSpin
  <2>1. [response |-> "r_find_no_more", data |-> Absent] \in Messages
    BY DEF Messages, ResponseCodes, Data
  <2> QED BY <1>4, <1>a, <2>1 DEF ServerLoop, ServerEndSearch, ServerSpin, SPc, queueVars,
      clientVars, history
<1>5. CASE ServerRead
  <2>1. cmd' \in Commands /\ sq' \in Seq(Commands) /\ Len(sq') <= QCap
    BY <1>5, <1>a, TailFacts, CdQueueAssumption DEF ServerRead
  <2> QED BY <1>5, <1>a, <2>1 DEF ServerRead, SPc, clientVars, history
<1>6. CASE ServerExec
  <2>1. spc = "exec" /\ cmd.client_pid \in Pids /\ cmd.req \in Requests
    BY <1>6, <1>b DEF ServerExec, Serving
  <2>2. PICK o \in Outcomes(db, cmd.req) :
          /\ db' = o.db
          /\ answer' = [answer EXCEPT ![cmd.client_pid] = o.result]
          /\ IF IsFind(cmd.req)
             THEN spc' = "search" /\ UNCHANGED resp
             ELSE /\ resp' = [response |-> o.result.response, data |-> o.result.data]
                  /\ spc' = "reply"
    BY <1>6 DEF ServerExec
  <2>3. o.db \in Databases /\ o.result \in Results
    BY <1>a, <2>1, <2>2, OutcomesType
  <2>4. resp' \in Messages \cup {None} /\ spc' \in SPc
    BY <1>a, <2>2, <2>3, AnswerType DEF SPc
  <2>5. answer' \in [Pids -> Results \cup {None}]
    BY <1>a, <2>1, <2>2, <2>3
  <2> QED BY <1>6, <1>a, <2>2, <2>3, <2>4, <2>5 DEF ServerExec, queueVars, clientVars
<1>7. ASSUME NEW m \in Messages, Send(m), cmd # None
      PROVE  cq' \in Seq([msg_key : Pids, msg : Messages]) /\ Len(cq') <= QCap
  <2>1. [msg_key |-> cmd.client_pid, msg |-> m] \in Slots
    BY <1>b, <1>7 DEF Slots
  <2> QED BY <1>7, <1>a, <2>1, AppendFacts, CdQueueAssumption DEF Send, Slots
<1>8. CASE ServerSendMatch
  <2>1. PICK c \in Unsent \ {Empty} : Send(MatchOf(c)) /\ seen' = seen \cup {c}
    BY <1>8 DEF ServerSendMatch
  <2>2. /\ spc = "search" /\ cmd # None /\ IsFind(cmd.req)
    BY <1>8, <1>a, <1>b DEF ServerSendMatch, ServerInv, Serving
  <2>3. c \in Catalogs /\ MatchOf(c) \in Messages
    BY <1>a, <1>b, <2>1, <2>2, MatchType
  <2>4. cq' \in Seq([msg_key : Pids, msg : Messages]) /\ Len(cq') <= QCap
    BY <1>7, <2>1, <2>2, <2>3
  <2> QED BY <1>8, <1>a, <2>1, <2>3, <2>4 DEF ServerSendMatch, clientVars, history
<1>9. CASE ServerReply
  <2>1. resp \in Messages /\ cmd # None
    BY <1>9, <1>a, <1>b DEF ServerReply, ServerInv, Serving
  <2>2. cq' \in Seq([msg_key : Pids, msg : Messages]) /\ Len(cq') <= QCap
    BY <1>7, <1>9, <2>1 DEF ServerReply
  <2> QED BY <1>9, <1>a, <2>2 DEF ServerReply, Finish, SPc, clientVars, history
<1>10. CASE ServerRemoveRequests \/ ServerRemoveReplies
  <2>1. 0 \in 0 .. starts
    BY <1>b
  <2>2. CASE ServerRemoveRequests
    BY <2>1, <2>2, <1>a, EmptyQueues DEF ServerRemoveRequests, SPc, clientVars, history
  <2>3. CASE ServerRemoveReplies
    BY <2>1, <2>3, <1>a, EmptyQueues DEF ServerRemoveReplies, SPc, Slots, clientVars, history
  <2> QED BY <1>10, <2>2, <2>3
<1>11. CASE ServerCrash
  BY <1>11, <1>a DEF ServerCrash, Finish, SPc, queueVars, clientVars, history
<1>12. CASE Signal
  <2>1. UNCHANGED <<starts, db, queueVars, clientVars, history>> /\ running' = FALSE
    BY <1>12 DEF Signal
  <2>2. CASE UNCHANGED <<spc, cmd, resp, seen>> \/ InterruptRead \/ InterruptReply
    BY <2>1, <2>2, <1>a DEF InterruptRead, InterruptReply, Finish, SPc, queueVars, clientVars,
       history
  <2>3. CASE InterruptSearch
    <3>1. IsFind(cmd.req) /\ cmd # None
      BY <2>3, <1>a, <1>b DEF InterruptSearch, ServerInv, Serving
    <3>2. resp' \in Messages
      BY <2>3, <1>a, <1>b, <3>1, MatchType DEF InterruptSearch
    <3> QED BY <2>1, <2>3, <1>a, <3>2 DEF InterruptSearch, SPc, queueVars, clientVars, history
  <2> QED BY <1>12, <2>2, <2>3 DEF Signal
<1>13. ASSUME NEW p \in Pids, ClientStart(p) \/ ClientStarted(p) \/ ClientCall(p)
       PROVE  TypeOK'
  BY <1>13, <1>a DEF ClientStart, ClientStarted, ClientCall, CPc, serverVars, queueVars, history
<1>14. ASSUME NEW p \in Pids, ClientSend(p)
       PROVE  TypeOK'
  <2>1. creq[p] \in Ops
    BY <1>14 DEF ClientSend, QueueInv, ClientHasQueues, Waiting
  <2>2. [client_pid |-> p, req |-> creq[p]] \in Commands
    BY <2>1 DEF Commands
  <2>3. sq' \in Seq(Commands) /\ Len(sq') <= QCap
    BY <1>14, <1>a, <2>2, AppendFacts, CdQueueAssumption DEF ClientSend
  <2> QED BY <1>14, <1>a, <2>3 DEF ClientSend, CPc, serverVars, history
<1>c. ASSUME NEW p \in Pids, EndCall(p)
      PROVE  /\ cpc' \in [Pids -> CPc] /\ creq' \in [Pids -> Ops \cup {None}]
             /\ cres' \in [Pids -> SUBSET Data] /\ answer' \in [Pids -> Results \cup {None}]
  BY <1>c, <1>a DEF EndCall, CPc
<1>d. ASSUME NEW p \in Pids, NEW x \in Results, Returns(p, x)
      PROVE  got' \in [Pids -> Results \cup {None}]
  BY <1>d, <1>a DEF Returns
<1>15. ASSUME NEW p \in Pids, ClientSendFails(p) \/ ClientRecvFails(p)
       PROVE  TypeOK'
  <2>1. [response |-> "r_find_no_more", data |-> Absent, found |-> cres[p]] \in Results
    BY <1>a DEF Results, ResponseCodes, Data
  <2>2. got' \in [Pids -> Results \cup {None}]
    BY <1>15, <1>a, <1>d, <2>1 DEF ClientSendFails, ClientRecvFails
  <2> QED BY <1>15, <1>a, <1>c, <2>2 DEF ClientSendFails, ClientRecvFails, serverVars, queueVars
<1>16. ASSUME NEW p \in Pids, ClientRecv(p)
       PROVE  TypeOK'
  <2>1. PICK i \in 1 .. Len(cq) :
          /\ cq' = SubSeq(cq, 1, i - 1) \o SubSeq(cq, i + 1, Len(cq))
          /\ \/ /\ EndCall(p)
                /\ Returns(p, ResultOf(cq[i].msg, cres[p]))
             \/ /\ cres' = [cres EXCEPT ![p] = @ \cup {cq[i].msg.data}]
                /\ UNCHANGED <<cpc, creq, history>>
    BY <1>16 DEF ClientRecv, ResultOf
  <2>2. cq' \in Seq([msg_key : Pids, msg : Messages]) /\ Len(cq') <= QCap
    <3>1. cq \in Seq(Slots) /\ Len(cq) <= QCap
      BY <1>a DEF Slots
    <3>2. cq' \in Seq(Slots) /\ Len(cq) \in Nat /\ Len(cq') = Len(cq) - 1
      BY <2>1, <3>1, RemoveFacts, ZenonT(30)
    <3>3. Len(cq') <= QCap
      BY <3>1, <3>2, Bounds
    <3> QED BY <3>2, <3>3, Zenon DEF Slots
  <2>3. cq[i].msg \in Messages
    <3>1. cq \in Seq(Slots)
      BY <1>a DEF Slots
    <3>2. cq[i] \in Slots
      BY <2>1, <3>1
    <3> QED BY <3>2 DEF Slots
  <2>4. cq[i].msg.data \in Data /\ ResultOf(cq[i].msg, cres[p]) \in Results
    BY <1>a, <2>3 DEF Messages, Results, ResultOf
  <2>5. UNCHANGED <<serverVars, sqid, sq, cqid, csid, ccid>>
    BY <1>16 DEF ClientRecv
  <2>6. /\ cpc' \in [Pids -> CPc] /\ creq' \in [Pids -> Ops \cup {None}]
        /\ cres' \in [Pids -> SUBSET Data] /\ answer' \in [Pids -> Results \cup {None}]
        /\ got' \in [Pids -> Results \cup {None}]
    BY <1>a, <1>c, <1>d, <2>1, <2>4 DEF history
  <2> QED BY <1>a, <2>2, <2>5, <2>6 DEF serverVars
<1>17. ASSUME NEW p \in Pids, ClientQuit(p) \/ ClientDie(p)
       PROVE  TypeOK'
  <2>1. 0 \in 0 .. starts /\ {} \in SUBSET Data
    BY <1>b
  <2>2. PICK how \in {"gone", "dead"} : ClientEnd(p, how)
    BY <1>17 DEF ClientQuit, ClientDie
  <2>3. /\ cpc' \in [Pids -> CPc] /\ cres' \in [Pids -> SUBSET Data]
        /\ csid' \in [Pids -> 0 .. starts] /\ ccid' \in [Pids -> 0 .. starts]
    BY <1>a, <2>1, <2>2 DEF ClientEnd, CPc
  <2> QED BY <1>a, <2>2, <2>3 DEF ClientEnd, serverVars, queueVars, history
<1>18. CASE UNCHANGED vars
  BY <1>18, <1>a DEF vars, serverVars, queueVars, clientVars, history
<1> QED
  BY <1>1, <1>2, <1>3, <1>4, <1>5, <1>6, <1>8, <1>9, <1>10, <1>11, <1>12, <1>13, <1>14, <1>15,
     <1>16, <1>17, <1>18
  DEF Next, ServerStep, ClientStep, UserStep

LEMMA PlacesStep == QueueInv /\ [Next]_vars => ServerInv'
<1> SUFFICES ASSUME QueueInv, [Next]_vars
             PROVE  ServerInv'
  OBVIOUS
<1> USE DEF ServerInv, Serving
<1>a. ServerInv /\ starts \in Nat /\ None \notin Messages
  BY Bounds, CdQueueAssumption DEF QueueInv, TypeOK
<1>1. CASE ServerStart
  BY <1>1, <1>a DEF ServerStart, Down
<1>2. CASE \/ ServerGetRequests \/ ServerGetReplies \/ ServerLoop \/ ServerSpin
           \/ ServerRemoveRequests \/ ServerRemoveReplies
  BY <1>2, <1>a DEF ServerGetRequests, ServerGetReplies, ServerLoop, ServerSpin,
     ServerRemoveRequests, ServerRemoveReplies
<1>3. CASE ServerRead
  <2>1. cmd' # None
    <3>1. cmd' \in Commands
      BY <1>3, TailFacts DEF ServerRead, QueueInv, TypeOK
    <3>2. None \notin Commands
      BY CdQueueAssumption DEF Commands
    <3> QED BY <3>1, <3>2
  <2> QED BY <1>3, <1>a, <2>1 DEF ServerRead
<1>4. CASE ServerExec
  <2>1. cmd # None /\ cmd.req \in Requests
    BY <1>4, <1>a, CommandType DEF ServerExec, QueueInv, TypeOK
  <2>2. PICK o \in Outcomes(db, cmd.req) :
          IF IsFind(cmd.req)
          THEN spc' = "search" /\ UNCHANGED resp
          ELSE /\ resp' = [response |-> o.result.response, data |-> o.result.data]
               /\ spc' = "reply"
    BY <1>4 DEF ServerExec
  <2>3. [response |-> o.result.response, data |-> o.result.data] # None
    BY <1>a, <2>1, <2>2, OutcomesType, AnswerType DEF QueueInv, TypeOK
  <2> QED BY <1>4, <1>a, <2>1, <2>2, <2>3 DEF ServerExec
<1>5. CASE ServerSendMatch
  BY <1>5, <1>a DEF ServerSendMatch
<1>6. CASE ServerEndSearch
  <2>1. [response |-> "r_find_no_more", data |-> Absent] # None
    BY <1>a DEF Messages, ResponseCodes, Data
  <2> QED BY <1>6, <1>a, <2>1 DEF ServerEndSearch
<1>7. CASE ServerReply \/ ServerCrash
  BY <1>7, <1>a DEF ServerReply, ServerCrash, Finish, Down
<1>8. CASE Signal
  <2>1. CASE InterruptSearch
    <3>1. PICK c \in Unsent : resp' = MatchOf(c)
      BY <2>1 DEF InterruptSearch
    <3>2. /\ IsFind(cmd.req) /\ cmd.req \in Requests
      BY <2>1, <1>a, CommandType DEF InterruptSearch, QueueInv, TypeOK
    <3>3. resp' \in Messages
      BY <3>1, <3>2, MatchType DEF QueueInv
    <3> QED BY <1>8, <1>a, <2>1, <3>3 DEF Signal, InterruptSearch
  <2>2. CASE InterruptRead \/ InterruptReply \/ UNCHANGED <<spc, cmd, resp, seen>>
    BY <1>8, <1>a, <2>2 DEF Signal, InterruptRead, InterruptReply, Finish
  <2> QED BY <1>8, <2>1, <2>2 DEF Signal
<1>9. CASE UNCHANGED serverVars
  BY <1>9, <1>a DEF serverVars
<1> QED
  BY <1>1, <1>2, <1>3, <1>4, <1>5, <1>6, <1>7, <1>8, <1>9
  DEF Next, ServerStep, ClientStep, UserStep, vars, ClientStart, ClientStarted, ClientCall,
      ClientSend, ClientSendFails, ClientRecv, ClientRecvFails, ClientQuit, ClientDie, ClientEnd

LEMMA QueuesStep == QueueInv /\ [Next]_vars => QueuesFollowServer'
<1> SUFFICES ASSUME QueueInv, [Next]_vars
             PROVE  QueuesFollowServer'
  OBVIOUS
<1> USE DEF QueuesFollowServer, Serving
<1>a. /\ QueuesFollowServer
      /\ starts \in Nat /\ sqid \in 0 .. starts /\ cqid \in 0 .. starts
      /\ csid \in [Pids -> 0 .. starts] /\ (spc # "off" => starts # 0)
  BY Bounds DEF QueueInv, TypeOK, ServerInv
<1>1. CASE ServerStart
  <2>1. /\ spc' = "requests" /\ UNCHANGED <<sqid, sq, cqid, cq, csid>> /\ starts' = starts + 1
    BY <1>1 DEF ServerStart, queueVars, clientVars
  <2> QED BY <1>a, <2>1
<1>2. CASE ServerGetRequests
  BY <1>2, <1>a DEF ServerGetRequests
<1>3. CASE ServerGetReplies
  BY <1>3, <1>a DEF ServerGetReplies
<1>4. CASE ServerLoop \/ ServerSpin \/ ServerEndSearch \/ ServerExec
  BY <1>4, <1>a DEF ServerLoop, ServerSpin, ServerEndSearch, ServerExec, queueVars, clientVars
<1>5. CASE ServerRead
  BY <1>5, <1>a DEF ServerRead
<1>6. CASE ServerSendMatch \/ ServerReply
  BY <1>6, <1>a DEF ServerSendMatch, ServerReply
<1>7. CASE ServerRemoveRequests \/ ServerRemoveReplies
  BY <1>7, <1>a DEF ServerRemoveRequests, ServerRemoveReplies
<1>8. CASE ServerCrash \/ Signal
  BY <1>8, <1>a DEF ServerCrash, Signal, InterruptRead, InterruptSearch, InterruptReply,
     queueVars, clientVars
<1>9. ASSUME UNCHANGED <<spc, starts, sqid, cqid>>, sqid = 0 => sq' = <<>>, cqid = 0 => cq' = <<>>,
             csid' = csid \/ \E p \in Pids, x \in {0, sqid} : csid' = [csid EXCEPT ![p] = x]
      PROVE  QueuesFollowServer'
  BY <1>9, <1>a
<1>10. ASSUME NEW p \in Pids, ClientStart(p)
       PROVE  QueuesFollowServer'
  BY <1>10, <1>9, <1>a DEF ClientStart, serverVars, queueVars
<1>11. ASSUME NEW p \in Pids,
              ClientStarted(p) \/ ClientCall(p) \/ ClientSendFails(p) \/ ClientRecvFails(p)
       PROVE  QueuesFollowServer'
  BY <1>11, <1>9, <1>a DEF ClientStarted, ClientCall, ClientSendFails, ClientRecvFails,
     serverVars, queueVars
<1>12. ASSUME NEW p \in Pids, ClientSend(p)
       PROVE  QueuesFollowServer'
  <2>1. sqid # 0
    BY <1>12 DEF ClientSend, QueueInv, ClientHasQueues, Waiting
  <2> QED BY <1>12, <2>1, <1>9, <1>a DEF ClientSend, serverVars
<1>13. ASSUME NEW p \in Pids, ClientRecv(p)
       PROVE  QueuesFollowServer'
  <2>1. cqid # 0
    BY <1>13 DEF ClientRecv, QueueInv, ClientHasQueues, Waiting
  <2> QED BY <1>13, <2>1, <1>9, <1>a DEF ClientRecv, serverVars
<1>14. ASSUME NEW p \in Pids, ClientQuit(p) \/ ClientDie(p)
       PROVE  QueuesFollowServer'
  BY <1>14, <1>9, <1>a DEF ClientQuit, ClientDie, ClientEnd, serverVars, queueVars
<1>15. CASE UNCHANGED vars
  BY <1>15, <1>9, <1>a DEF vars, serverVars, queueVars, clientVars
<1> QED
  BY <1>1, <1>2, <1>3, <1>4, <1>5, <1>6, <1>7, <1>8, <1>10, <1>11, <1>12, <1>13, <1>14, <1>15
  DEF Next, ServerStep, ClientStep, UserStep

LEMMA ClientQueuesStep ==
  ASSUME QueueInv, [Next]_vars, NEW q \in Pids
  PROVE  ClientHasQueues(q)'
<1> USE DEF ClientHasQueues, Waiting
<1>a. /\ TypeOK /\ QueuesFollowServer /\ ClientHasQueues(q)
      /\ starts \in Nat /\ sqid \in 0 .. starts /\ (spc # "off" => starts # 0)
  BY Bounds DEF QueueInv, TypeOK, ServerInv
<1>1. ASSUME UNCHANGED <<csid, ccid, cpc, creq>>,
             sqid' = sqid \/ sqid' = 0 \/ (sqid' # sqid /\ spc = "requests" /\ sqid' = starts),
             cqid' = cqid \/ sqid = 0 \/ cqid = 0
      PROVE  ClientHasQueues(q)'
  <2>1. csid[q] # 0 /\ csid'[q] = sqid' => csid[q] = sqid
    BY <1>1, <1>a DEF QueuesFollowServer
  <2> QED BY <1>1, <1>a, <2>1
<1>2. ASSUME UNCHANGED <<sqid, cqid>>, NEW p \in Pids, q # p,
             UNCHANGED <<csid[q], ccid[q], cpc[q], creq[q]>>
      PROVE  ClientHasQueues(q)'
  BY <1>2, <1>a
<1>3. CASE \/ ServerStart \/ ServerLoop \/ ServerRead \/ ServerExec \/ ServerSendMatch
           \/ ServerEndSearch \/ ServerSpin \/ ServerReply \/ ServerCrash \/ Signal
  BY <1>3, <1>1 DEF ServerStart, ServerLoop, ServerRead, ServerExec, ServerSendMatch,
     ServerEndSearch, ServerSpin, ServerReply, ServerCrash, Signal, queueVars, clientVars
<1>4. CASE ServerGetRequests \/ ServerGetReplies
  BY <1>4, <1>1 DEF ServerGetRequests, ServerGetReplies, clientVars
<1>5. CASE ServerRemoveRequests \/ ServerRemoveReplies
  BY <1>5, <1>1, <1>a DEF ServerRemoveRequests, ServerRemoveReplies, clientVars,
     QueuesFollowServer
<1>6. ASSUME NEW p \in Pids, ClientStart(p)
      PROVE  ClientHasQueues(q)'
  <2>1. CASE q = p
    <3>1. cpc'[q] \in {"gone", "open"} /\ csid'[q] = sqid /\ (cpc'[q] = "open" => sqid # 0)
      BY <1>6, <2>1, <1>a DEF ClientStart, TypeOK
    <3> QED BY <1>6, <3>1
  <2>2. CASE q # p
    BY <1>6, <2>2, <1>2, <1>a DEF ClientStart, TypeOK, queueVars
  <2> QED BY <2>1, <2>2
<1>7. ASSUME NEW p \in Pids, ClientStarted(p)
      PROVE  ClientHasQueues(q)'
  <2>1. CASE q = p
    <3>1. /\ cpc[q] = "open" /\ cpc'[q] \in {"gone", "ready"} /\ ccid'[q] = cqid
          /\ cpc'[q] = "ready" => cqid # 0
          /\ UNCHANGED <<csid, sqid, cqid>>
      BY <1>7, <2>1, <1>a DEF ClientStarted, TypeOK, queueVars
    <3> QED BY <3>1, <1>a
  <2>2. CASE q # p
    BY <1>7, <2>2, <1>2, <1>a DEF ClientStarted, TypeOK, queueVars
  <2> QED BY <2>1, <2>2
<1>8. ASSUME NEW p \in Pids, ClientCall(p)
      PROVE  ClientHasQueues(q)'
  <2>1. CASE q = p
    <3>1. /\ cpc[q] = "ready" /\ cpc'[q] = "send" /\ creq'[q] \in Ops
          /\ UNCHANGED <<csid, ccid, sqid, cqid>>
      BY <1>8, <2>1, <1>a DEF ClientCall, TypeOK, queueVars
    <3> QED BY <3>1, <1>a
  <2>2. CASE q # p
    BY <1>8, <2>2, <1>2, <1>a DEF ClientCall, TypeOK, queueVars
  <2> QED BY <2>1, <2>2
<1>9. ASSUME NEW p \in Pids,
             ClientSend(p) \/ ClientSendFails(p) \/ ClientRecv(p) \/ ClientRecvFails(p)
      PROVE  ClientHasQueues(q)'
  <2>1. CASE q = p
    <3>1. /\ cpc[q] \in Waiting
          /\ \/ cpc'[q] = "ready"
             \/ cpc'[q] \in Waiting /\ creq' = creq
          /\ UNCHANGED <<csid, ccid, sqid, cqid>>
      BY <1>9, <2>1, <1>a DEF ClientSend, ClientSendFails, ClientRecv, ClientRecvFails, EndCall,
         TypeOK, queueVars
    <3> QED BY <3>1, <1>a
  <2>2. CASE q # p
    BY <1>9, <2>2, <1>2, <1>a DEF ClientSend, ClientSendFails, ClientRecv, ClientRecvFails,
       EndCall, TypeOK, queueVars
  <2> QED BY <2>1, <2>2
<1>10. ASSUME NEW p \in Pids, ClientQuit(p) \/ ClientDie(p)
       PROVE  ClientHasQueues(q)'
  <2>1. CASE q = p
    <3>1. cpc'[q] \in {"gone", "dead"}
      BY <1>10, <2>1, <1>a DEF ClientQuit, ClientDie, ClientEnd, TypeOK
    <3> QED BY <3>1
  <2>2. CASE q # p
    BY <1>10, <2>2, <1>2, <1>a DEF ClientQuit, ClientDie, ClientEnd, TypeOK, queueVars
  <2> QED BY <2>1, <2>2
<1>11. CASE UNCHANGED vars
  BY <1>11, <1>1 DEF vars, queueVars, clientVars
<1> QED
  BY <1>3, <1>4, <1>5, <1>6, <1>7, <1>8, <1>9, <1>10, <1>11
  DEF Next, ServerStep, ClientStep, UserStep

LEMMA QueueStep == QueueInv /\ [Next]_vars => QueueInv'
<1> SUFFICES ASSUME QueueInv, [Next]_vars
             PROVE  QueueInv'
  OBVIOUS
<1>1. TypeOK' /\ ServerInv' /\ QueuesFollowServer'
  BY TypeStep, PlacesStep, QueuesStep
<1>2. \A q \in Pids : ClientHasQueues(q)'
  BY ClientQueuesStep
<1>3. EndRemovesQueues'
  BY <1>1 DEF EndRemovesQueues, QueuesFollowServer
<1> QED BY <1>1, <1>2, <1>3 DEF QueueInv

(***************************************************************************)
(* One request and one answer per call.                                    *)
(***************************************************************************)

\* The requests of different clients are different requests.
RequestsApart ==
  /\ \A i, j \in 1 .. Len(sq) : sq[i].client_pid = sq[j].client_pid => i = j
  /\ \A i \in 1 .. Len(sq) : cmd # None => cmd.client_pid # sq[i].client_pid

\* What CallInv says of one client.
AnswersOf(p) ==
  /\ HasRequest(p) \/ MessagesFor(p) # {} => cpc[p] \in {"recv", "dead"}
  /\ \A i \in MessagesFor(p) :
       IsLast(creq[p], cq[i].msg) =>
         ~HasRequest(p) /\ \A j \in MessagesFor(p) : j <= i

LEMMA CallParts ==
  CallInv <=> RequestsApart /\ \A p \in Pids : AnswersOf(p) /\ CallOf(p)
BY DEF CallInv, OneAnswerPerCall, RequestsApart, AnswersOf

LEMMA CallPartsNext ==
  CallInv' <=> RequestsApart' /\ \A p \in Pids : AnswersOf(p)' /\ CallOf(p)'
BY DEF CallInv, OneAnswerPerCall, RequestsApart, AnswersOf

LEMMA CallInit == Init => CallInv
<1> SUFFICES ASSUME Init
             PROVE  CallInv
  OBVIOUS
<1>1. cmd = None /\ Len(sq) = 0 /\ Len(cq) = 0
  BY DEF Init
<1>2. \A p \in Pids : ~HasRequest(p) /\ MessagesFor(p) = {}
  BY <1>1 DEF HasRequest, MessagesFor
<1>3. RequestsApart
  BY <1>1 DEF RequestsApart
<1>4. \A p \in Pids : AnswersOf(p) /\ CallOf(p)
  BY <1>1, <1>2 DEF AnswersOf, CallOf
<1> QED BY <1>3, <1>4, CallParts

LEMMA ApartStep ==
  ASSUME QueueInv, CallInv, [Next]_vars
  PROVE  RequestsApart'
<1>a. /\ RequestsApart /\ sq \in Seq(Commands) /\ Len(sq) \in Nat
      /\ cmd # None <=> spc \in Serving
  BY CallParts DEF QueueInv, TypeOK, ServerInv
<1>1. ASSUME cmd' = cmd \/ cmd' = None, sq' = sq \/ sq' = <<>>
      PROVE  RequestsApart'
  BY <1>1, <1>a DEF RequestsApart
<1>2. CASE ServerRead
  <2>1. /\ cmd = None /\ cmd' = sq[1] /\ sq # <<>> /\ sq' = Tail(sq)
    BY <1>2, <1>a, TailFacts DEF ServerRead, Serving
  <2>2. /\ 1 \in 1 .. Len(sq)
        /\ \A i \in 1 .. Len(sq') : sq'[i] = sq[i + 1] /\ i + 1 \in 1 .. Len(sq) /\ i + 1 # 1
    BY <2>1, <1>a, TailFacts
  <2>3. \A i, j \in 1 .. Len(sq') : i + 1 = j + 1 => i = j
    BY <1>2, <2>1, <1>a, TailFacts
  <2> QED BY <2>1, <2>2, <2>3, <1>a DEF RequestsApart
<1>3. ASSUME NEW p \in Pids, ClientSend(p)
      PROVE  RequestsApart'
  <2> DEFINE m == [client_pid |-> p, req |-> creq[p]]
  <2>1. /\ sq' = Append(sq, m) /\ cmd' = cmd /\ cpc[p] = "send"
    BY <1>3 DEF ClientSend, serverVars
  <2>2. m \in Commands
    BY <2>1 DEF Commands, QueueInv, ClientHasQueues, Waiting
  <2>3. /\ Len(sq') = Len(sq) + 1 /\ sq'[Len(sq) + 1] = m
        /\ \A i \in 1 .. Len(sq) : sq'[i] = sq[i]
    BY <2>1, <2>2, <1>a, AppendFacts
  <2>4. ~HasRequest(p)
    BY <2>1, CallParts DEF AnswersOf
  <2> QED BY <2>1, <2>3, <2>4, <1>a DEF RequestsApart, HasRequest
<1>4. CASE \/ ServerStart \/ ServerGetRequests \/ ServerGetReplies \/ ServerLoop \/ ServerExec
           \/ ServerSendMatch \/ ServerEndSearch \/ ServerSpin \/ ServerReply
           \/ ServerRemoveRequests \/ ServerRemoveReplies \/ ServerCrash
  BY <1>4, <1>1 DEF ServerStart, ServerGetRequests, ServerGetReplies, ServerLoop, ServerExec,
     ServerSendMatch, ServerEndSearch, ServerSpin, ServerReply, ServerRemoveRequests,
     ServerRemoveReplies, ServerCrash, Finish, queueVars
<1>5. CASE Signal
  BY <1>5, <1>1 DEF Signal, InterruptRead, InterruptSearch, InterruptReply, Finish, queueVars
<1>6. ASSUME NEW p \in Pids,
             \/ ClientStart(p) \/ ClientStarted(p) \/ ClientCall(p) \/ ClientSendFails(p)
             \/ ClientRecv(p) \/ ClientRecvFails(p) \/ ClientQuit(p) \/ ClientDie(p)
      PROVE  RequestsApart'
  BY <1>6, <1>1 DEF ClientStart, ClientStarted, ClientCall, ClientSendFails, ClientRecv,
     ClientRecvFails, ClientQuit, ClientDie, ClientEnd, serverVars, queueVars
<1>7. CASE UNCHANGED vars
  BY <1>7, <1>1 DEF vars, serverVars, queueVars
<1> QED
  BY <1>2, <1>3, <1>4, <1>5, <1>6, <1>7 DEF Next, ServerStep, ClientStep, UserStep

\* A response is put behind the others: it is the last one only when the
\* request is over.
LEMMA SentStep ==
  ASSUME QueueInv, CallInv, NEW q \in Pids, NEW m \in Messages, cmd # None, Send(m),
         UNCHANGED <<cqid, ccid, cpc, creq, sq>>,
         cmd' = cmd \/ cmd' = None,
         cmd' = cmd => ~IsLast(cmd.req, m)
  PROVE  AnswersOf(q)' /\ CallOf(q)'
<1> DEFINE p == cmd.client_pid
           x == [msg_key |-> p, msg |-> m]
           n == Len(cq)
<1>a. /\ AnswersOf(q) /\ CallOf(q) /\ RequestsApart /\ p \in Pids
  BY CallParts, CommandType DEF QueueInv, TypeOK
<1>1. cq' = Append(cq, x) /\ x \in Slots /\ cq \in Seq(Slots)
  BY <1>a DEF Send, Slots, QueueInv, TypeOK
<1>2. /\ n \in Nat /\ Len(cq') = n + 1 /\ cq'[n + 1] = x
      /\ \A i \in 1 .. n : cq'[i] = cq[i]
  BY <1>1, AppendFacts
<1>3. HasRequest(q)' => HasRequest(q)
  BY DEF HasRequest
<1>4. CASE q # p
  <2>1. \A i : i \in MessagesFor(q)' <=> i \in MessagesFor(q)
    BY <1>2, <1>4 DEF MessagesFor
  <2>2. \A i \in MessagesFor(q) : cq'[i] = cq[i]
    BY <1>2 DEF MessagesFor
  <2>3. MessagesFor(q)' = MessagesFor(q)
    BY <2>1
  <2> QED BY <2>2, <2>3, <1>3, <1>a DEF AnswersOf, CallOf
<1>5. CASE q = p
  <2>1. /\ HasRequest(q) /\ (cmd' = cmd => HasRequest(q)')
        /\ cmd' = None => ~HasRequest(q)'
        /\ cpc[q] \in {"recv", "dead"} /\ creq[q] = cmd.req
        /\ cpc[q] = "recv" => ccid[q] = cqid
    BY <1>a, <1>5 DEF HasRequest, AnswersOf, CallOf, RequestsApart
  <2>2. \A i \in MessagesFor(q)' : i \in 1 .. n + 1 /\ (i = n + 1 \/ i \in MessagesFor(q))
    BY <1>2 DEF MessagesFor
  <2>3. \A i \in MessagesFor(q)' : IsLast(creq[q], cq'[i].msg) => i = n + 1
    <3>1. \A i \in MessagesFor(q) : ~IsLast(creq[q], cq[i].msg) /\ cq'[i] = cq[i]
      BY <2>1, <1>2, <1>a DEF AnswersOf, MessagesFor
    <3> QED BY <2>2, <3>1
  <2>4. cmd' = cmd => \A i \in MessagesFor(q)' : ~IsLast(creq[q], cq'[i].msg)
    BY <2>1, <2>3, <1>2
  <2>5. AnswersOf(q)'
    <3>1. ASSUME NEW i \in MessagesFor(q)', IsLast(creq[q], cq'[i].msg)
          PROVE  ~HasRequest(q)' /\ \A j \in MessagesFor(q)' : j <= i
      <4>1. ~HasRequest(q)'
        BY <3>1, <2>1, <2>4
      <4>2. i = n + 1 /\ \A j \in MessagesFor(q)' : j \in 1 .. n + 1
        BY <3>1, <2>2, <2>3
      <4> QED BY <1>2, <4>1, <4>2
    <3> QED BY <3>1, <2>1 DEF AnswersOf
  <2>6. CallOf(q)'
    BY <2>1, <1>a DEF CallOf
  <2> QED BY <2>5, <2>6
<1> QED BY <1>4, <1>5

\* A response is taken out: the others stay in order.
LEMMA TakenStep ==
  ASSUME QueueInv, CallInv, NEW q \in Pids, NEW p \in Pids, ClientRecv(p)
  PROVE  AnswersOf(q)' /\ CallOf(q)'
<1>a. AnswersOf(q) /\ CallOf(q) /\ AnswersOf(p) /\ CallOf(p) /\ TypeOK
  BY CallParts DEF QueueInv
<1>1. PICK i \in 1 .. Len(cq) :
        /\ IsFirstFor(p, i)
        /\ cq' = SubSeq(cq, 1, i - 1) \o SubSeq(cq, i + 1, Len(cq))
        /\ \/ EndCall(p) /\ IsLast(creq[p], cq[i].msg)
           \/ UNCHANGED <<cpc, creq>>
  BY DEF ClientRecv
<1>2. /\ UNCHANGED <<cmd, sq, cqid, ccid>> /\ cpc[p] = "recv" /\ ccid[p] = cqid
  BY DEF ClientRecv, serverVars
<1>3. HasRequest(q)' <=> HasRequest(q)
  BY <1>2 DEF HasRequest
<1>4. /\ Len(cq) \in Nat /\ Len(cq') = Len(cq) - 1
      /\ \A j \in 1 .. Len(cq') : cq'[j] = IF j < i THEN cq[j] ELSE cq[j + 1]
  <2>1. cq \in Seq(Slots)
    BY <1>a DEF TypeOK, Slots
  <2>2. /\ Len(cq) \in Nat \ {0} /\ Len(cq') = Len(cq) - 1
        /\ \A j \in 1 .. Len(cq') : cq'[j] = IF j < i THEN cq[j] ELSE cq[j + 1]
    BY <1>1, <2>1, RemoveFacts, ZenonT(30)
  <2> QED BY <2>2
<1> DEFINE old(j) == IF j < i THEN j ELSE j + 1
<1>5. \A j \in MessagesFor(q)' : old(j) \in MessagesFor(q) /\ cq'[j] = cq[old(j)] /\ old(j) # i
  <2>1. SUFFICES ASSUME NEW j \in 1 .. Len(cq'), cq'[j].msg_key = q
                 PROVE  /\ old(j) \in 1 .. Len(cq) /\ cq[old(j)].msg_key = q
                        /\ cq'[j] = cq[old(j)] /\ old(j) # i
    BY DEF MessagesFor
  <2>2. CASE j < i
    BY <1>4, <2>1, <2>2
  <2>3. CASE ~(j < i)
    <3>1. j + 1 \in 1 .. Len(cq) /\ j + 1 # i /\ old(j) = j + 1
      BY <1>4, <2>1, <2>3
    <3> QED BY <1>4, <2>1, <2>3, <3>1
  <2> QED BY <2>2, <2>3
<1>6. \A j, k \in MessagesFor(q)' : old(k) <= old(j) => k <= j
  <2>1. SUFFICES ASSUME NEW j \in 1 .. Len(cq'), NEW k \in 1 .. Len(cq'), old(k) <= old(j)
                 PROVE  k <= j
    BY DEF MessagesFor
  <2> QED BY <1>4, <2>1
<1> HIDE DEF old
<1>7. CASE UNCHANGED <<cpc[q], creq[q]>>
  <2>1. MessagesFor(q)' # {} => MessagesFor(q) # {}
    BY <1>5
  <2> QED BY <1>2, <1>3, <1>5, <1>6, <1>7, <2>1, <1>a DEF AnswersOf, CallOf
<1>8. CASE q = p /\ EndCall(p) /\ IsLast(creq[p], cq[i].msg)
  <2>1. i \in MessagesFor(p) /\ \A j \in MessagesFor(p) : j \in 1 .. Len(cq)
    BY <1>1 DEF IsFirstFor, MessagesFor
  <2>2. ~HasRequest(p) /\ \A j \in MessagesFor(p) : j <= i
    BY <1>8, <2>1, <1>a DEF AnswersOf
  <2>3. \A j \in MessagesFor(p) : ~(j < i)
    <3>1. SUFFICES ASSUME NEW j \in 1 .. Len(cq), cq[j].msg_key = p, j < i
                   PROVE  FALSE
      BY DEF MessagesFor
    <3>2. j \in 1 .. i - 1
      BY <1>4, <3>1
    <3> QED BY <1>1, <3>1, <3>2 DEF IsFirstFor
  <2>4. \A j \in MessagesFor(p) : j = i
    <3>1. SUFFICES ASSUME NEW j \in MessagesFor(p)
                   PROVE  j = i
      OBVIOUS
    <3>2. j \in 1 .. Len(cq) /\ j <= i /\ ~(j < i)
      BY <2>1, <2>2, <2>3
    <3> QED BY <1>4, <3>2
  <2>5. MessagesFor(q)' = {}
    BY <1>5, <1>8, <2>4
  <2>6. ~HasRequest(q)'
    BY <1>3, <1>8, <2>2
  <2>7. (cmd # None /\ cmd.client_pid = q)' => FALSE
    BY <2>6 DEF HasRequest
  <2>8. \A j \in 1 .. Len(sq') : sq'[j].client_pid # q
    BY <2>6 DEF HasRequest
  <2> QED BY <2>5, <2>6, <2>7, <2>8 DEF AnswersOf, CallOf
<1> QED BY <1>1, <1>7, <1>8, <1>a DEF EndCall, TypeOK

LEMMA AnswersStep ==
  ASSUME ~MayReuse, QueueInv, CallInv, [Next]_vars, NEW q \in Pids
  PROVE  AnswersOf(q)' /\ CallOf(q)'
<1>a. /\ AnswersOf(q) /\ CallOf(q) /\ ClientHasQueues(q) /\ TypeOK /\ ServerInv
      /\ QueuesFollowServer /\ RequestsApart
      /\ sq \in Seq(Commands) /\ Len(sq) \in Nat
      /\ cmd # None <=> spc \in Serving
  BY CallParts DEF QueueInv, TypeOK, ServerInv
<1>1. ASSUME cmd' = cmd \/ cmd' = None, sq' = sq \/ sq' = <<>>, cq' = cq, cqid' = cqid,
             cpc'[q] = cpc[q], creq'[q] = creq[q], ccid'[q] = ccid[q]
      PROVE  AnswersOf(q)' /\ CallOf(q)'
  <2>1. HasRequest(q)' => HasRequest(q)
    BY <1>1 DEF HasRequest
  <2>2. MessagesFor(q)' = MessagesFor(q)
    BY <1>1 DEF MessagesFor
  <2>3. AnswersOf(q)'
    BY <1>1, <1>a, <2>1, <2>2 DEF AnswersOf
  <2>4. CallOf(q)'
    BY <1>1, <1>a, <2>1, <2>2 DEF CallOf
  <2> QED BY <2>3, <2>4
<1>2. ASSUME ~HasRequest(q), MessagesFor(q) = {}, UNCHANGED <<cmd, sq, cq>>
      PROVE  AnswersOf(q)' /\ CallOf(q)'
  <2>1. ~HasRequest(q)' /\ MessagesFor(q)' = {}
    BY <1>2 DEF HasRequest, MessagesFor
  <2>2. ~(cmd # None /\ cmd.client_pid = q)' /\ \A i \in 1 .. Len(sq') : sq'[i].client_pid # q
    BY <2>1 DEF HasRequest
  <2> QED BY <2>1, <2>2 DEF AnswersOf, CallOf
<1>3. CASE \/ ServerStart \/ ServerGetRequests \/ ServerLoop \/ ServerExec
           \/ ServerEndSearch \/ ServerSpin \/ ServerRemoveRequests \/ ServerCrash
  BY <1>3, <1>1 DEF ServerStart, ServerGetRequests, ServerLoop, ServerExec,
     ServerEndSearch, ServerSpin, ServerRemoveRequests, ServerCrash, Finish, queueVars,
     clientVars
<1>4. CASE Signal
  BY <1>4, <1>1 DEF Signal, InterruptRead, InterruptSearch, InterruptReply, Finish, queueVars,
     clientVars
<1>5. CASE ServerRead
  <2>1. /\ cmd = None /\ cmd' = sq[1] /\ sq # <<>> /\ sq' = Tail(sq)
        /\ UNCHANGED <<cpc, creq, ccid, cqid, cq>>
    BY <1>5, <1>a, TailFacts DEF ServerRead, Serving, clientVars
  <2>2. /\ 1 \in 1 .. Len(sq)
        /\ \A i \in 1 .. Len(sq') : sq'[i] = sq[i + 1] /\ i + 1 \in 1 .. Len(sq)
    BY <2>1, <1>a, TailFacts
  <2>3. HasRequest(q)' => HasRequest(q)
    BY <2>1, <2>2 DEF HasRequest
  <2>4. MessagesFor(q)' = MessagesFor(q)
    BY <2>1 DEF MessagesFor
  <2>5. AnswersOf(q)'
    BY <2>1, <2>3, <2>4, <1>a DEF AnswersOf
  <2>6. CallOf(q)'
    BY <2>1, <2>2, <2>3, <2>4, <1>a DEF CallOf
  <2> QED BY <2>5, <2>6
<1>6. CASE ServerSendMatch
  <2>1. PICK c \in Unsent : Send(MatchOf(c))
    BY <1>6 DEF ServerSendMatch
  <2>2. /\ cmd # None /\ IsFind(cmd.req) /\ cmd.req \in Requests
        /\ UNCHANGED <<cqid, ccid, cpc, creq, sq, cmd>>
    BY <1>6, <1>a, CommandType DEF ServerSendMatch, ServerInv, TypeOK, Serving, clientVars
  <2>3. MatchOf(c) \in Messages /\ ~IsLast(cmd.req, MatchOf(c))
    BY <2>2, <1>a, MatchType DEF IsLast, MatchOf
  <2> QED BY <2>1, <2>2, <2>3, SentStep
<1>7. CASE ServerReply
  <2>1. /\ cmd # None /\ resp \in Messages /\ Send(resp) /\ cmd' = None
        /\ UNCHANGED <<cqid, ccid, cpc, creq, sq>>
    BY <1>7, <1>a DEF ServerReply, ServerInv, TypeOK, Serving, Finish, clientVars
  <2> QED BY <2>1, SentStep
<1>8. CASE ServerGetReplies
  <2>1. /\ UNCHANGED <<cmd, sq, cq, cpc, creq, ccid>>
        /\ cqid' = cqid \/ cqid = 0
    BY <1>8 DEF ServerGetReplies, clientVars
  <2>2. (HasRequest(q)' <=> HasRequest(q)) /\ MessagesFor(q)' = MessagesFor(q)
    BY <2>1 DEF HasRequest, MessagesFor
  <2>3. AnswersOf(q)'
    BY <2>1, <2>2, <1>a DEF AnswersOf
  <2>4. cpc[q] = "recv" => ccid[q] # 0
    BY <1>a DEF ClientHasQueues, Waiting
  <2>5. CallOf(q)'
    BY <2>1, <2>2, <2>4, <1>a DEF CallOf
  <2> QED BY <2>3, <2>5
<1>9. CASE ServerRemoveReplies
  <2>1. cmd' = None /\ sq' = <<>> /\ cq' = <<>>
    BY <1>9, <1>a DEF ServerRemoveReplies, QueuesFollowServer, Serving
  <2>2. ~HasRequest(q)' /\ MessagesFor(q)' = {}
    BY <2>1 DEF HasRequest, MessagesFor
  <2>3. \A i \in 1 .. Len(sq') : sq'[i].client_pid # q
    BY <2>1
  <2> QED BY <2>1, <2>2, <2>3 DEF AnswersOf, CallOf
<1>10. ASSUME NEW p \in Pids, ClientStart(p) \/ ClientCall(p) \/ ClientQuit(p)
       PROVE  AnswersOf(q)' /\ CallOf(q)'
  <2>1. CASE q # p
    BY <1>10, <2>1, <1>1, <1>a DEF ClientStart, ClientCall, ClientQuit, ClientEnd, TypeOK,
       serverVars, queueVars
  <2>2. CASE q = p
    <3>1. cpc[q] \in {"off", "ready"}
      BY <1>10, <2>2 DEF ClientStart, ClientCall, ClientQuit
    <3>2. ~HasRequest(q) /\ MessagesFor(q) = {}
      BY <3>1, <1>a DEF AnswersOf
    <3> QED BY <1>10, <3>2, <1>2 DEF ClientStart, ClientCall, ClientQuit, ClientEnd, serverVars,
        queueVars
  <2> QED BY <2>1, <2>2
<1>11. ASSUME NEW p \in Pids, ClientStarted(p) \/ ClientSendFails(p) \/ ClientRecvFails(p)
       PROVE  AnswersOf(q)' /\ CallOf(q)'
  <2>1. CASE q # p
    BY <1>11, <2>1, <1>1, <1>a DEF ClientStarted, ClientSendFails, ClientRecvFails, EndCall,
       TypeOK, serverVars, queueVars
  <2>2. CASE q = p
    <3>1. cpc[q] \in {"open", "send"} \/ (cpc[q] = "recv" /\ ccid[q] # cqid)
      BY <1>11, <2>2 DEF ClientStarted, ClientSendFails, ClientRecvFails
    <3>2. ~HasRequest(q) /\ MessagesFor(q) = {}
      BY <3>1, <1>a DEF AnswersOf, CallOf
    <3> QED BY <1>11, <3>2, <1>2 DEF ClientStarted, ClientSendFails, ClientRecvFails,
        serverVars, queueVars
  <2> QED BY <2>1, <2>2
<1>12. ASSUME NEW p \in Pids, ClientSend(p)
       PROVE  AnswersOf(q)' /\ CallOf(q)'
  <2> DEFINE m == [client_pid |-> p, req |-> creq[p]]
  <2>1. /\ sq' = Append(sq, m) /\ UNCHANGED <<cmd, creq, ccid, cqid, cq>>
        /\ cpc[p] = "send" /\ csid[p] = sqid /\ cpc' = [cpc EXCEPT ![p] = "recv"]
    BY <1>12 DEF ClientSend, serverVars
  <2>2. m \in Commands
    BY <2>1 DEF Commands, QueueInv, ClientHasQueues, Waiting
  <2>3. /\ Len(sq') = Len(sq) + 1 /\ sq'[Len(sq) + 1] = m
        /\ \A i \in 1 .. Len(sq) : sq'[i] = sq[i]
    BY <2>1, <2>2, <1>a, AppendFacts
  <2>4. MessagesFor(q)' = MessagesFor(q)
    BY <2>1 DEF MessagesFor
  <2>5. CASE q # p
    <3>1. HasRequest(q)' <=> HasRequest(q)
      BY <2>1, <2>3, <2>5, <1>a DEF HasRequest
    <3>2. cpc'[q] = cpc[q]
      BY <2>1, <2>5, <1>a DEF TypeOK
    <3>3. AnswersOf(q)'
      BY <2>1, <2>4, <3>1, <3>2, <1>a DEF AnswersOf
    <3>4. CallOf(q)'
      BY <2>1, <2>3, <2>4, <2>5, <3>1, <3>2, <1>a DEF CallOf
    <3> QED BY <3>3, <3>4
  <2>6. CASE q = p
    <3>1. ~HasRequest(q) /\ MessagesFor(q) = {} /\ ccid[q] = cqid
      BY <2>1, <2>6, <1>a DEF AnswersOf, ClientHasQueues, Waiting
    <3>2. cpc'[q] = "recv"
      BY <2>1, <2>6, <1>a DEF TypeOK
    <3>3. AnswersOf(q)'
      BY <2>4, <3>1, <3>2 DEF AnswersOf
    <3>4. CallOf(q)'
      BY <2>1, <2>3, <2>4, <2>6, <3>1, <1>a DEF CallOf, HasRequest
    <3> QED BY <3>3, <3>4
  <2> QED BY <2>5, <2>6
<1>13. ASSUME NEW p \in Pids, ClientRecv(p)
       PROVE  AnswersOf(q)' /\ CallOf(q)'
  BY <1>13, TakenStep
<1>14. ASSUME NEW p \in Pids, ClientDie(p)
       PROVE  AnswersOf(q)' /\ CallOf(q)'
  <2>1. UNCHANGED <<cmd, sq, cq, cqid, creq>> /\ cpc' = [cpc EXCEPT ![p] = "dead"]
        /\ ccid' = [ccid EXCEPT ![p] = 0]
    BY <1>14 DEF ClientDie, ClientEnd, serverVars, queueVars
  <2>2. CASE q # p
    BY <2>1, <2>2, <1>1, <1>a DEF TypeOK
  <2>3. CASE q = p
    <3>1. cpc'[q] = "dead"
      BY <2>1, <2>3, <1>a DEF TypeOK
    <3>2. (HasRequest(q)' <=> HasRequest(q)) /\ MessagesFor(q)' = MessagesFor(q)
      BY <2>1 DEF HasRequest, MessagesFor
    <3>3. AnswersOf(q)'
      BY <2>1, <3>1, <3>2, <1>a DEF AnswersOf
    <3>4. CallOf(q)'
      BY <2>1, <3>1, <1>a DEF CallOf
    <3> QED BY <3>3, <3>4
  <2> QED BY <2>2, <2>3
<1>15. CASE UNCHANGED vars
  BY <1>15, <1>1 DEF vars, serverVars, queueVars, clientVars
<1> QED
  BY <1>3, <1>4, <1>5, <1>6, <1>7, <1>8, <1>9, <1>10, <1>11, <1>12, <1>13, <1>14, <1>15
  DEF Next, ServerStep, ClientStep, UserStep

LEMMA CallStep ==
  ASSUME ~MayReuse, QueueInv, CallInv, [Next]_vars
  PROVE  CallInv'
BY ApartStep, AnswersStep, CallPartsNext

(***************************************************************************)
(* The history of a call follows its places, while the queues stay.        *)
(***************************************************************************)

LEMMA HistoryInit == Init => HistoryInv
BY DEF Init, HistoryInv, HistoryOf, HasRequest, Answering, Sending, Down, Waiting

LEMMA ServerStays ==
  ASSUME ~MaySignal, QueueInv, HistoryInv, [Next]_vars
  PROVE  /\ (spc \notin Sending => seen = {})'
         /\ spc' \notin {"ending", "removing", "exited"}
         /\ spc' \notin Down => running'
<1> USE DEF HistoryInv, Sending, Down
<1>1. CASE ServerStart \/ ServerGetRequests \/ ServerGetReplies \/ ServerLoop \/ ServerRead
  BY <1>1 DEF ServerStart, ServerGetRequests, ServerGetReplies, ServerLoop, ServerRead
<1>2. CASE ServerExec
  BY <1>2 DEF ServerExec
<1>3. CASE ServerSendMatch \/ ServerEndSearch \/ ServerSpin \/ ServerReply \/ ServerCrash
  BY <1>3 DEF ServerSendMatch, ServerEndSearch, ServerSpin, ServerReply, ServerCrash, Finish
<1>4. CASE ServerRemoveRequests \/ ServerRemoveReplies \/ Signal
  BY <1>4 DEF ServerRemoveRequests, ServerRemoveReplies, Signal
<1>5. CASE UNCHANGED serverVars
  BY <1>5 DEF serverVars
<1> QED
  BY <1>1, <1>2, <1>3, <1>4, <1>5
  DEF Next, ServerStep, ClientStep, UserStep, vars, ClientStart, ClientStarted, ClientCall,
      ClientSend, ClientSendFails, ClientRecv, ClientRecvFails, ClientQuit, ClientDie, ClientEnd

LEMMA HistoryOfStep ==
  ASSUME ~MayReuse, ~MaySignal, QueueInv, CallInv, HistoryInv, [Next]_vars, NEW q \in Pids
  PROVE  HistoryOf(q)'
<1> USE DEF HistoryOf, Answering, Sending, Waiting
<1>a. /\ HistoryOf(q) /\ ClientHasQueues(q) /\ TypeOK /\ AnswersOf(q) /\ RequestsApart
      /\ cmd # None <=> spc \in Serving
      /\ cmd # None => cmd.client_pid \in Pids /\ cmd.req \in Requests
      /\ sq \in Seq(Commands) /\ Len(sq) \in Nat
  BY CallParts, CommandType DEF QueueInv, TypeOK, HistoryInv, ServerInv
<1>b. cmd # None /\ cmd.client_pid = q => HasRequest(q)
  BY DEF HasRequest
<1>c. cpc[q] \in {"open", "ready"} \cup Waiting => sqid # 0 /\ csid[q] = sqid
  BY <1>a DEF ClientHasQueues
<1>1. ASSUME UNCHANGED <<cpc, csid, cres, answer>>, sqid' = sqid \/ sqid = 0,
             HasRequest(q)' => HasRequest(q),
             (Answering(q)' <=> Answering(q)) \/ (~Answering(q)' /\ ~HasRequest(q)')
      PROVE  HistoryOf(q)'
  BY <1>1, <1>a, <1>c
<1>2. ASSUME UNCHANGED <<cpc, csid, cres, answer, sq>>, sqid' = sqid \/ sqid = 0,
             \/ cmd' = cmd /\ spc' = spc
             \/ cmd' = cmd /\ spc \notin Sending /\ spc' \notin Sending
             \/ cmd' = cmd /\ spc \in Sending /\ spc' \in Sending
             \/ cmd' = None /\ spc' \notin Sending
      PROVE  HistoryOf(q)'
  <2>1. HasRequest(q)' => HasRequest(q)
    BY <1>2 DEF HasRequest
  <2>2. CASE \/ cmd' = cmd /\ spc' = spc
             \/ cmd' = cmd /\ spc \notin Sending /\ spc' \notin Sending
             \/ cmd' = cmd /\ spc \in Sending /\ spc' \in Sending
    <3>1. Answering(q)' <=> Answering(q)
      BY <2>2
    <3> QED BY <1>1, <1>2, <2>1, <3>1
  <2>3. CASE cmd' = None /\ spc' \notin Sending
    <3>1. ~Answering(q)'
      BY <2>3
    <3>2. Answering(q) => ~HasRequest(q)'
      BY <1>2, <2>3, <1>a DEF HasRequest, RequestsApart, Serving
    <3> QED BY <1>1, <1>2, <2>1, <3>1, <3>2
  <2> QED BY <1>2, <2>2, <2>3
<1>3. CASE \/ ServerStart \/ ServerGetRequests \/ ServerGetReplies \/ ServerLoop
           \/ ServerSendMatch \/ ServerEndSearch \/ ServerSpin \/ ServerReply \/ ServerCrash
  BY <1>3, <1>2 DEF ServerStart, ServerGetRequests, ServerGetReplies, ServerLoop,
     ServerSendMatch, ServerEndSearch, ServerSpin, ServerReply, ServerCrash, Finish, Down,
     queueVars, clientVars, history
<1>4. CASE ServerRead
  <2>1. /\ cmd = None /\ cmd' = sq[1] /\ sq # <<>> /\ sq' = Tail(sq) /\ spc' = "exec"
        /\ UNCHANGED <<cpc, csid, cres, answer, sqid>>
    BY <1>4, <1>a, TailFacts DEF ServerRead, Serving, clientVars, history
  <2>2. /\ 1 \in 1 .. Len(sq)
        /\ \A i \in 1 .. Len(sq') : sq'[i] = sq[i + 1] /\ i + 1 \in 1 .. Len(sq)
    BY <2>1, <1>a, TailFacts
  <2>3. HasRequest(q)' => HasRequest(q)
    BY <2>1, <2>2 DEF HasRequest
  <2>4. ~Answering(q) /\ ~Answering(q)'
    BY <2>1, <1>a DEF Serving
  <2> QED BY <2>1, <2>3, <2>4, <1>1
<1>5. CASE ServerExec
  <2> DEFINE p == cmd.client_pid
  <2>1. /\ UNCHANGED <<cmd, sq, sqid, cpc, csid, cres>> /\ cmd # None /\ spc = "exec"
        /\ spc' \in {"search", "reply"}
    BY <1>5, <1>a DEF ServerExec, queueVars, clientVars, Serving
  <2>2. PICK o \in Outcomes(db, cmd.req) : answer' = [answer EXCEPT ![p] = o.result]
    BY <1>5 DEF ServerExec
  <2>3. o.result # None
    BY <2>1, <2>2, <1>a, OutcomesType, CdQueueAssumption DEF TypeOK
  <2>4. HasRequest(q)' <=> HasRequest(q)
    BY <2>1 DEF HasRequest
  <2>5. CASE q = p
    <3>1. answer'[q] = o.result /\ HasRequest(q) /\ cpc[q] \in {"recv", "dead"}
      BY <2>1, <2>2, <2>5, <1>a, <1>b DEF TypeOK, AnswersOf
    <3> QED BY <2>1, <2>3, <2>5, <3>1, <1>a
  <2>6. CASE q # p
    <3>1. answer'[q] = answer[q]
      BY <2>1, <2>2, <2>6, <1>a DEF TypeOK
    <3>2. ~Answering(q) /\ ~Answering(q)'
      BY <2>1, <2>6
    <3> QED BY <2>1, <2>4, <3>1, <3>2, <1>a
  <2> QED BY <2>5, <2>6
<1>6. CASE ServerRemoveRequests \/ ServerRemoveReplies \/ Signal
  BY <1>6 DEF ServerRemoveRequests, ServerRemoveReplies, Signal, HistoryInv
<1>7. ASSUME NEW p \in Pids, q # p,
             \/ ClientStart(p) \/ ClientStarted(p) \/ ClientCall(p) \/ ClientSend(p)
             \/ ClientSendFails(p) \/ ClientRecv(p) \/ ClientRecvFails(p) \/ ClientQuit(p)
             \/ ClientDie(p)
      PROVE  HistoryOf(q)'
  <2>1. UNCHANGED <<spc, cmd, sqid>>
    BY <1>7 DEF ClientStart, ClientStarted, ClientCall, ClientSend, ClientSendFails, ClientRecv,
       ClientRecvFails, ClientQuit, ClientDie, ClientEnd, serverVars, queueVars
  <2>2. UNCHANGED <<cpc[q], csid[q], cres[q], answer[q]>>
    <3>1. CASE ClientStart(p) \/ ClientStarted(p) \/ ClientCall(p) \/ ClientSend(p)
      BY <1>7, <3>1, <1>a DEF ClientStart, ClientStarted, ClientCall, ClientSend, TypeOK, history
    <3>2. CASE ClientSendFails(p) \/ ClientRecvFails(p) \/ ClientQuit(p) \/ ClientDie(p)
      BY <1>7, <3>2, <1>a DEF ClientSendFails, ClientRecvFails, ClientQuit, ClientDie, EndCall,
         ClientEnd, TypeOK, history
    <3>3. CASE ClientRecv(p)
      BY <1>7, <3>3, <1>a DEF ClientRecv, EndCall, TypeOK, history
    <3> QED BY <1>7, <3>1, <3>2, <3>3
  <2>3. HasRequest(q)' <=> HasRequest(q)
    <3>1. CASE ~ClientSend(p)
      BY <1>7, <2>1, <3>1 DEF HasRequest, ClientStart, ClientStarted, ClientCall,
         ClientSendFails, ClientRecv, ClientRecvFails, ClientQuit, ClientDie, ClientEnd, queueVars
    <3>2. CASE ClientSend(p)
      <4>1. [client_pid |-> p, req |-> creq[p]] \in Commands
            /\ sq' = Append(sq, [client_pid |-> p, req |-> creq[p]])
        BY <3>2 DEF ClientSend, Commands, QueueInv, ClientHasQueues
      <4>2. /\ Len(sq') = Len(sq) + 1
            /\ sq'[Len(sq) + 1] = [client_pid |-> p, req |-> creq[p]]
            /\ \A i \in 1 .. Len(sq) : sq'[i] = sq[i]
        BY <4>1, <1>a, AppendFacts
      <4> QED BY <1>7, <2>1, <4>2, <1>a DEF HasRequest
    <3> QED BY <3>1, <3>2
  <2> QED BY <2>1, <2>2, <2>3, <1>a
<1>8. CASE ClientStart(q)
  <2>1. /\ UNCHANGED <<spc, cmd, sq, sqid, cres>> /\ cpc[q] = "off"
        /\ cpc'[q] \in {"gone", "open"} /\ csid'[q] = sqid /\ answer'[q] = None
    BY <1>8, <1>a DEF ClientStart, serverVars, queueVars, TypeOK
  <2>2. ~HasRequest(q) /\ ~Answering(q)
    BY <2>1, <1>a, <1>b DEF AnswersOf, Serving
  <2>3. ~HasRequest(q)' /\ ~Answering(q)'
    BY <2>1, <2>2 DEF HasRequest
  <2> QED BY <2>1, <2>3, <1>a
<1>9. CASE ClientStarted(q) \/ ClientCall(q)
  <2>1. /\ UNCHANGED <<spc, cmd, sq, sqid, csid, cres, answer>>
        /\ cpc[q] \in {"open", "ready"} /\ cpc'[q] \in {"gone", "ready", "send"}
    BY <1>9, <1>a DEF ClientStarted, ClientCall, serverVars, queueVars, TypeOK, history
  <2>2. HasRequest(q)' <=> HasRequest(q)
    BY <2>1 DEF HasRequest
  <2> QED BY <2>1, <2>2, <1>a
<1>10. CASE ClientSend(q)
  <2>1. /\ UNCHANGED <<spc, cmd, sqid, csid, cres, answer>>
        /\ cpc[q] = "send" /\ cpc'[q] = "recv"
    BY <1>10, <1>a DEF ClientSend, serverVars, TypeOK, history
  <2>2. ~HasRequest(q) /\ answer[q] = None
    BY <2>1, <1>a DEF AnswersOf
  <2>3. ~Answering(q)
    BY <2>2, <1>a, <1>b DEF Serving
  <2> QED BY <2>1, <2>2, <2>3, <1>a
<1>11. CASE ClientSendFails(q) \/ ClientRecvFails(q)
  <2>1. /\ UNCHANGED <<spc, cmd, sq, sqid, csid>> /\ cpc'[q] = "ready"
        /\ cres'[q] = {} /\ answer'[q] = None
        /\ cpc[q] = "send" \/ (cpc[q] = "recv" /\ ccid[q] # cqid)
    BY <1>11, <1>a DEF ClientSendFails, ClientRecvFails, EndCall, serverVars, queueVars, TypeOK
  <2>2. ~HasRequest(q)
    BY <2>1, <1>a DEF AnswersOf, CallInv, CallOf
  <2>3. ~HasRequest(q)' /\ ~Answering(q)'
    BY <2>1, <2>2, <1>a, <1>b DEF HasRequest, Serving
  <2> QED BY <2>1, <2>3, <1>a
<1>12. CASE ClientRecv(q)
  <2>1. UNCHANGED <<spc, cmd, sq, sqid, csid>> /\ cpc[q] = "recv"
    BY <1>12 DEF ClientRecv, serverVars
  <2>2. HasRequest(q)' <=> HasRequest(q)
    BY <2>1 DEF HasRequest
  <2>3. PICK i \in 1 .. Len(cq) :
          /\ cq[i].msg_key = q
          /\ \/ EndCall(q) /\ IsLast(creq[q], cq[i].msg)
             \/ UNCHANGED <<cpc, answer>>
    BY <1>12 DEF ClientRecv, history, IsFirstFor
  <2>4. CASE EndCall(q) /\ IsLast(creq[q], cq[i].msg)
    <3>1. ~HasRequest(q)
      BY <2>3, <2>4, <1>a DEF AnswersOf, MessagesFor
    <3>2. cpc'[q] = "ready" /\ cres'[q] = {} /\ answer'[q] = None
      BY <2>4, <1>a DEF EndCall, TypeOK
    <3>3. ~Answering(q)'
      BY <2>1, <3>1, <1>a, <1>b DEF Serving
    <3> QED BY <2>1, <2>2, <3>1, <3>2, <3>3, <1>a
  <2>5. CASE UNCHANGED <<cpc, answer>>
    BY <2>1, <2>2, <2>5, <1>a
  <2> QED BY <2>3, <2>4, <2>5
<1>13. CASE ClientQuit(q) \/ ClientDie(q)
  <2>1. /\ UNCHANGED <<spc, cmd, sq, sqid, answer>> /\ cres'[q] = {}
        /\ (cpc[q] = "ready" /\ cpc'[q] = "gone") \/ cpc'[q] = "dead"
        /\ csid'[q] = 0
    BY <1>13, <1>a DEF ClientQuit, ClientDie, ClientEnd, serverVars, queueVars, TypeOK, history
  <2>2. HasRequest(q)' <=> HasRequest(q)
    BY <2>1 DEF HasRequest
  <2> QED BY <2>1, <2>2, <1>a
<1>14. CASE UNCHANGED vars
  BY <1>14, <1>2 DEF vars, serverVars, queueVars, clientVars, history
<1> QED
  BY <1>3, <1>4, <1>5, <1>6, <1>7, <1>8, <1>9, <1>10, <1>11, <1>12, <1>13, <1>14
  DEF Next, ServerStep, ClientStep, UserStep

LEMMA HistoryStep ==
  ASSUME ~MayReuse, ~MaySignal, QueueInv, CallInv, HistoryInv, [Next]_vars
  PROVE  HistoryInv'
BY ServerStays, HistoryOfStep DEF HistoryInv

(***************************************************************************)
(* The parts of an answer make up the result of its execution.             *)
(***************************************************************************)

LEMMA ResultInit == Init => ResultInv
BY DEF Init, ResultInv, PartsMakeResult

\* What q has read and what the queue holds for q stay the same, though a
\* message may move from the queue to work_file.
SameMessages(q) ==
  /\ MessagesFor(q) = {} => MessagesFor(q)' = {} /\ cres'[q] = cres[q]
  /\ FoundUpTo(q, Len(cq))' = FoundUpTo(q, Len(cq))
  /\ \A i \in MessagesFor(q)' : \E j \in MessagesFor(q) :
       cq'[i].msg = cq[j].msg /\ FoundUpTo(q, i - 1)' = FoundUpTo(q, j - 1)

LEMMA QueueStays ==
  ASSUME NEW q \in Pids, cq' = cq, cres'[q] = cres[q]
  PROVE  SameMessages(q)
<1>1. MessagesFor(q)' = MessagesFor(q)
  BY DEF MessagesFor
<1>2. \A n : FoundUpTo(q, n)' = FoundUpTo(q, n)
  BY DEF FoundUpTo
<1>3. FoundUpTo(q, Len(cq))' = FoundUpTo(q, Len(cq))
  BY DEF FoundUpTo
<1> QED BY <1>1, <1>2, <1>3 DEF SameMessages

LEMMA SentToOther ==
  ASSUME NEW q \in Pids, cq \in Seq(Slots), NEW m \in Slots, m.msg_key # q,
         cq' = Append(cq, m), cres'[q] = cres[q]
  PROVE  SameMessages(q)
<1>1. /\ Len(cq) \in Nat /\ Len(cq') = Len(cq) + 1 /\ cq'[Len(cq) + 1] = m
      /\ \A i \in 1 .. Len(cq) : cq'[i] = cq[i]
  BY AppendFacts
<1>2. MessagesFor(q)' = MessagesFor(q)
  BY <1>1 DEF MessagesFor
<1>3. \A n \in 0 .. Len(cq) : FoundUpTo(q, n)' = FoundUpTo(q, n)
  BY AppendQueueData DEF FoundUpTo
<1>4. FoundUpTo(q, Len(cq))' = FoundUpTo(q, Len(cq))
  BY <1>1, AppendQueueData DEF FoundUpTo
<1>5. \A i \in MessagesFor(q) : cq'[i].msg = cq[i].msg /\ i - 1 \in 0 .. Len(cq)
  BY <1>1 DEF MessagesFor
<1> QED BY <1>2, <1>3, <1>4, <1>5 DEF SameMessages

LEMMA TakenFromQueue ==
  ASSUME NEW q \in Pids, cq \in Seq(Slots), NEW i \in 1 .. Len(cq),
         cq' \in Seq(Slots), IsRest(cq', cq, i),
         \/ cq[i].msg_key # q /\ cres'[q] = cres[q]
         \/ IsFirstFor(q, i) /\ cres'[q] = cres[q] \cup {cq[i].msg.data}
  PROVE  SameMessages(q)
<1>1. /\ Len(cq) \in Nat \ {0} /\ Len(cq') = Len(cq) - 1 /\ i \in Nat
      /\ \A j \in 1 .. Len(cq') : cq'[j] = IF j < i THEN cq[j] ELSE cq[j + 1]
  BY DEF IsRest
<1>d. ASSUME NEW n \in 0 .. Len(cq')
      PROVE
        /\ n < i => DataFor(cq', q, n) = DataFor(cq, q, n)
        /\ n >= i - 1 /\ cq[i].msg_key # q => DataFor(cq', q, n) = DataFor(cq, q, n + 1)
        /\ n >= i - 1 /\ cq[i].msg_key = q =>
             DataFor(cq', q, n) \cup {cq[i].msg.data} = DataFor(cq, q, n + 1)
  BY RemoveData
<1>2. ASSUME NEW n \in 0 .. Len(cq'), n >= i - 1
      PROVE  FoundUpTo(q, n)' = FoundUpTo(q, n + 1)
  <2>1. CASE cq[i].msg_key # q /\ cres'[q] = cres[q]
    <3>1. DataFor(cq', q, n) = DataFor(cq, q, n + 1)
      BY <1>d, <1>2, <2>1
    <3> QED BY <2>1, <3>1 DEF FoundUpTo
  <2>2. CASE IsFirstFor(q, i) /\ cres'[q] = cres[q] \cup {cq[i].msg.data}
    <3>1. DataFor(cq', q, n) \cup {cq[i].msg.data} = DataFor(cq, q, n + 1)
      BY <1>d, <1>2, <2>2 DEF IsFirstFor
    <3> QED BY <2>2, <3>1 DEF FoundUpTo
  <2> QED BY <2>1, <2>2
<1>3. FoundUpTo(q, Len(cq))' = FoundUpTo(q, Len(cq))
  <2>1. Len(cq') \in 0 .. Len(cq') /\ Len(cq') >= i - 1 /\ Len(cq') + 1 = Len(cq)
    BY <1>1
  <2> QED BY <1>2, <2>1
<1>4. MessagesFor(q) = {} => MessagesFor(q)' = {} /\ cres'[q] = cres[q]
  <2> SUFFICES ASSUME \A j \in 1 .. Len(cq) : cq[j].msg_key # q
               PROVE  MessagesFor(q)' = {} /\ cres'[q] = cres[q]
    BY DEF MessagesFor
  <2>1. \A j \in 1 .. Len(cq') : cq'[j].msg_key # q
    BY <1>1
  <2> QED BY <2>1 DEF MessagesFor, IsFirstFor
<1>5. ASSUME NEW k \in MessagesFor(q)'
      PROVE  \E j \in MessagesFor(q) :
               cq'[k].msg = cq[j].msg /\ FoundUpTo(q, k - 1)' = FoundUpTo(q, j - 1)
  <2>1. k \in 1 .. Len(cq') /\ cq'[k].msg_key = q /\ k \in Nat
    BY DEF MessagesFor
  <2>2. CASE k < i
    <3>1. k \in MessagesFor(q) /\ cq'[k] = cq[k] /\ k \in 1 .. i - 1
      BY <1>1, <2>1, <2>2 DEF MessagesFor
    <3>2. cq[i].msg_key # q /\ cres'[q] = cres[q]
      BY <2>1, <3>1 DEF IsFirstFor
    <3>3. DataFor(cq', q, k - 1) = DataFor(cq, q, k - 1)
      <4>1. k - 1 \in 0 .. Len(cq') /\ k - 1 < i
        BY <1>1, <2>1, <2>2
      <4> QED BY <1>d, <4>1
    <3>4. FoundUpTo(q, k - 1)' = FoundUpTo(q, k - 1)
      BY <3>2, <3>3 DEF FoundUpTo
    <3> QED BY <3>1, <3>4
  <2>3. CASE ~(k < i)
    <3>1. /\ k + 1 \in 1 .. Len(cq) /\ cq'[k] = cq[k + 1]
          /\ k - 1 \in 0 .. Len(cq') /\ k - 1 >= i - 1 /\ (k - 1) + 1 = (k + 1) - 1
      BY <1>1, <2>1, <2>3
    <3>2. k + 1 \in MessagesFor(q)
      BY <2>1, <3>1 DEF MessagesFor
    <3>3. FoundUpTo(q, k - 1)' = FoundUpTo(q, (k + 1) - 1)
      BY <1>2, <3>1
    <3> QED BY <3>1, <3>2, <3>3
  <2> QED BY <2>2, <2>3
<1> QED BY <1>3, <1>4, <1>5 DEF SameMessages

\* What leaves the messages and the execution of q's call alone.
LEMMA ResultFrame ==
  ASSUME NEW q \in Pids, PartsMakeResult(q), SameMessages(q),
         answer'[q] = answer[q], creq'[q] = creq[q], resp' = resp \/ ~Answering(q)',
         cpc'[q] = "recv" => cpc[q] = "recv",
         HasRequest(q)' => HasRequest(q),
         \/ ~Answering(q)' /\ ~Answering(q)
         \/ ~Answering(q)' /\ ~HasRequest(q)'
         \/ /\ Answering(q) /\ Answering(q)' /\ UNCHANGED <<cmd, db, seen>>
            /\ spc' = spc \/ {spc, spc'} \subseteq {"search", "spin"},
         HasRequest(q) /\ ~Answering(q) => cres'[q] = cres[q]
  PROVE  PartsMakeResult(q)'
<1>1. EntriesOf(seen)' = EntriesOf(seen) \/ ~Answering(q)'
  BY DEF EntriesOf
<1>2. \/ ~Answering(q)'
      \/ EntriesOf(Matching(db, cmd.req.pattern))' = EntriesOf(Matching(db, cmd.req.pattern))
         /\ Matching(db, cmd.req.pattern)' = Matching(db, cmd.req.pattern)
  BY DEF EntriesOf
<1> SUFFICES ASSUME cpc'[q] = "recv"
             PROVE  PartsMakeResult(q)'
  BY DEF PartsMakeResult
<1>3. HasRequest(q)' /\ ~Answering(q)' => MessagesFor(q)' = {} /\ cres'[q] = {}
  BY DEF PartsMakeResult, SameMessages
<1>4. Answering(q)' /\ spc' # "reply" =>
         /\ answer'[q] = ResultOf([response |-> "r_find_no_more", data |-> Absent],
                                  EntriesOf(Matching(db, cmd.req.pattern))')
         /\ seen' \subseteq Matching(db, cmd.req.pattern)'
         /\ FoundUpTo(q, Len(cq))' = EntriesOf(seen)'
  BY <1>1, <1>2 DEF PartsMakeResult, SameMessages
<1>5. Answering(q)' /\ spc' = "reply" /\ IsLast(creq[q], resp)' =>
         answer'[q] = ResultOf(resp', FoundUpTo(q, Len(cq))')
  BY DEF PartsMakeResult, SameMessages
<1>6. \A i \in MessagesFor(q)' :
         IsLast(creq'[q], cq'[i].msg) =>
           answer'[q] = ResultOf(cq'[i].msg, FoundUpTo(q, i - 1)')
  BY DEF PartsMakeResult, SameMessages
<1> QED BY <1>3, <1>4, <1>5, <1>6 DEF PartsMakeResult

LEMMA PartsStep ==
  ASSUME ~MayReuse, ~MaySignal, QueueInv, CallInv, HistoryInv, ResultInv, [Next]_vars,
         NEW q \in Pids
  PROVE  PartsMakeResult(q)'
<1>a. PartsMakeResult(q) /\ AnswersOf(q) /\ RequestsApart /\ HistoryOf(q) /\ TypeOK
  BY CallParts DEF ResultInv, HistoryInv, QueueInv
<1>b. /\ cmd # None <=> spc \in Serving
      /\ cmd # None => cmd.client_pid \in Pids /\ cmd.req \in Requests
      /\ cmd # None /\ cmd.client_pid = q => creq[q] = cmd.req
  BY CommandType DEF QueueInv, TypeOK, ServerInv, CallInv, CallOf
<1>c. cq \in Seq(Slots) /\ Len(cq) \in Nat /\ sq \in Seq(Commands) /\ Len(sq) \in Nat
  BY <1>a DEF TypeOK, Slots
<1>d. Answering(q) => cmd # None /\ HasRequest(q)
  BY <1>b DEF Serving, Sending, Answering, HasRequest
<1>e. cmd # None /\ cmd.client_pid = q => \A i \in 1 .. Len(sq) : sq[i].client_pid # q
  BY <1>a DEF RequestsApart
\* The actions that do not touch the messages.
<1>1. ASSUME UNCHANGED <<cres, answer, creq, cq, sq>>,
             cpc'[q] = "recv" => cpc[q] = "recv",
             \/ UNCHANGED <<cmd, spc, resp, db, seen>>
             \/ cmd' = cmd /\ spc \notin Sending /\ spc' \notin Sending
             \/ cmd' = None /\ spc' \notin Sending
             \/ UNCHANGED <<cmd, resp, db, seen>> /\ {spc, spc'} \subseteq {"search", "spin"}
      PROVE  PartsMakeResult(q)'
  <2>1. SameMessages(q)
    BY <1>1, QueueStays
  <2>2. HasRequest(q)' => HasRequest(q)
    BY <1>1 DEF HasRequest
  <2>3. /\ resp' = resp \/ ~Answering(q)'
        /\ \/ ~Answering(q)' /\ ~Answering(q)
           \/ ~Answering(q)' /\ ~HasRequest(q)'
           \/ /\ Answering(q) /\ Answering(q)' /\ UNCHANGED <<cmd, db, seen>>
              /\ spc' = spc \/ {spc, spc'} \subseteq {"search", "spin"}
    <3>1. CASE UNCHANGED <<cmd, spc, resp, db, seen>>
      BY <3>1 DEF Answering
    <3>2. CASE cmd' = cmd /\ spc \notin Sending /\ spc' \notin Sending
      BY <3>2 DEF Answering
    <3>3. CASE cmd' = None /\ spc' \notin Sending
      <4>1. ~Answering(q)'
        BY <3>3 DEF Answering
      <4>2. Answering(q) => ~HasRequest(q)'
        BY <1>1, <1>d, <1>e, <3>3 DEF Answering, HasRequest
      <4> QED BY <4>1, <4>2
    <3>4. CASE UNCHANGED <<cmd, resp, db, seen>> /\ {spc, spc'} \subseteq {"search", "spin"}
      BY <3>4 DEF Answering, Sending
    <3> QED BY <1>1, <3>1, <3>2, <3>3, <3>4
  <2> QED BY <2>1, <2>2, <2>3, <1>1, <1>a, ResultFrame
<1>2. CASE \/ ServerStart \/ ServerGetRequests \/ ServerGetReplies \/ ServerLoop \/ ServerSpin
           \/ ServerCrash
  BY <1>2, <1>1 DEF ServerStart, ServerGetRequests, ServerGetReplies, ServerLoop, ServerSpin,
     ServerCrash, Finish, Down, Sending, queueVars, clientVars, history
<1>3. CASE ServerRead
  <2>1. /\ cmd = None /\ cmd' = sq[1] /\ sq # <<>> /\ sq' = Tail(sq)
        /\ UNCHANGED <<cpc, creq, cq, cres, answer, resp>> /\ spc' = "exec" /\ spc = "read"
    BY <1>3, <1>b, <1>c, TailFacts DEF ServerRead, clientVars, history, Serving
  <2>2. /\ 1 \in 1 .. Len(sq)
        /\ \A i \in 1 .. Len(sq') : sq'[i] = sq[i + 1] /\ i + 1 \in 1 .. Len(sq)
    BY <2>1, <1>c, TailFacts
  <2>3. HasRequest(q)' => HasRequest(q)
    BY <2>1, <2>2 DEF HasRequest
  <2>4. ~Answering(q) /\ ~Answering(q)'
    BY <2>1 DEF Answering, Sending
  <2>5. SameMessages(q)
    BY <2>1, QueueStays
  <2> QED BY <2>1, <2>3, <2>4, <2>5, <1>a, ResultFrame
<1>4. CASE ServerExec
  <2> DEFINE p == cmd.client_pid
  <2>1. /\ UNCHANGED <<cmd, sq, cpc, creq, cres, cq, seen>> /\ spc = "exec"
        /\ cmd # None /\ db \in Databases /\ cmd.req \in Requests
    BY <1>4, <1>a, <1>b DEF ServerExec, queueVars, clientVars, Serving, TypeOK
  <2>2. PICK o \in Outcomes(db, cmd.req) :
          /\ answer' = [answer EXCEPT ![p] = o.result] /\ db' = o.db
          /\ IF IsFind(cmd.req)
             THEN spc' = "search" /\ UNCHANGED resp
             ELSE /\ resp' = [response |-> o.result.response, data |-> o.result.data]
                  /\ spc' = "reply"
    BY <1>4 DEF ServerExec
  <2>3. HasRequest(q)' <=> HasRequest(q)
    BY <2>1 DEF HasRequest
  <2>4. SameMessages(q)
    BY <2>1, QueueStays
  <2>5. ~Answering(q)
    BY <2>1 DEF Answering, Sending
  <2>6. CASE q # p
    <3>1. answer'[q] = answer[q]
      BY <2>2, <2>6, <1>a DEF TypeOK
    <3>2. ~Answering(q)'
      BY <2>1, <2>6 DEF Answering
    <3> QED BY <2>1, <2>3, <2>4, <2>5, <3>1, <3>2, <1>a, ResultFrame
  <2>7. CASE q = p
    <3> SUFFICES ASSUME cpc'[q] = "recv"
                 PROVE  PartsMakeResult(q)'
      BY DEF PartsMakeResult
    <3>1. answer'[q] = o.result /\ Answering(q)' /\ HasRequest(q)
      BY <2>1, <2>2, <2>7, <1>a, <1>b DEF TypeOK, Answering, Sending, HasRequest
    <3>2. MessagesFor(q) = {} /\ cres[q] = {} /\ seen = {}
      BY <2>1, <2>5, <3>1, <1>a DEF PartsMakeResult, HistoryInv, Sending
    <3>3. MessagesFor(q)' = {} /\ FoundUpTo(q, Len(cq))' = {}
      <4>1. DataFor(cq, q, Len(cq)) = {}
        BY <3>2 DEF DataFor, MessagesFor
      <4> QED BY <2>1, <3>2, <4>1 DEF FoundUpTo, MessagesFor
    <3>4. CASE IsFind(cmd.req)
      <4>1. spc' = "search" /\ db' = db
        BY <2>1, <2>2, <3>4, SearchOutcome
      <4>2. answer'[q] = ResultOf([response |-> "r_find_no_more", data |-> Absent],
                                  EntriesOf(Matching(db, cmd.req.pattern)))
        BY <2>1, <2>2, <3>1, <3>4, SearchOutcome DEF ResultOf, EntriesOf
      <4>3. EntriesOf(Matching(db, cmd.req.pattern))' = EntriesOf(Matching(db, cmd.req.pattern))
        BY <2>1, <4>1 DEF EntriesOf
      <4>4. EntriesOf(seen)' = {} /\ seen' = {}
        BY <2>1, <3>2 DEF EntriesOf
      <4> QED BY <2>1, <3>1, <3>3, <4>1, <4>2, <4>3, <4>4 DEF PartsMakeResult
    <3>5. CASE ~IsFind(cmd.req)
      <4>1. /\ resp' = [response |-> o.result.response, data |-> o.result.data]
            /\ spc' = "reply"
        BY <2>2, <3>5
      <4>2. o.result = ResultOf(resp', {})
        BY <2>1, <4>1, <3>5, SingleAnswer DEF ResultOf
      <4>3. answer'[q] = ResultOf(resp', FoundUpTo(q, Len(cq))')
        BY <3>1, <3>3, <4>2
      <4> QED BY <3>1, <3>3, <4>1, <4>3 DEF PartsMakeResult
    <3> QED BY <3>4, <3>5
  <2> QED BY <2>6, <2>7
<1>5. CASE ServerSendMatch
  <2> DEFINE p == cmd.client_pid
  <2>1. /\ cmd # None /\ p \in Pids /\ IsFind(cmd.req) /\ spc = "search"
        /\ cmd.req \in Requests
    BY <1>5, <1>b DEF ServerSendMatch, QueueInv, ServerInv, Serving
  <2>2. PICK c \in Unsent : Send(MatchOf(c)) /\ seen' = seen \cup {c}
    BY <1>5 DEF ServerSendMatch
  <2>3. UNCHANGED <<cmd, spc, sq, db, cpc, creq, cres, answer, resp>>
    BY <1>5 DEF ServerSendMatch, clientVars, history
  <2> DEFINE m == [msg_key |-> p, msg |-> MatchOf(c)]
  <2>4. cq' = Append(cq, m)
    BY <2>2 DEF Send
  <2>5. m \in Slots
    BY <2>1, <1>a, MatchType DEF Slots, TypeOK, Unsent, MatchOf
  <2>6. HasRequest(q)' <=> HasRequest(q)
    BY <2>3 DEF HasRequest
  <2> HIDE DEF m
  <2>7. CASE q # p
    <3>1. SameMessages(q)
      BY <1>c, <2>3, <2>4, <2>5, <2>7, SentToOther DEF m
    <3>2. ~Answering(q) /\ ~Answering(q)'
      BY <2>1, <2>3, <2>7 DEF Answering
    <3> QED BY <2>3, <2>6, <3>1, <3>2, <1>a, ResultFrame
  <2>8. CASE q = p
    <3> SUFFICES ASSUME cpc[q] = "recv"
                 PROVE  PartsMakeResult(q)'
      BY <2>3 DEF PartsMakeResult
    <3> DEFINE n == Len(cq)
    <3>1. /\ Len(cq') = n + 1 /\ cq'[n + 1] = m
          /\ \A i \in 1 .. n : cq'[i] = cq[i]
      BY <1>c, <2>4, <2>5, AppendFacts
    <3>2. m.msg_key = q /\ m.msg = MatchOf(c) /\ m.msg.data = <<c, db.cdc[c]>>
      BY <2>8 DEF m, MatchOf
    <3>3. FoundUpTo(q, Len(cq))' = FoundUpTo(q, n) \cup {<<c, db.cdc[c]>>}
      <4>1. DataFor(cq', q, n + 1) = DataFor(cq, q, n) \cup {<<c, db.cdc[c]>>}
        BY <1>c, <2>4, <2>5, <3>2, AppendQueueData
      <4> QED BY <2>3, <3>1, <4>1 DEF FoundUpTo
    <3>4. EntriesOf(seen)' = EntriesOf(seen) \cup {<<c, db.cdc[c]>>}
      BY <2>2, <2>3 DEF EntriesOf
    <3>5. EntriesOf(Matching(db, cmd.req.pattern))' = EntriesOf(Matching(db, cmd.req.pattern))
      BY <2>3 DEF EntriesOf
    <3>6. Answering(q) /\ Answering(q)' /\ HasRequest(q)
      BY <2>1, <2>3, <2>8 DEF Answering, Sending, HasRequest
    <3>7. seen' \subseteq Matching(db, cmd.req.pattern)
      BY <2>1, <2>2, <3>6, <1>a DEF PartsMakeResult, Unsent
    <3>8. ~IsLast(creq[q], MatchOf(c))
      BY <2>1, <2>8, <1>b DEF IsLast, MatchOf
    <3>9. \A i \in MessagesFor(q)' : ~IsLast(creq[q], cq'[i].msg)
      <4>1. SUFFICES ASSUME NEW i \in 1 .. n + 1, cq'[i].msg_key = q
                     PROVE  ~IsLast(creq[q], cq'[i].msg)
        BY <3>1 DEF MessagesFor
      <4>2. CASE i = n + 1
        BY <3>1, <3>2, <3>8, <4>2
      <4>3. CASE i # n + 1
        <5>1. i \in 1 .. n /\ cq'[i] = cq[i]
          BY <1>c, <3>1, <4>3
        <5> QED BY <3>6, <4>1, <5>1, <1>a DEF AnswersOf, MessagesFor
      <4> QED BY <4>2, <4>3
    <3> HIDE DEF n, p
    <3>10. /\ answer[q] = ResultOf([response |-> "r_find_no_more", data |-> Absent],
                                   EntriesOf(Matching(db, cmd.req.pattern)))
           /\ FoundUpTo(q, n) = EntriesOf(seen)
      BY <2>1, <3>6, <1>a DEF PartsMakeResult, n
    <3>11. EntriesOf(seen)' = FoundUpTo(q, Len(cq))'
      BY <3>3, <3>4, <3>10
    <3> QED BY <2>1, <2>3, <3>5, <3>6, <3>7, <3>9, <3>10, <3>11 DEF PartsMakeResult
  <2> QED BY <2>7, <2>8
<1>6. CASE ServerEndSearch
  <2>1. /\ cmd # None /\ cmd.client_pid \in Pids /\ IsFind(cmd.req) /\ spc = "search"
        /\ cmd.req \in Requests /\ spc' = "reply"
        /\ resp' = [response |-> "r_find_no_more", data |-> Absent]
        /\ Matching(db, cmd.req.pattern) \subseteq seen
        /\ UNCHANGED <<cmd, sq, cq, cpc, creq, cres, answer>>
    BY <1>6, <1>b DEF ServerEndSearch, QueueInv, ServerInv, Serving, Unsent, queueVars,
       clientVars, history
  <2>2. HasRequest(q)' <=> HasRequest(q)
    BY <2>1 DEF HasRequest
  <2>3. SameMessages(q)
    BY <2>1, QueueStays
  <2>4. CASE q # cmd.client_pid
    <3>1. ~Answering(q) /\ ~Answering(q)'
      BY <2>1, <2>4 DEF Answering
    <3> QED BY <2>1, <2>2, <2>3, <3>1, <1>a, ResultFrame
  <2>5. CASE q = cmd.client_pid
    <3> SUFFICES ASSUME cpc[q] = "recv"
                 PROVE  PartsMakeResult(q)'
      BY <2>1 DEF PartsMakeResult
    <3>1. Answering(q) /\ Answering(q)' /\ HasRequest(q)
      BY <2>1, <2>5, <1>b DEF Answering, Sending, HasRequest
    <3>2. /\ answer[q] = ResultOf(resp', EntriesOf(seen))
          /\ FoundUpTo(q, Len(cq)) = EntriesOf(seen)
      <4>1. seen \subseteq Matching(db, cmd.req.pattern)
        BY <2>1, <3>1, <1>a DEF PartsMakeResult
      <4>2. seen = Matching(db, cmd.req.pattern)
        BY <2>1, <4>1
      <4> QED BY <2>1, <3>1, <4>2, <1>a DEF PartsMakeResult
    <3>3. answer'[q] = ResultOf(resp', FoundUpTo(q, Len(cq))')
      BY <2>1, <2>3, <3>2 DEF SameMessages
    <3>4. \A i \in MessagesFor(q)' : ~IsLast(creq[q], cq'[i].msg)
      BY <2>1, <3>1, <1>a DEF AnswersOf, MessagesFor
    <3> QED BY <2>1, <3>1, <3>3, <3>4 DEF PartsMakeResult
  <2> QED BY <2>4, <2>5
<1>7. CASE ServerReply
  <2> DEFINE p == cmd.client_pid
             m == [msg_key |-> p, msg |-> resp]
  <2>1. cmd # None /\ p \in Pids /\ resp \in Messages /\ spc = "reply"
    BY <1>7, <1>a, <1>b DEF ServerReply, QueueInv, ServerInv, TypeOK, Serving
  <2>2. /\ cq' = Append(cq, m) /\ m \in Slots
        /\ cmd' = None /\ spc' = "loop"
        /\ UNCHANGED <<sq, db, cpc, creq, cres, answer>>
    BY <1>7, <2>1 DEF ServerReply, Send, Finish, Slots, clientVars, history
  <2>3. ~Answering(q)' /\ (HasRequest(q)' => HasRequest(q))
    BY <2>2 DEF Answering, Sending, HasRequest
  <2> HIDE DEF m
  <2>4. CASE q # p
    <3>1. ~Answering(q)
      BY <2>4 DEF Answering
    <3>2. SameMessages(q)
      BY <1>c, <2>2, <2>4, SentToOther DEF m
    <3> QED BY <2>2, <2>3, <3>1, <3>2, <1>a, ResultFrame
  <2>5. CASE q = p
    <3> SUFFICES ASSUME cpc[q] = "recv"
                 PROVE  PartsMakeResult(q)'
      BY <2>2 DEF PartsMakeResult
    <3> DEFINE n == Len(cq)
    <3>1. /\ Len(cq') = n + 1 /\ cq'[n + 1] = m
          /\ \A i \in 1 .. n : cq'[i] = cq[i]
      BY <1>c, <2>2, AppendFacts
    <3>2. Answering(q) /\ HasRequest(q)
      BY <2>1, <2>5, <1>b DEF Answering, Sending, HasRequest
    <3>3. ~HasRequest(q)'
      BY <2>1, <2>2, <2>5, <1>e DEF HasRequest
    <3>4. m.msg = resp /\ DataFor(cq', q, n) = DataFor(cq, q, n)
      <4>1. n \in 0 .. Len(cq)
        BY <1>c
      <4> QED BY <4>1, <1>c, <2>2, AppendQueueData DEF m
    <3>5. FoundUpTo(q, n) = cres[q] \cup DataFor(cq, q, n)
      BY DEF FoundUpTo
    <3>6. ASSUME NEW i \in MessagesFor(q)', IsLast(creq'[q], cq'[i].msg)
          PROVE  answer'[q] = ResultOf(cq'[i].msg, FoundUpTo(q, i - 1)')
      <4>1. i \in 1 .. n + 1 /\ cq'[i].msg_key = q
        BY <3>1 DEF MessagesFor
      <4>2. CASE i = n + 1
        <5>1. IsLast(creq[q], resp) /\ cq'[i].msg = resp
          BY <2>2, <3>1, <3>4, <3>6, <4>2
        <5>2. answer[q] = ResultOf(resp, FoundUpTo(q, n))
          BY <2>1, <3>2, <5>1, <1>a DEF PartsMakeResult
        <5>3. i - 1 = n
          BY <1>c, <4>2
        <5>4. FoundUpTo(q, i - 1)' = FoundUpTo(q, n)
          BY <2>2, <3>4, <3>5, <5>3 DEF FoundUpTo
        <5> QED BY <2>2, <5>1, <5>2, <5>4
      <4>3. CASE i # n + 1
        <5>1. i \in 1 .. n /\ cq'[i] = cq[i]
          BY <1>c, <3>1, <4>1, <4>3
        <5>2. i \in MessagesFor(q) /\ IsLast(creq[q], cq[i].msg)
          BY <2>2, <3>6, <4>1, <5>1 DEF MessagesFor
        <5> QED BY <3>2, <5>2, <1>a DEF AnswersOf
      <4> QED BY <4>2, <4>3
    <3> QED BY <2>3, <3>3, <3>6 DEF PartsMakeResult
  <2> QED BY <2>4, <2>5
<1>8. CASE ServerRemoveRequests \/ ServerRemoveReplies \/ Signal
  BY <1>8 DEF ServerRemoveRequests, ServerRemoveReplies, Signal, HistoryInv
<1>9. ASSUME NEW p \in Pids,
             \/ ClientStart(p) \/ ClientStarted(p) \/ ClientCall(p) \/ ClientSendFails(p)
             \/ ClientRecvFails(p) \/ ClientQuit(p) \/ ClientDie(p)
      PROVE  PartsMakeResult(q)'
  <2>1. UNCHANGED <<spc, cmd, resp, seen, db, sq, cq>>
    BY <1>9 DEF ClientStart, ClientStarted, ClientCall, ClientSendFails, ClientRecvFails,
       ClientQuit, ClientDie, ClientEnd, serverVars, queueVars
  <2>2. CASE q = p
    <3>1. cpc'[q] # "recv"
      BY <1>9, <2>2, <1>a DEF ClientStart, ClientStarted, ClientCall, ClientSendFails,
         ClientRecvFails, ClientQuit, ClientDie, ClientEnd, EndCall, TypeOK
    <3> QED BY <3>1 DEF PartsMakeResult
  <2>3. CASE q # p
    <3>1. UNCHANGED <<cpc[q], creq[q], cres[q], answer[q]>>
      <4>1. CASE ClientStart(p) \/ ClientStarted(p) \/ ClientCall(p)
        BY <4>1, <2>3, <1>a DEF ClientStart, ClientStarted, ClientCall, TypeOK, history
      <4>2. CASE ClientSendFails(p) \/ ClientRecvFails(p)
        BY <4>2, <2>3, <1>a DEF ClientSendFails, ClientRecvFails, EndCall, TypeOK
      <4>3. CASE ClientQuit(p) \/ ClientDie(p)
        BY <4>3, <2>3, <1>a DEF ClientQuit, ClientDie, ClientEnd, TypeOK, history
      <4> QED BY <1>9, <4>1, <4>2, <4>3
    <3>2. SameMessages(q)
      BY <2>1, <3>1, QueueStays
    <3>3. (HasRequest(q)' <=> HasRequest(q)) /\ (Answering(q)' <=> Answering(q))
      BY <2>1 DEF HasRequest, Answering
    <3> QED BY <2>1, <3>1, <3>2, <3>3, <1>a, ResultFrame
  <2> QED BY <2>2, <2>3
<1>10. ASSUME NEW p \in Pids, ClientSend(p)
       PROVE  PartsMakeResult(q)'
  <2>1. /\ UNCHANGED <<spc, cmd, resp, seen, db, cq, creq, cres, answer>>
        /\ sq' = Append(sq, [client_pid |-> p, req |-> creq[p]])
        /\ cpc' = [cpc EXCEPT ![p] = "recv"] /\ cpc[p] = "send"
    BY <1>10 DEF ClientSend, serverVars, history
  <2>2. [client_pid |-> p, req |-> creq[p]] \in Commands
    BY <2>1 DEF Commands, QueueInv, ClientHasQueues, Waiting
  <2>3. /\ Len(sq') = Len(sq) + 1
        /\ sq'[Len(sq) + 1] = [client_pid |-> p, req |-> creq[p]]
        /\ \A i \in 1 .. Len(sq) : sq'[i] = sq[i]
    BY <2>1, <2>2, <1>c, AppendFacts
  <2>4. Answering(q)' <=> Answering(q)
    BY <2>1 DEF Answering
  <2>5. MessagesFor(q)' = MessagesFor(q)
    BY <2>1 DEF MessagesFor
  <2>6. CASE q = p
    <3>1. MessagesFor(q) = {} /\ ~HasRequest(q) /\ cres[q] = {}
      BY <2>1, <2>6, <1>a DEF AnswersOf, HistoryOf
    <3>2. ~Answering(q)'
      BY <2>4, <3>1, <1>d
    <3> QED BY <2>1, <2>5, <3>1, <3>2 DEF PartsMakeResult
  <2>7. CASE q # p
    <3>1. HasRequest(q)' => HasRequest(q)
      BY <2>1, <2>3, <2>7, <1>c DEF HasRequest
    <3>2. SameMessages(q) /\ cpc'[q] = cpc[q]
      BY <2>1, <2>7, <1>a, QueueStays DEF TypeOK
    <3> QED BY <2>1, <2>4, <3>1, <3>2, <1>a, ResultFrame
  <2> QED BY <2>6, <2>7
<1>11. ASSUME NEW p \in Pids, ClientRecv(p)
       PROVE  PartsMakeResult(q)'
  <2>1. PICK i \in 1 .. Len(cq) :
          /\ IsFirstFor(p, i)
          /\ cq' = SubSeq(cq, 1, i - 1) \o SubSeq(cq, i + 1, Len(cq))
          /\ \/ EndCall(p)
             \/ cres' = [cres EXCEPT ![p] = @ \cup {cq[i].msg.data}]
                /\ UNCHANGED <<cpc, creq, answer>>
    BY <1>11 DEF ClientRecv, history
  <2>2. UNCHANGED <<spc, cmd, resp, seen, db, sq>>
    BY <1>11 DEF ClientRecv, serverVars
  <2>3. cq' \in Seq(Slots) /\ IsRest(cq', cq, i)
    <3>1. IsRest(cq', cq, i)
      <4>1. /\ Len(cq') = Len(cq) - 1
            /\ \A j \in 1 .. Len(cq') : cq'[j] = IF j < i THEN cq[j] ELSE cq[j + 1]
        <5>1. cq \in Seq(Slots)
          BY <1>c
        <5>2. cq' = SubSeq(cq, 1, i - 1) \o SubSeq(cq, i + 1, Len(cq))
          BY <2>1
        <5> QED BY <5>1, <5>2, RemoveFacts, ZenonT(30)
      <4> QED BY <4>1 DEF IsRest
    <3>2. cq' \in Seq(Slots)
      BY QueueStep DEF QueueInv, TypeOK, Slots
    <3> QED BY <3>1, <3>2
  <2>4. (HasRequest(q)' <=> HasRequest(q)) /\ (Answering(q)' <=> Answering(q))
    BY <2>2 DEF HasRequest, Answering
  <2>5. CASE q = p /\ EndCall(p)
    <3>1. cpc'[q] = "ready"
      BY <2>5, <1>a DEF EndCall, TypeOK
    <3> QED BY <3>1 DEF PartsMakeResult
  <2>6. CASE q # p
    <3>1. UNCHANGED <<cpc[q], creq[q], cres[q], answer[q]>>
      BY <2>1, <2>6, <1>a DEF EndCall, TypeOK
    <3>2. SameMessages(q)
      BY <1>c, <2>1, <2>3, <2>6, <3>1, TakenFromQueue DEF IsFirstFor
    <3> QED BY <2>2, <2>4, <3>1, <3>2, <1>a, ResultFrame
  <2>7. CASE q = p /\ ~EndCall(p)
    <3>1. cres'[q] = cres[q] \cup {cq[i].msg.data} /\ UNCHANGED <<cpc, creq, answer>>
      BY <2>1, <2>7, <1>a DEF TypeOK
    <3>2. SameMessages(q)
      BY <1>c, <2>1, <2>3, <2>7, <3>1, TakenFromQueue
    <3>3. cpc[q] = "recv" /\ i \in MessagesFor(q)
      BY <1>11, <2>1, <2>7 DEF ClientRecv, IsFirstFor, MessagesFor
    <3>4. ~(HasRequest(q) /\ ~Answering(q))
      BY <3>3, <1>a DEF PartsMakeResult
    <3> QED BY <2>2, <2>4, <3>1, <3>2, <3>4, <1>a, ResultFrame
  <2> QED BY <2>5, <2>6, <2>7
<1>12. CASE UNCHANGED vars
  BY <1>12, <1>1 DEF vars, serverVars, queueVars, clientVars, history
<1> QED
  BY <1>2, <1>3, <1>4, <1>5, <1>6, <1>7, <1>8, <1>9, <1>10, <1>11, <1>12
  DEF Next, ServerStep, ClientStep, UserStep

LEMMA ResultStep ==
  ASSUME ~MayReuse, ~MaySignal, QueueInv, CallInv, HistoryInv, ResultInv, [Next]_vars
  PROVE  ResultInv'
BY PartsStep DEF ResultInv

(***************************************************************************)
(* The calls implement CdService.                                          *)
(***************************************************************************)

LEMMA ServiceData ==
  /\ Service!EmptyDb = EmptyDb
  /\ Service!Requests = Requests
  /\ \A d, r : Service!Outcomes(d, r) = Outcomes(d, r)
<1>1. Service!EmptyDb = EmptyDb
  BY DEF Service!EmptyDb, EmptyDb
<1>2. Service!Requests = Requests
  BY DEF Service!Requests, Requests
<1>3. \A d, r : Service!Outcomes(d, r) = Outcomes(d, r)
  BY DEF Outcomes, get_cdc_entry, get_cdt_entry, add_cdc_entry, add_cdt_entry, del_cdc_entry,
     del_cdt_entry, search_cdc_entry, Matching, Outcome, Done, Failed,
     Service!Outcomes, Service!get_cdc_entry, Service!get_cdt_entry, Service!add_cdc_entry,
     Service!add_cdt_entry, Service!del_cdc_entry, Service!del_cdt_entry,
     Service!search_cdc_entry, Service!Matching, Service!Outcome, Service!Done,
     Service!Failed
<1> QED BY <1>1, <1>2, <1>3

\* A step that executes nothing, returns nothing and adds no request abandons
\* the calls whose requests it loses, if any.
LEMMA AbandonStep ==
  ASSUME UNCHANGED <<db, got, answer>>,
         \A p \in Pids : HasRequest(p)' => HasRequest(p),
         \A p \in Pids : creq'[p] = creq[p] \/ (answer[p] = None /\ ~HasRequest(p))
  PROVE  Service!Abandon
<1> DEFINE Q == {p \in Pids : answer[p] = None /\ ~HasRequest(p)'}
<1>1. callOf' = [p \in Pids |-> IF p \in Q THEN Service!Idle ELSE callOf[p]]
  <2>1. ASSUME NEW p \in Pids, p \in Q
        PROVE  callOf'[p] = Service!Idle
    BY <2>1 DEF callOf, Service!Idle
  <2>2. ASSUME NEW p \in Pids, p \notin Q
        PROVE  callOf'[p] = callOf[p]
    <3>1. /\ answer[p] # None \/ (answer[p] = None /\ HasRequest(p)' /\ HasRequest(p))
          /\ creq'[p] = creq[p]
      BY <2>2
    <3> QED BY <3>1 DEF callOf
  <2>3. callOf' = [p \in Pids |-> callOf'[p]]
    BY DEF callOf
  <2> HIDE DEF Q
  <2> QED BY <2>1, <2>2, <2>3
<1>2. Q \in SUBSET Pids
  OBVIOUS
<1> QED BY <1>1, <1>2 DEF Service!Abandon

\* The initial states.
LEMMA ServiceInit == Init => Service!Init
<1> SUFFICES ASSUME Init
             PROVE  /\ db = Service!EmptyDb
                    /\ callOf = [p \in Pids |-> Service!Idle]
                    /\ got = [p \in Pids |-> None]
  BY DEF Service!Init
<1>1. \A p \in Pids : answer[p] = None /\ ~HasRequest(p)
  BY DEF Init, HasRequest
<1>2. callOf = [p \in Pids |-> Service!Idle]
  BY <1>1 DEF callOf, Service!Idle
<1> QED BY <1>2, ServiceData DEF Init

\* A read leaves the call as it is, or returns the result of its execution.
LEMMA ReturnStep ==
  ASSUME QueueInv, CallInv, ResultInv, NEW p \in Pids, ClientRecv(p)
  PROVE  \/ UNCHANGED <<creq, answer, got>>
         \/ /\ creq' = [creq EXCEPT ![p] = None]
            /\ answer' = [answer EXCEPT ![p] = None]
            /\ got' = [got EXCEPT ![p] = answer[p]]
            /\ answer[p] # None /\ ~HasRequest(p)
<1>1. PICK i \in 1 .. Len(cq) :
        /\ IsFirstFor(p, i)
        /\ \/ /\ IsLast(creq[p], cq[i].msg) /\ EndCall(p)
              /\ Returns(p, [response |-> cq[i].msg.response, data |-> cq[i].msg.data,
                             found |-> cres[p]])
           \/ UNCHANGED <<creq, history>>
  BY DEF ClientRecv
<1>2. /\ cpc[p] = "recv" /\ TypeOK /\ AnswersOf(p) /\ PartsMakeResult(p)
      /\ i \in MessagesFor(p)
  BY <1>1, CallParts DEF ClientRecv, QueueInv, ResultInv, IsFirstFor, MessagesFor
<1>3. CASE UNCHANGED <<creq, history>>
  BY <1>3 DEF history
<1>4. CASE /\ IsLast(creq[p], cq[i].msg) /\ EndCall(p)
           /\ Returns(p, [response |-> cq[i].msg.response, data |-> cq[i].msg.data,
                          found |-> cres[p]])
  <2>1. FoundUpTo(p, i - 1) = cres[p]
    <3>1. \A j \in {k \in 1 .. Len(cq) : cq[k].msg_key = p /\ k <= i - 1} : FALSE
      BY <1>1, <1>2 DEF IsFirstFor, TypeOK
    <3>2. DataFor(cq, p, i - 1) = {}
      BY <3>1 DEF DataFor
    <3> QED BY <3>2 DEF FoundUpTo
  <2>2. answer[p] = ResultOf(cq[i].msg, cres[p])
    BY <1>2, <1>4, <2>1 DEF PartsMakeResult
  <2>3. answer[p] # None
    <3>1. cq[i].msg \in Messages /\ cres[p] \in SUBSET Data
      <4>1. cq \in Seq(Slots) /\ cres \in [Pids -> SUBSET Data]
        BY <1>2 DEF TypeOK, Slots
      <4>2. cq[i] \in Slots
        BY <4>1
      <4> QED BY <4>1, <4>2 DEF Slots
    <3>2. ASSUME NEW m \in Messages, NEW f \in SUBSET Data
          PROVE  ResultOf(m, f) \in Results
      BY DEF ResultOf, Results, Messages
    <3> QED BY <2>2, <3>1, <3>2, CdQueueAssumption
  <2>4. ~HasRequest(p)
    BY <1>2, <1>4 DEF AnswersOf
  <2> QED BY <1>4, <2>2, <2>3, <2>4 DEF EndCall, Returns, ResultOf
<1> QED BY <1>1, <1>3, <1>4

\* Every step of the server and its clients is a step of the service.
LEMMA ServiceStep ==
  ASSUME ~MayReuse, ~MaySignal, IInv, [Next]_vars
  PROVE  [Service!Next]_(Service!serviceVars)
<1> SUFFICES Service!Next \/ UNCHANGED <<db, callOf, got>>
  BY DEF Service!serviceVars
<1>a. /\ QueueInv /\ CallInv /\ HistoryInv /\ ResultInv /\ TypeOK
      /\ cmd # None <=> spc \in Serving
      /\ cmd # None => cmd.client_pid \in Pids /\ cmd.req \in Requests
      /\ sq \in Seq(Commands) /\ Len(sq) \in Nat
      /\ \A p \in Pids : AnswersOf(p) /\ HistoryOf(p) /\ ClientHasQueues(p)
  BY CommandType, CallParts DEF IInv, QueueInv, TypeOK, ServerInv, HistoryInv
<1>1. ASSUME UNCHANGED <<db, got, answer>>,
             \A p \in Pids : HasRequest(p)' => HasRequest(p),
             \A p \in Pids : creq'[p] = creq[p] \/ (answer[p] = None /\ ~HasRequest(p))
      PROVE  Service!Next
  BY <1>1, AbandonStep DEF Service!Next
<1>2. ASSUME UNCHANGED <<db, got, answer, creq, sq>>, cmd' = cmd \/ cmd' = None
      PROVE  Service!Next
  <2>1. \A p \in Pids : HasRequest(p)' => HasRequest(p)
    BY <1>2 DEF HasRequest
  <2> QED BY <1>1, <1>2, <2>1
<1>3. CASE ServerStart
  <2>1. /\ UNCHANGED <<got, answer, creq, cmd, sq>>
        /\ db' = db \/ db' = EmptyDb
    BY <1>3 DEF ServerStart, queueVars, clientVars, history
  <2>2. UNCHANGED callOf
    BY <2>1 DEF callOf, HasRequest
  <2> QED BY <2>1, <2>2, ServiceData DEF Service!Next, Service!Recreate
<1>4. CASE ServerRead
  <2>1. /\ cmd = None /\ cmd' = sq[1] /\ sq # <<>> /\ sq' = Tail(sq)
        /\ UNCHANGED <<db, got, answer, creq>>
    BY <1>4, <1>a, TailFacts DEF ServerRead, clientVars, history, Serving
  <2>2. /\ 1 \in 1 .. Len(sq)
        /\ \A i \in 1 .. Len(sq') : sq'[i] = sq[i + 1] /\ i + 1 \in 1 .. Len(sq)
    BY <2>1, <1>a, TailFacts
  <2>3. \A p \in Pids : HasRequest(p)' => HasRequest(p)
    BY <2>1, <2>2 DEF HasRequest
  <2> QED BY <2>1, <2>3, <1>1
<1>5. CASE ServerExec
  <2> DEFINE p == cmd.client_pid
  <2>1. /\ UNCHANGED <<cmd, sq, creq, got>> /\ spc = "exec" /\ cmd # None
        /\ p \in Pids /\ cmd.req \in Requests
    BY <1>5, <1>a DEF ServerExec, queueVars, clientVars, Serving
  <2>2. PICK o \in Outcomes(db, cmd.req) :
          db' = o.db /\ answer' = [answer EXCEPT ![p] = o.result]
    BY <1>5 DEF ServerExec
  <2>3. o.result # None
    BY <2>1, <1>a, OutcomesType, CdQueueAssumption DEF TypeOK
  <2>4. /\ HasRequest(p) /\ creq[p] = cmd.req
        /\ \A x \in Pids : HasRequest(x)' <=> HasRequest(x)
    BY <2>1, <1>a DEF HasRequest, CallInv, CallOf
  <2>5. answer[p] = None
    <3>1. ~Answering(p)
      BY <2>1 DEF Answering, Sending
    <3> QED BY <2>1, <2>4, <3>1, <1>a DEF HistoryOf
  <2> HIDE DEF p
  <2>6. callOf[p] = Service!Pending(cmd.req)
    BY <2>1, <2>4, <2>5 DEF callOf, Service!Pending
  <2>7. callOf' = [callOf EXCEPT ![p] = Service!Executed(cmd.req, o.result)]
    <3>1. ASSUME NEW x \in Pids \ {p}
          PROVE  callOf'[x] = callOf[x]
      BY <2>1, <2>2, <2>4, <1>a DEF callOf, TypeOK
    <3>2. callOf'[p] = Service!Executed(cmd.req, o.result)
      BY <2>1, <2>2, <2>3, <2>4, <1>a DEF callOf, TypeOK, Service!Executed
    <3>3. callOf' = [x \in Pids |-> callOf'[x]] /\ callOf = [x \in Pids |-> callOf[x]]
      BY DEF callOf
    <3> QED BY <2>1, <3>1, <3>2, <3>3
  <2>8. Service!Execute(p)
    <3>1. callOf[p].at = "pending" /\ callOf[p].req = cmd.req
      BY <2>6 DEF Service!Pending
    <3>2. o \in Service!Outcomes(db, callOf[p].req)
      BY <3>1, ServiceData
    <3>3. callOf' = [callOf EXCEPT ![p] = Service!Executed(callOf[p].req, o.result)]
      BY <2>7, <3>1
    <3> QED BY <2>1, <2>2, <3>1, <3>2, <3>3 DEF Service!Execute
  <2> QED BY <2>1, <2>8 DEF Service!Next
<1>6. ASSUME NEW p \in Pids, ClientSend(p)
      PROVE  Service!Next
  <2>1. /\ UNCHANGED <<cmd, answer, db, got, creq>> /\ cpc[p] = "send"
        /\ sq' = Append(sq, [client_pid |-> p, req |-> creq[p]])
    BY <1>6 DEF ClientSend, serverVars, history
  <2>2. creq[p] \in Ops
    BY <2>1, <1>a DEF ClientHasQueues, Waiting
  <2>3. /\ Len(sq') = Len(sq) + 1
        /\ sq'[Len(sq) + 1] = [client_pid |-> p, req |-> creq[p]]
        /\ \A i \in 1 .. Len(sq) : sq'[i] = sq[i]
    <3>1. [client_pid |-> p, req |-> creq[p]] \in Commands
      BY <2>2 DEF Commands
    <3> QED BY <2>1, <3>1, <1>a, AppendFacts
  <2>4. answer[p] = None /\ ~HasRequest(p) /\ HasRequest(p)'
    <3>1. Len(sq) + 1 \in 1 .. Len(sq')
      BY <2>3, <1>a
    <3>2. answer[p] = None /\ ~HasRequest(p)
      BY <2>1, <1>a DEF HistoryOf, AnswersOf
    <3> QED BY <2>3, <3>1, <3>2 DEF HasRequest
  <2>5. callOf[p] = Service!Idle
    BY <2>4 DEF callOf, Service!Idle
  <2>6. callOf' = [callOf EXCEPT ![p] = Service!Pending(creq[p])]
    <3>1. ASSUME NEW x \in Pids \ {p}
          PROVE  callOf'[x] = callOf[x]
      <4>1. HasRequest(x)' <=> HasRequest(x)
        BY <2>1, <2>3, <1>a DEF HasRequest
      <4> QED BY <2>1, <4>1 DEF callOf
    <3>2. callOf'[p] = Service!Pending(creq[p])
      BY <2>1, <2>4 DEF callOf, Service!Pending
    <3>3. callOf' = [x \in Pids |-> callOf'[x]] /\ callOf = [x \in Pids |-> callOf[x]]
      BY DEF callOf
    <3> QED BY <3>1, <3>2, <3>3
  <2>7. creq[p] \in Requests
    BY <2>2, CdQueueAssumption
  <2>8. Service!Invoke(p)
    BY <2>1, <2>5, <2>6, <2>7, ServiceData DEF Service!Invoke
  <2> QED BY <2>8 DEF Service!Next
<1>7. ASSUME NEW p \in Pids, ClientRecv(p)
      PROVE  Service!Next
  <2>1. /\ UNCHANGED <<cmd, sq, db>>
        /\ \A x \in Pids : HasRequest(x)' <=> HasRequest(x)
    BY <1>7 DEF ClientRecv, serverVars, HasRequest
  <2>2. CASE UNCHANGED <<creq, answer, got>>
    BY <2>1, <2>2, <1>2
  <2>3. CASE /\ creq' = [creq EXCEPT ![p] = None]
             /\ answer' = [answer EXCEPT ![p] = None]
             /\ got' = [got EXCEPT ![p] = answer[p]]
             /\ answer[p] # None /\ ~HasRequest(p)
    <3>1. callOf[p] = Service!Executed(creq[p], answer[p])
      BY <2>3 DEF callOf, Service!Executed
    <3>2. callOf' = [callOf EXCEPT ![p] = Service!Idle]
      <4>1. ASSUME NEW x \in Pids \ {p}
            PROVE  callOf'[x] = callOf[x]
        BY <2>1, <2>3, <1>a DEF callOf, TypeOK
      <4>2. callOf'[p] = Service!Idle
        BY <2>1, <2>3, <1>a DEF callOf, TypeOK, Service!Idle
      <4>3. callOf' = [x \in Pids |-> callOf'[x]] /\ callOf = [x \in Pids |-> callOf[x]]
        BY DEF callOf
      <4> QED BY <4>1, <4>2, <4>3
    <3>3. Service!Return(p)
      BY <2>1, <2>3, <3>1, <3>2 DEF Service!Return, Service!Executed
    <3> QED BY <3>3 DEF Service!Next
  <2> QED BY <2>2, <2>3, <1>7, <1>a, ReturnStep
<1>8. CASE \/ ServerGetRequests \/ ServerGetReplies \/ ServerLoop \/ ServerSendMatch
           \/ ServerEndSearch \/ ServerSpin \/ ServerReply \/ ServerCrash
  BY <1>8, <1>2 DEF ServerGetRequests, ServerGetReplies, ServerLoop, ServerSendMatch,
     ServerEndSearch, ServerSpin, ServerReply, ServerCrash, Finish, queueVars, clientVars,
     history
<1>9. CASE ServerRemoveRequests \/ ServerRemoveReplies \/ Signal
  BY <1>9, <1>a DEF ServerRemoveRequests, ServerRemoveReplies, Signal, HistoryInv
<1>10. ASSUME NEW p \in Pids, ClientStart(p) \/ ClientCall(p)
       PROVE  Service!Next
  <2>1. /\ UNCHANGED <<cmd, sq, db, got>> /\ cpc[p] \in {"off", "ready"}
        /\ answer' = answer \/ answer' = [answer EXCEPT ![p] = None]
        /\ \A x \in Pids \ {p} : creq'[x] = creq[x]
    BY <1>10, <1>a DEF ClientStart, ClientCall, serverVars, queueVars, history, TypeOK
  <2>2. answer[p] = None /\ ~HasRequest(p)
    BY <2>1, <1>a DEF HistoryOf, AnswersOf
  <2>3. answer' = answer
    BY <2>1, <2>2, <1>a DEF TypeOK
  <2>4. \A x \in Pids : HasRequest(x)' <=> HasRequest(x)
    BY <2>1 DEF HasRequest
  <2> QED BY <2>1, <2>2, <2>3, <2>4, <1>1
<1>11. ASSUME NEW p \in Pids, ClientStarted(p) \/ ClientQuit(p) \/ ClientDie(p)
       PROVE  Service!Next
  BY <1>11, <1>2 DEF ClientStarted, ClientQuit, ClientDie, ClientEnd, serverVars, queueVars,
     history
<1>12. ASSUME NEW p \in Pids, ClientSendFails(p) \/ ClientRecvFails(p)
       PROVE  FALSE
  BY <1>12, <1>a DEF ClientSendFails, ClientRecvFails, HistoryOf, ClientHasQueues, Waiting
<1>13. CASE UNCHANGED vars
  BY <1>13, <1>2 DEF vars, serverVars, queueVars, clientVars, history
<1> QED
  BY <1>3, <1>4, <1>5, <1>6, <1>7, <1>8, <1>9, <1>10, <1>11, <1>12, <1>13
  DEF Next, ServerStep, ClientStep, UserStep

\* What a call returns is the result of its execution.
LEMMA OwnStep ==
  ASSUME ~MayReuse, ~MaySignal, IInv, [Next]_vars, NEW p \in Pids, got'[p] # got[p]
  PROVE  got'[p] = answer[p]
<1>a. /\ QueueInv /\ CallInv /\ HistoryInv /\ ResultInv /\ TypeOK
      /\ \A q \in Pids : HistoryOf(q) /\ ClientHasQueues(q)
  BY DEF IInv, QueueInv, HistoryInv
<1>1. ASSUME NEW q \in Pids, ClientRecv(q)
      PROVE  got'[p] = answer[p]
  BY <1>1, <1>a, ReturnStep DEF TypeOK
<1>2. ASSUME NEW q \in Pids, ClientRecvFails(q)
      PROVE  FALSE
  BY <1>2, <1>a DEF ClientRecvFails, HistoryOf, ClientHasQueues, Waiting
<1>3. CASE ~\E q \in Pids : ClientRecv(q) \/ ClientRecvFails(q)
  <2>1. got' = got
    BY <1>3 DEF Next, ServerStep, ClientStep, UserStep, vars, ServerStart, ServerGetRequests,
       ServerGetReplies, ServerLoop, ServerRead, ServerExec, ServerSendMatch, ServerEndSearch,
       ServerSpin, ServerReply, ServerRemoveRequests, ServerRemoveReplies, ServerCrash, Signal,
       ClientStart, ClientStarted, ClientCall, ClientSend, ClientSendFails, ClientQuit,
       ClientDie, ClientEnd, history
  <2> QED BY <2>1
<1> QED BY <1>1, <1>2, <1>3

(***************************************************************************)
(* The theorems.                                                           *)
(***************************************************************************)

\* The inductive invariant holds for any clients, any requests and queues of
\* any size.
THEOREM Invariance == Spec => []IInv
<1>1. Init => IInv
  BY QueueInit, CallInit, HistoryInit, ResultInit DEF IInv
<1>2. IInv /\ [Next]_vars => IInv'
  BY QueueStep, CallStep, HistoryStep, ResultStep DEF IInv
<1> QED BY <1>1, <1>2, PTL DEF Spec

\* Types, places and identifiers, with signals, crashes, deaths, restarts and
\* pids used again; after server_ending nothing is left of the queues.
THEOREM QueuesFollowTheServer == Spec => []QueueInv
<1>1. IInv => QueueInv
  BY DEF IInv
<1> QED BY <1>1, Invariance, PTL

\* ipc_imp.c needs no request number: as long as no pid is used twice, every
\* message for a pid belongs to the one call this client is in.
THEOREM PidIdentifiesCall ==
  ASSUME ~MayReuse
  PROVE  Spec => []OneAnswerPerCall
<1>1. IInv => OneAnswerPerCall
  BY DEF IInv, CallInv
<1> QED BY <1>1, Invariance, PTL

\* The server, its clients and the queues implement CdService, with crashes,
\* deaths and restarts, if no pid is used twice and no signal ends the server
\* (which removes the queues under the clients that wait).
THEOREM QueuesImplementService ==
  ASSUME ~MayReuse, ~MaySignal
  PROVE  Spec => ServiceSpec
<1>1. Init => Service!Init
  BY ServiceInit
<1>2. IInv /\ [Next]_vars => [Service!Next]_(Service!serviceVars)
  BY ServiceStep
<1> QED BY <1>1, <1>2, Invariance, PTL DEF Spec, ServiceSpec, Service!Spec

\* read_resp_from_server: a call returns the result of its own execution, under
\* the same hypotheses.
THEOREM CallsReturnOwnResult ==
  ASSUME ~MayReuse, ~MaySignal
  PROVE  Spec => OwnAnswers
<1>1. IInv /\ [Next]_vars => [\A p \in Pids : got'[p] # got[p] => got'[p] = answer[p]]_vars
  BY OwnStep
<1> QED BY <1>1, Invariance, PTL DEF Spec, OwnAnswers

==============================================================================
