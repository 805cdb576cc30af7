----------------------------- MODULE CdPipeProofs -----------------------------
(* Theorems about CdPipe for any clients, requests, bounds and faults.       *)
EXTENDS CdPipe, CdDbmProofs

(***************************************************************************)
(* Type correctness.                                                       *)
(***************************************************************************)

\* The parts of a command.
LEMMA CommandType ==
  ASSUME NEW x \in Commands
  PROVE  /\ x.client_pid \in Pids /\ x.req \in Ops /\ x.req \in Requests
         /\ x # None
BY CdPipeAssumption DEF Commands

\* What the server or the kernel puts into a client's pipe is a message.
LEMMA MessageType ==
  /\ \A m \in Messages : m.response \in ResponseCodes /\ m.data \in Data /\ m # None
  /\ \A x \in Results : [response |-> x.response, data |-> x.data] \in Messages
  /\ \A m \in Messages, f \in SUBSET Data :
       [response |-> m.response, data |-> m.data, found |-> f] \in Results
  /\ [response |-> "r_find_no_more", data |-> Absent] \in Messages
BY CdPipeAssumption DEF Messages, Results, ResponseCodes, Data

\* A match of a search in service, as a message.
LEMMA MatchType ==
  ASSUME TypeOK, cmd # None, IsFind(cmd.req), NEW c \in Unsent
  PROVE  /\ c \in Catalogs
         /\ [response |-> "r_success", data |-> <<c, db.cdc[c]>>] \in Messages
<1>1. cmd.req \in Requests
  BY CommandType DEF TypeOK
<1>2. cmd.req.pattern \in Patterns
  BY <1>1 DEF Requests, IsFind
<1>3. c \in Catalogs /\ db.cdc[c] \in Titles
  BY <1>2, CdDbmAssumption DEF TypeOK, Unsent, Matching, Databases
<1> QED BY <1>3 DEF Messages, ResponseCodes, Data, Entries

\* An empty pipe.
LEMMA EmptyPipe == <<>> \in Seq(Commands) /\ <<>> \in Seq(Messages)
OBVIOUS

LEMMA TypeInit == Init => TypeOK
<1> SUFFICES ASSUME Init PROVE TypeOK
  OBVIOUS
<1>1. starts \in 0 .. MaxStarts /\ sname \in 0 .. starts /\ sfd \in {0, starts}
      /\ csfd \in [Pids -> 0 .. starts]
  BY CdPipeAssumption DEF Init
<1>2. cpc \in [Pids -> CPc] /\ spc \in SPc
  BY DEF Init, CPc, SPc
<1>3. cbuf \in [Pids -> Seq(Messages)] /\ sbuf \in Seq(Commands)
  BY EmptyPipe DEF Init
<1> QED BY <1>1, <1>2, <1>3, EmptyDbType DEF Init, TypeOK

\* A message put into a client's pipe.
LEMMA AppendType ==
  ASSUME TypeOK, NEW p \in Pids, NEW m \in Messages
  PROVE  [cbuf EXCEPT ![p] = Append(@, m)] \in [Pids -> Seq(Messages)]
BY DEF TypeOK

LEMMA KillType ==
  ASSUME TypeOK, KillServer,
         UNCHANGED <<running, starts, db, sname, cname, clientVars, history>>
  PROVE  TypeOK'
BY EmptyPipe DEF KillServer, TypeOK, SPc, clientVars, history

LEMMA ExitType ==
  ASSUME TypeOK, NEW p \in Pids, NEW how \in {"gone", "dead"}, ClientExit(p, how),
         cname' \in [Pids -> BOOLEAN], UNCHANGED creq
  PROVE  TypeOK'
<1>1. UNCHANGED <<spc, running, starts, sfd, cmd, resp, seen, cfd, db, sname,
                  creq, answer, got>>
  BY DEF ClientExit, serverVars, history
<1>2. cpc' \in [Pids -> CPc]
  BY DEF ClientExit, TypeOK, CPc
<1>3. csfd' \in [Pids -> 0 .. starts]
  BY DEF ClientExit, TypeOK
<1>4. sbuf' \in Seq(Commands) /\ cbuf' \in [Pids -> Seq(Messages)]
  BY EmptyPipe DEF ClientExit, TypeOK
<1>5. /\ crd' \in [Pids -> BOOLEAN]
      /\ cwr' \in [Pids -> BOOLEAN]
      /\ cres' \in [Pids -> SUBSET Data]
  BY DEF ClientExit, TypeOK
<1> QED BY <1>1, <1>2, <1>3, <1>4, <1>5 DEF TypeOK

LEMMA TypeStep == TypeOK /\ ServerInv /\ [Next]_vars => TypeOK'
<1> SUFFICES ASSUME TypeOK, ServerInv, [Next]_vars
             PROVE  TypeOK'
  OBVIOUS
<1> USE DEF TypeOK, SPc, CPc, serverVars, pipeVars, clientVars, history
<1>1. CASE ServerStart
  <2>1. starts' \in 0 .. MaxStarts /\ starts' = starts + 1 /\ sfd' = 0
    BY <1>1, CdPipeAssumption DEF ServerStart, ServerInv
  <2>2. sname' \in 0 .. starts' /\ csfd' \in [Pids -> 0 .. starts']
    BY <1>1, <2>1, CdPipeAssumption DEF ServerStart
  <2> QED BY <1>1, <2>1, <2>2, EmptyDbType DEF ServerStart
<1>2. CASE ServerMkfifo
  BY <1>2 DEF ServerMkfifo
<1>3. CASE ServerOpen
  BY <1>3 DEF ServerOpen, OpenServerPipe, ReleaseWriters, ServerInv, Down
<1>4. CASE ServerLoop
  BY <1>4 DEF ServerLoop
<1>5. CASE ServerRead
  <2>1. Head(sbuf) \in Commands /\ Tail(sbuf) \in Seq(Commands)
    BY <1>5 DEF ServerRead
  <2> QED BY <1>5, <2>1 DEF ServerRead
<1>6. CASE ServerReadEof
  BY <1>6 DEF ServerReadEof
<1>7. CASE ServerReopenClose
  BY <1>7 DEF ServerReopenClose
<1>8. CASE ServerReopen
  BY <1>8 DEF ServerReopen, OpenServerPipe, ReleaseWriters, ServerInv, Down
<1>9. CASE ServerConnect
  <2>1. cmd.client_pid \in Pids
    BY <1>9, CommandType DEF ServerConnect, ServerInv, Serving
  <2> QED BY <1>9, <2>1 DEF ServerConnect
<1>10. CASE ServerExec
  <2>1. cmd.client_pid \in Pids /\ cmd.req \in Requests
    BY <1>10, CommandType DEF ServerExec, ServerInv, Serving
  <2>2. \A o \in Outcomes(db, cmd.req) :
          /\ o.db \in Databases /\ o.result \in Results
          /\ [response |-> o.result.response, data |-> o.result.data] \in Messages
    BY <2>1, OutcomesType, MessageType
  <2> QED BY <1>10, <2>1, <2>2 DEF ServerExec
<1>11. CASE ServerSendMatch
  <2>1. cmd # None /\ IsFind(cmd.req) /\ cmd.client_pid \in Pids
    BY <1>11, CommandType DEF ServerSendMatch, ServerInv, Serving
  <2>2. \A c \in Unsent \ {Empty} :
          c \in Catalogs
          /\ [response |-> "r_success", data |-> <<c, db.cdc[c]>>] \in Messages
    BY <2>1, MatchType
  <2>3. CASE KillServer
    BY <1>11, <2>3, KillType DEF ServerSendMatch
  <2>4. CASE ~KillServer
    <3>0. PICK c \in Unsent \ {Empty} :
            /\ cbuf' = [cbuf EXCEPT ![cmd.client_pid] = Append(@,
                 [response |-> "r_success", data |-> <<c, db.cdc[c]>>])]
            /\ seen' = seen \cup {c}
      BY <1>11, <2>4 DEF ServerSendMatch
    <3>1. cbuf' \in [Pids -> Seq(Messages)] /\ seen' \subseteq Catalogs
      BY <2>1, <2>2, <3>0, AppendType
    <3>2. UNCHANGED <<spc, sfd, cfd, sbuf, cmd, resp, running, starts, db, sname,
                      cname, clientVars, history>>
      BY <1>11, <2>4 DEF ServerSendMatch
    <3> QED BY <3>1, <3>2
  <2> QED BY <2>3, <2>4
<1>12. CASE ServerEndSearch
  BY <1>12, MessageType DEF ServerEndSearch
<1>13. CASE ServerSpin
  BY <1>13 DEF ServerSpin
<1>14. CASE ServerReply
  <2>1. cmd.client_pid \in Pids /\ resp \in Messages
    BY <1>14, CommandType DEF ServerReply, ServerInv, Serving
  <2>2. CASE KillServer
    BY <1>14, <2>2, KillType DEF ServerReply
  <2>3. CASE ~KillServer
    <3>0. cbuf' = [cbuf EXCEPT ![cmd.client_pid] = Append(@, resp)]
      BY <1>14, <2>3 DEF ServerReply
    <3>1. cbuf' \in [Pids -> Seq(Messages)]
      BY <2>1, <3>0, AppendType
    <3> QED BY <1>14, <2>3, <3>1 DEF ServerReply
  <2> QED BY <2>2, <2>3
<1>15. CASE ServerClose
  BY <1>15 DEF ServerClose
<1>16. CASE ServerUnlink
  BY <1>16 DEF ServerUnlink
<1>17. CASE Signal
  <2>1. CASE InterruptSearch
    <3>1. cmd # None /\ IsFind(cmd.req)
      BY <2>1 DEF InterruptSearch, ServerInv, Serving
    <3>2. resp' \in Messages
      BY <2>1, <3>1, MatchType DEF InterruptSearch
    <3> QED BY <1>17, <2>1, <3>2 DEF Signal, InterruptSearch
  <2> QED BY <1>17, <2>1 DEF Signal, InterruptOpen, InterruptRead, InterruptConnect,
                     InterruptReply
<1>18. ASSUME NEW p \in Pids, ClientOpen(p)
       PROVE  TypeOK'
  BY <1>18 DEF ClientOpen
<1>19. ASSUME NEW p \in Pids, ClientMkfifo(p)
       PROVE  TypeOK'
  BY <1>19 DEF ClientMkfifo
<1>20. ASSUME NEW p \in Pids, ClientExit(p, "gone") \/ ClientExit(p, "dead"),
              cname' \in [Pids -> BOOLEAN], UNCHANGED creq
       PROVE  TypeOK'
  BY <1>20, ExitType
<1>21. ASSUME NEW p \in Pids, ClientSend(p)
       PROVE  TypeOK'
  <2>1. \A r \in Ops : [client_pid |-> p, req |-> r] \in Commands
    BY DEF Commands
  <2> QED BY <1>21, <2>1 DEF ClientSend
<1>22. ASSUME NEW p \in Pids, ClientOpenRead(p)
       PROVE  TypeOK'
  BY <1>22 DEF ClientOpenRead
<1>23. ASSUME NEW p \in Pids, ClientOpenWrite(p)
       PROVE  TypeOK'
  BY <1>23 DEF ClientOpenWrite
<1>24. ASSUME NEW p \in Pids, ClientRecv(p)
       PROVE  TypeOK'
  <2>1. cbuf[p] # <<>> => /\ Head(cbuf[p]) \in Messages
                          /\ Tail(cbuf[p]) \in Seq(Messages)
    OBVIOUS
  <2>2. CASE cbuf[p] # <<>> /\ ~IsLast(creq[p], Head(cbuf[p]))
    <3>1. Head(cbuf[p]).data \in Data
      BY <2>1, <2>2, MessageType
    <3>2. cres[p] \cup {Head(cbuf[p]).data} \in SUBSET Data
      BY <3>1
    <3>3. cres' = [cres EXCEPT ![p] = cres[p] \cup {Head(cbuf[p]).data}]
      BY <1>24, <2>2 DEF ClientRecv
    <3>4. cres' \in [Pids -> SUBSET Data]
      BY <3>2, <3>3
    <3>5. cbuf' \in [Pids -> Seq(Messages)]
      BY <1>24, <2>1, <2>2 DEF ClientRecv
    <3> QED BY <1>24, <2>2, <3>4, <3>5 DEF ClientRecv
  <2>3. CASE ~(cbuf[p] # <<>> /\ ~IsLast(creq[p], Head(cbuf[p])))
    <3>1. cbuf[p] # <<>> =>
            [response |-> Head(cbuf[p]).response, data |-> Head(cbuf[p]).data,
             found |-> cres[p]] \in Results
      BY <2>1, MessageType
    <3>0. got' = IF cbuf[p] = <<>> THEN got
                 ELSE [got EXCEPT ![p] =
                         [response |-> Head(cbuf[p]).response,
                          data |-> Head(cbuf[p]).data, found |-> cres[p]]]
      BY <1>24, <2>3 DEF ClientRecv
    <3>2. got' \in [Pids -> Results \cup {None}]
      BY <3>0, <3>1
    <3>3. creq' \in [Pids -> Ops \cup {None}]
          /\ answer' \in [Pids -> Results \cup {None}]
          /\ cres' \in [Pids -> SUBSET Data]
      BY <1>24, <2>3 DEF ClientRecv
    <3>4. cbuf' \in [Pids -> Seq(Messages)]
      BY <1>24, <2>1 DEF ClientRecv
    <3> QED BY <1>24, <2>3, <3>2, <3>3, <3>4 DEF ClientRecv
  <2> QED BY <2>2, <2>3
<1>25. CASE UNCHANGED vars
  BY <1>25 DEF vars
<1> QED
  BY <1>1, <1>2, <1>3, <1>4, <1>5, <1>6, <1>7, <1>8, <1>9, <1>10, <1>11, <1>12,
     <1>13, <1>14, <1>15, <1>16, <1>17, <1>18, <1>19, <1>20, <1>21, <1>22,
     <1>23, <1>24, <1>25
  DEF Next, ServerStep, ClientStep, UserStep, ClientQuit, ClientDie,
      ClientSendKilled

(***************************************************************************)
(* The server's variables follow its place.                                *)
(***************************************************************************)

LEMMA ServerInit == Init => ServerInv
BY DEF Init, ServerInv, Serving, Down

LEMMA ServerInvStep == TypeOK /\ ServerInv /\ [Next]_vars => ServerInv'
<1> SUFFICES ASSUME TypeOK, ServerInv, [Next]_vars
             PROVE  ServerInv'
  OBVIOUS
<1> USE DEF ServerInv, Serving, Down, serverVars, pipeVars
<1>1. CASE ServerStart
  BY <1>1 DEF ServerStart
<1>2. CASE ServerMkfifo
  BY <1>2 DEF ServerMkfifo
<1>3. CASE ServerOpen
  BY <1>3 DEF ServerOpen, OpenServerPipe
<1>4. CASE ServerLoop
  BY <1>4 DEF ServerLoop
<1>5. CASE ServerRead
  <2>1. cmd' # None
    BY <1>5, CommandType DEF ServerRead, TypeOK
  <2> QED BY <1>5, <2>1 DEF ServerRead
<1>6. CASE ServerReadEof
  BY <1>6 DEF ServerReadEof
<1>7. CASE ServerReopenClose
  BY <1>7 DEF ServerReopenClose
<1>8. CASE ServerReopen
  BY <1>8 DEF ServerReopen, OpenServerPipe
<1>9. CASE ServerConnect
  BY <1>9 DEF ServerConnect
<1>10. CASE ServerExec
  <2>1. cmd # None /\ cmd.req \in Requests
    BY <1>10, CommandType DEF ServerExec, TypeOK
  <2>2. \A o \in Outcomes(db, cmd.req) :
          [response |-> o.result.response, data |-> o.result.data] # None
    BY <2>1, OutcomesType, MessageType DEF TypeOK
  <2> QED BY <1>10, <2>2 DEF ServerExec
<1>11. CASE ServerSendMatch
  <2>1. CASE KillServer
    BY <1>11, <2>1 DEF ServerSendMatch, KillServer
  <2>2. CASE ~KillServer
    BY <1>11, <2>2 DEF ServerSendMatch
  <2> QED BY <2>1, <2>2
<1>12. CASE ServerEndSearch
  BY <1>12, MessageType DEF ServerEndSearch
<1>13. CASE ServerSpin
  BY <1>13 DEF ServerSpin
<1>14. CASE ServerReply
  <2>1. CASE KillServer
    BY <1>14, <2>1 DEF ServerReply, KillServer
  <2>2. CASE ~KillServer
    BY <1>14, <2>2 DEF ServerReply
  <2> QED BY <2>1, <2>2
<1>15. CASE ServerClose
  BY <1>15 DEF ServerClose
<1>16. CASE ServerUnlink
  BY <1>16 DEF ServerUnlink
<1>17. CASE Signal
  <2>1. CASE InterruptSearch
    <3>1. resp' # None
      BY <2>1, MatchType, MessageType DEF InterruptSearch
    <3> QED BY <1>17, <2>1, <3>1 DEF Signal, InterruptSearch
  <2>2. CASE InterruptOpen \/ InterruptRead
    BY <1>17, <2>2 DEF Signal, InterruptOpen, InterruptRead
  <2>3. CASE InterruptConnect \/ InterruptReply
    BY <1>17, <2>3 DEF Signal, InterruptConnect, InterruptReply
  <2> QED BY <1>17, <2>1, <2>2, <2>3 DEF Signal
<1>18. ASSUME NEW p \in Pids, ClientOpen(p)
       PROVE  ServerInv'
  BY <1>18 DEF ClientOpen
<1>19. ASSUME NEW p \in Pids, ClientOpenRead(p)
       PROVE  ServerInv'
  BY <1>19 DEF ClientOpenRead
<1>20. CASE UNCHANGED <<serverVars, sname>>
  BY <1>20
<1> QED
  BY <1>1, <1>2, <1>3, <1>4, <1>5, <1>6, <1>7, <1>8, <1>9, <1>10, <1>11, <1>12,
     <1>13, <1>14, <1>15, <1>16, <1>17, <1>18, <1>19, <1>20
  DEF Next, ServerStep, ClientStep, UserStep, vars, ClientMkfifo, ClientOpenWrite,
      ClientRecv, ClientSend, ClientSendKilled, ClientQuit, ClientDie, ClientExit

(***************************************************************************)
(* The clients' descriptors follow their places.                           *)
(***************************************************************************)

LEMMA ClientInit == Init => ClientInv
BY DEF Init, ClientInv, Waiting

LEMMA ClientInvStep ==
  TypeOK /\ ClientInv /\ [Next]_vars => ClientInv'
<1> SUFFICES ASSUME TypeOK, ClientInv, [Next]_vars
             PROVE  ClientInv'
  OBVIOUS
<1> USE DEF ClientInv, Waiting
<1>1. CASE ServerOpen \/ ServerReopen
  BY <1>1 DEF ServerOpen, ServerReopen, OpenServerPipe, ReleaseWriters, TypeOK,
              pipeVars
<1>2. CASE ServerConnect
  BY <1>2 DEF ServerConnect, TypeOK, pipeVars
<1>3. ASSUME NEW p \in Pids, ClientOpen(p)
      PROVE  ClientInv'
  BY <1>3 DEF ClientOpen, TypeOK, pipeVars
<1>4. ASSUME NEW p \in Pids, ClientMkfifo(p)
      PROVE  ClientInv'
  BY <1>4 DEF ClientMkfifo, TypeOK
<1>5. ASSUME NEW p \in Pids, ClientOpenRead(p)
      PROVE  ClientInv'
  BY <1>5 DEF ClientOpenRead, TypeOK, pipeVars
<1>6. ASSUME NEW p \in Pids, ClientOpenWrite(p)
      PROVE  ClientInv'
  BY <1>6 DEF ClientOpenWrite, TypeOK, pipeVars
<1>7. ASSUME NEW p \in Pids, ClientRecv(p)
      PROVE  ClientInv'
  BY <1>7 DEF ClientRecv, TypeOK
<1>8. ASSUME NEW p \in Pids, ClientSend(p)
      PROVE  ClientInv'
  BY <1>8 DEF ClientSend, TypeOK
<1>9. ASSUME NEW p \in Pids, ClientSendKilled(p) \/ ClientDie(p)
      PROVE  ClientInv'
  <2>1. /\ cpc' = [cpc EXCEPT ![p] = "dead"] /\ cname' = cname
        /\ crd' = [crd EXCEPT ![p] = FALSE] /\ cwr' = [cwr EXCEPT ![p] = FALSE]
    BY <1>9 DEF ClientSendKilled, ClientDie, ClientExit
  <2> QED BY <2>1 DEF TypeOK
<1>10. ASSUME NEW p \in Pids, ClientQuit(p)
       PROVE  ClientInv'
  <2>1. /\ cpc' = [cpc EXCEPT ![p] = "gone"]
        /\ cname' = [cname EXCEPT ![p] = FALSE]
        /\ crd' = [crd EXCEPT ![p] = FALSE] /\ cwr' = [cwr EXCEPT ![p] = FALSE]
    BY <1>10 DEF ClientQuit, ClientExit
  <2> QED BY <2>1 DEF TypeOK
<1>11. CASE \/ ServerStart \/ ServerMkfifo \/ ServerLoop \/ ServerRead
            \/ ServerReadEof \/ ServerReopenClose \/ ServerClose \/ ServerUnlink
  BY <1>11 DEF clientVars, pipeVars, ServerStart, ServerMkfifo, ServerLoop,
       ServerRead, ServerReadEof, ServerReopenClose, ServerClose, ServerUnlink
<1>12. CASE ServerExec \/ ServerEndSearch \/ ServerSpin \/ Signal
  BY <1>12 DEF clientVars, pipeVars, ServerExec, ServerEndSearch, ServerSpin,
       Signal
<1>13. CASE ServerSendMatch \/ ServerReply
  BY <1>13 DEF clientVars, ServerSendMatch, ServerReply
<1>14. CASE UNCHANGED vars
  BY <1>14 DEF vars, clientVars, pipeVars
<1> QED
  BY <1>1, <1>2, <1>3, <1>4, <1>5, <1>6, <1>7, <1>8, <1>9, <1>10, <1>11, <1>12,
     <1>13, <1>14
  DEF Next, ServerStep, ClientStep, UserStep

(***************************************************************************)
(* At most one request of a client is with the server.                     *)
(***************************************************************************)

\* The message that a client takes as the end of its call is the only one in
\* its pipe, and nothing of the call is left with the server.
LEMMA LastMessage ==
  ASSUME TypeOK, ClientInv, AnswerInv, NEW p \in Pids, ClientRecv(p)
  PROVE  /\ cbuf[p] \in Seq(Messages) /\ cbuf[p] # <<>>
         /\ IsLast(creq[p], Head(cbuf[p])) => Len(cbuf[p]) = 1 /\ ~HasRequest(p)
<1>1. cbuf[p] \in Seq(Messages) /\ cbuf[p] # <<>>
  BY DEF TypeOK, ClientInv, ClientRecv
<1>2. Head(cbuf[p]) = cbuf[p][1] /\ 1 \in 1 .. Len(cbuf[p])
  BY <1>1, TailFacts
<1> QED BY <1>1, <1>2 DEF AnswerInv, AnswerOf

LEMMA OneInit == Init => OneOutstanding
BY DEF Init, OneOutstanding

LEMMA OneStep == ProtocolInv /\ [Next]_vars => OneOutstanding'
<1> SUFFICES ASSUME ProtocolInv, [Next]_vars
             PROVE  OneOutstanding'
  OBVIOUS
<1> USE DEF ProtocolInv, OneOutstanding, Waiting
<1>a. /\ Len(sbuf) \in Nat
      /\ \A i \in 1 .. Len(sbuf) : sbuf[i] \in Commands /\ sbuf[i].client_pid \in Pids
  BY CommandType DEF TypeOK
<1>b. cmd # None => cmd.client_pid \in Pids
  BY CommandType DEF TypeOK
<1>1. CASE ServerOpen \/ ServerReopen
  <2>1. /\ sbuf' = sbuf /\ cmd' = cmd
        /\ \A p \in Pids : cpc[p] \in Waiting \cup {"dead"} => cpc'[p] = cpc[p]
    BY <1>1 DEF ServerOpen, ServerReopen, OpenServerPipe, ReleaseWriters, pipeVars
  <2> QED BY <2>1, <1>a, <1>b
<1>2. CASE ServerRead
  <2>1. /\ cmd' = sbuf[1] /\ 1 \in 1 .. Len(sbuf) /\ cpc' = cpc
        /\ \A i \in 1 .. Len(sbuf') :
             sbuf'[i] = sbuf[i + 1] /\ i + 1 \in 1 .. Len(sbuf) /\ i + 1 # 1
    BY <1>2, TailFacts DEF ServerRead, TypeOK, clientVars
  <2> QED BY <2>1
<1>3. CASE ServerConnect
  <2>1. /\ sbuf' = sbuf /\ (cmd' = cmd \/ cmd' = None) /\ cmd # None
        /\ \/ cpc' = cpc
           \/ cpc' = [cpc EXCEPT ![cmd.client_pid] = "openwrite"]
    BY <1>3 DEF ServerConnect, ServerInv, Serving, pipeVars
  <2> QED BY <2>1, <1>a, <1>b DEF TypeOK
<1>4. CASE KillServer
  BY <1>4 DEF KillServer
<1>5. CASE UNCHANGED <<cpc, sbuf>> /\ (cmd' = cmd \/ cmd' = None)
  BY <1>5
<1>6. CASE UNCHANGED <<cpc, cmd>> /\ sbuf' = <<>>
  BY <1>6
<1>7. ASSUME NEW p \in Pids, cpc[p] \notin Waiting \cup {"dead"}, NEW x,
             cpc' = [cpc EXCEPT ![p] = x], UNCHANGED cmd,
             sbuf' = sbuf \/ sbuf' = <<>>
      PROVE  OneOutstanding'
  BY <1>7, <1>a, <1>b DEF TypeOK
<1>8. ASSUME NEW p \in Pids, NEW x \in Waiting \cup {"dead"},
             cpc' = [cpc EXCEPT ![p] = x], UNCHANGED cmd,
             sbuf' = sbuf \/ sbuf' = <<>>
      PROVE  OneOutstanding'
  BY <1>8, <1>a, <1>b DEF TypeOK
<1>9. ASSUME NEW p \in Pids, ClientSend(p)
      PROVE  OneOutstanding'
  <2>1. PICK r \in Ops : sbuf' = Append(sbuf, [client_pid |-> p, req |-> r])
    BY <1>9 DEF ClientSend
  <2>2. [client_pid |-> p, req |-> r] \in Commands
    BY DEF Commands
  <2>3. /\ Len(sbuf') = Len(sbuf) + 1 /\ sbuf'[Len(sbuf) + 1].client_pid = p
        /\ \A i \in 1 .. Len(sbuf) : sbuf'[i] = sbuf[i]
    BY <2>1, <2>2, AppendFacts DEF TypeOK
  <2>4. /\ cmd' = cmd /\ cpc[p] \notin Waiting \cup {"dead"}
        /\ cpc'[p] \in Waiting
        /\ \A q \in Pids \ {p} : cpc'[q] = cpc[q]
    BY <1>9 DEF ClientSend, serverVars, TypeOK
  <2> QED BY <2>3, <2>4, <1>a, <1>b
<1>10. ASSUME NEW p \in Pids, ClientRecv(p)
       PROVE  OneOutstanding'
  <2>1. CASE IsLast(creq[p], Head(cbuf[p]))
    <3>1. ~HasRequest(p)
      BY <1>10, <2>1, LastMessage
    <3>2. cpc' = [cpc EXCEPT ![p] = "ready"] /\ cmd' = cmd /\ sbuf' = sbuf
      BY <1>10, <2>1 DEF ClientRecv, serverVars
    <3> QED BY <3>1, <3>2, <1>a, <1>b DEF HasRequest, TypeOK
  <2>2. CASE ~IsLast(creq[p], Head(cbuf[p]))
    <3>1. cpc' = cpc /\ cmd' = cmd /\ sbuf' = sbuf
      BY <1>10, <2>2, LastMessage DEF ClientRecv, serverVars
    <3> QED BY <3>1
  <2> QED BY <2>1, <2>2
<1>11. CASE \/ ServerStart \/ ServerMkfifo \/ ServerLoop \/ ServerReadEof
            \/ ServerUnlink \/ ServerExec \/ ServerEndSearch \/ ServerSpin
            \/ Signal
  <2>1. UNCHANGED <<cpc, sbuf>>
    BY <1>11 DEF clientVars, pipeVars, ServerStart, ServerMkfifo, ServerLoop,
         ServerReadEof, ServerUnlink, ServerExec, ServerEndSearch, ServerSpin,
         Signal
  <2>2. cmd' = cmd \/ cmd' = None
    BY <1>11 DEF ServerStart, ServerMkfifo, ServerLoop, ServerReadEof,
         ServerUnlink, ServerExec, ServerEndSearch, ServerSpin, Signal,
         InterruptOpen, InterruptRead, InterruptConnect, InterruptSearch,
         InterruptReply
  <2> QED BY <2>1, <2>2, <1>5
<1>12. CASE ServerReopenClose \/ ServerClose
  BY <1>12, <1>5, <1>6 DEF ServerReopenClose, ServerClose, clientVars
<1>13. CASE ServerSendMatch \/ ServerReply
  <2>1. CASE ~KillServer
    BY <1>13, <2>1, <1>5 DEF clientVars, ServerSendMatch, ServerReply
  <2> QED BY <1>4, <2>1
<1>14. ASSUME NEW p \in Pids,
              ClientOpen(p) \/ ClientMkfifo(p) \/ ClientQuit(p)
       PROVE  OneOutstanding'
  <2>1. cpc[p] \notin Waiting \cup {"dead"} /\ cmd' = cmd
    BY <1>14 DEF ClientOpen, ClientMkfifo, ClientQuit, ClientExit, serverVars
  <2>2. \E x : cpc' = [cpc EXCEPT ![p] = x]
    BY <1>14 DEF ClientOpen, ClientMkfifo, ClientQuit, ClientExit
  <2>3. sbuf' = sbuf \/ sbuf' = <<>>
    BY <1>14 DEF ClientOpen, ClientMkfifo, ClientQuit, ClientExit, pipeVars
  <2> QED BY <2>1, <2>2, <2>3, <1>7
<1>15. ASSUME NEW p \in Pids,
              \/ ClientOpenRead(p) \/ ClientOpenWrite(p)
              \/ ClientSendKilled(p) \/ ClientDie(p)
       PROVE  OneOutstanding'
  <2>1. \E x \in Waiting \cup {"dead"} : cpc' = [cpc EXCEPT ![p] = x]
    BY <1>15 DEF ClientOpenRead, ClientOpenWrite, ClientSendKilled, ClientDie,
                 ClientExit
  <2>2. cmd' = cmd /\ (sbuf' = sbuf \/ sbuf' = <<>>)
    BY <1>15 DEF ClientOpenRead, ClientOpenWrite, ClientSendKilled, ClientDie,
                 ClientExit, serverVars, pipeVars
  <2> QED BY <2>1, <2>2, <1>8
<1>16. CASE UNCHANGED vars
  BY <1>16 DEF vars, serverVars, clientVars, pipeVars
<1> QED
  BY <1>1, <1>2, <1>3, <1>9, <1>10, <1>11, <1>12, <1>13, <1>14, <1>15, <1>16
  DEF Next, ServerStep, ClientStep, UserStep

(***************************************************************************)
(* What is in a client's pipe belongs to the call in progress.             *)
(***************************************************************************)

LEMMA AnswerInit == Init => AnswerInv
BY DEF Init, AnswerInv, AnswerOf, HasRequest

LEMMA AnswerStep == ProtocolInv /\ [Next]_vars => AnswerInv'
<1> SUFFICES ASSUME ProtocolInv, [Next]_vars, NEW q \in Pids
             PROVE  AnswerOf(q)'
  BY DEF AnswerInv
<1> USE DEF AnswerOf, HasRequest, Waiting
<1>a. AnswerOf(q)
  BY DEF ProtocolInv, AnswerInv
<1>b. cbuf[q] \in Seq(Messages) /\ Len(cbuf[q]) \in Nat /\ Len(sbuf) \in Nat
  BY DEF ProtocolInv, TypeOK
<1>1. ASSUME cpc'[q] = cpc[q] \/ (cpc[q] \notin Waiting /\ cpc'[q] \notin Waiting)
             \/ (cpc[q] \in Waiting /\ cpc'[q] \in Waiting),
             cbuf'[q] = cbuf[q], creq'[q] = creq[q],
             cname'[q] = cname[q] \/ cname'[q],
             cmd' = cmd \/ cmd' = None,
             sbuf' = sbuf \/ sbuf' = <<>>
      PROVE  AnswerOf(q)'
  BY <1>a, <1>1
<1>2. CASE ServerOpen \/ ServerReopen
  BY <1>2, <1>1 DEF ServerOpen, ServerReopen, OpenServerPipe, ReleaseWriters,
                    pipeVars
<1>3. CASE ServerRead
  <2>1. /\ cmd = None /\ cmd' = sbuf[1] /\ 1 \in 1 .. Len(sbuf) /\ cpc' = cpc
        /\ creq' = creq /\ cbuf' = cbuf /\ cname' = cname
        /\ \A i \in 1 .. Len(sbuf') :
             sbuf'[i] = sbuf[i + 1] /\ i + 1 \in 1 .. Len(sbuf) /\ i + 1 # 1
    BY <1>3, TailFacts DEF ServerRead, ProtocolInv, TypeOK, clientVars, ServerInv, Serving
  <2>2. HasRequest(q)' => HasRequest(q)
    BY <2>1
  <2> QED BY <2>1, <2>2, <1>a
<1>4. CASE ServerConnect
  <2>1. /\ sbuf' = sbuf /\ (cmd' = cmd \/ cmd' = None) /\ creq' = creq
        /\ cbuf' = cbuf /\ cname' = cname
        /\ \/ cpc' = cpc
           \/ /\ cpc[cmd.client_pid] = "connectwait"
              /\ cpc' = [cpc EXCEPT ![cmd.client_pid] = "openwrite"]
    BY <1>4 DEF ServerConnect, pipeVars
  <2> QED BY <2>1, <1>1 DEF ProtocolInv, TypeOK
<1>5. CASE KillServer /\ UNCHANGED <<clientVars, cname>>
  BY <1>5, <1>1 DEF KillServer, clientVars
<1>6. CASE ServerSendMatch /\ ~KillServer
  <2> DEFINE p == cmd.client_pid
  <2>1. /\ cmd # None /\ p \in Pids /\ IsFind(cmd.req) /\ crd[p]
    BY <1>6, CommandType DEF ServerSendMatch, ProtocolInv, TypeOK, ServerInv, Serving
  <2>2. PICK c \in Unsent :
          cbuf' = [cbuf EXCEPT ![p] = Append(cbuf[p],
                     [response |-> "r_success", data |-> <<c, db.cdc[c]>>])]
    BY <1>6 DEF ServerSendMatch
  <2>3. UNCHANGED <<cmd, sbuf, cname, cpc, creq>>
    BY <1>6 DEF ServerSendMatch, clientVars
  <2>4. CASE q # p
    BY <2>1, <2>2, <2>3, <2>4, <1>1 DEF ProtocolInv, TypeOK
  <2>5. CASE q = p
    <3> DEFINE m == [response |-> "r_success", data |-> <<c, db.cdc[c]>>]
    <3>1. cbuf'[q] = Append(cbuf[q], m) /\ m \in Messages
      BY <2>1, <2>2, <2>5, MatchType DEF ProtocolInv, TypeOK
    <3>2. /\ Len(cbuf'[q]) = Len(cbuf[q]) + 1 /\ cbuf'[q][Len(cbuf[q]) + 1] = m
          /\ \A i \in 1 .. Len(cbuf[q]) : cbuf'[q][i] = cbuf[q][i]
      BY <3>1, <1>b, AppendFacts
    <3>3. ~IsLast(creq[q], m)
      BY <2>1, <2>5, <1>a DEF IsLast
    <3>4. cpc[q] \in Waiting
      BY <2>1, <2>5 DEF ProtocolInv, OneOutstanding, ClientInv
    <3>5. HasRequest(q)
      BY <2>1, <2>5
    <3>6. \A i \in 1 .. Len(cbuf'[q]) : ~IsLast(creq[q], cbuf'[q][i])
      BY <3>2, <3>3, <3>5, <1>a, <1>b
    <3> QED BY <2>3, <3>2, <3>4, <3>6, <1>a, <1>b
  <2> QED BY <2>4, <2>5
<1>7. CASE ServerReply /\ ~KillServer
  <2> DEFINE p == cmd.client_pid
  <2>1. /\ cmd # None /\ p \in Pids /\ crd[p] /\ resp \in Messages
    BY <1>7, CommandType DEF ServerReply, ProtocolInv, TypeOK, ServerInv, Serving
  <2>2. /\ cbuf' = [cbuf EXCEPT ![p] = Append(cbuf[p], resp)]
        /\ cmd' = None /\ UNCHANGED <<sbuf, cname, cpc, creq>>
    BY <1>7 DEF ServerReply, clientVars
  <2>3. CASE q # p
    BY <2>1, <2>2, <2>3, <1>1 DEF ProtocolInv, TypeOK
  <2>4. CASE q = p
    <3>1. cbuf'[q] = Append(cbuf[q], resp)
      BY <2>1, <2>2, <2>4 DEF ProtocolInv, TypeOK
    <3>2. /\ Len(cbuf'[q]) = Len(cbuf[q]) + 1
          /\ \A i \in 1 .. Len(cbuf[q]) : cbuf'[q][i] = cbuf[q][i]
      BY <2>1, <3>1, <1>b, AppendFacts
    <3>3. cpc[q] \in Waiting
      BY <2>1, <2>4 DEF ProtocolInv, OneOutstanding, ClientInv
    <3>4. HasRequest(q)
      BY <2>1, <2>4
    <3>5. ~HasRequest(q)'
      BY <2>1, <2>2, <2>4 DEF ProtocolInv, OneOutstanding
    <3>6. \A i \in 1 .. Len(cbuf'[q]) :
            IsLast(creq[q], cbuf'[q][i]) => i = Len(cbuf'[q])
      BY <3>2, <3>4, <1>a, <1>b
    <3> QED BY <2>2, <3>3, <3>4, <3>5, <3>6, <1>a, <1>b
  <2> QED BY <2>3, <2>4
<1>8. ASSUME NEW p \in Pids, ClientSend(p)
      PROVE  AnswerOf(q)'
  <2>1. PICK r \in Ops :
          /\ sbuf' = Append(sbuf, [client_pid |-> p, req |-> r])
          /\ creq' = [creq EXCEPT ![p] = r]
    BY <1>8 DEF ClientSend
  <2>2. /\ Len(sbuf') = Len(sbuf) + 1
        /\ sbuf'[Len(sbuf) + 1] = [client_pid |-> p, req |-> r]
        /\ \A i \in 1 .. Len(sbuf) : sbuf'[i] = sbuf[i]
    <3>1. [client_pid |-> p, req |-> r] \in Commands
      BY DEF Commands
    <3> QED BY <2>1, <3>1, AppendFacts DEF ProtocolInv, TypeOK
  <2>3. /\ UNCHANGED <<cmd, cbuf, cname>> /\ cpc[p] = "ready"
        /\ \A x \in Pids \ {p} : cpc'[x] = cpc[x]
    BY <1>8 DEF ClientSend, serverVars, ProtocolInv, TypeOK
  <2>4. CASE q = p
    <3>1. cbuf'[q] = <<>> /\ cname'[q] /\ creq'[q] = r
      BY <2>1, <2>3, <2>4, <1>a DEF ProtocolInv, TypeOK, ClientInv
    <3>2. /\ cmd # None => cmd.client_pid # q
          /\ \A i \in 1 .. Len(sbuf) : sbuf[i].client_pid # q
      BY <2>3, <2>4 DEF ProtocolInv, OneOutstanding
    <3> QED BY <2>2, <2>3, <2>4, <3>1, <3>2, <1>b
  <2>5. CASE q # p
    <3>1. creq'[q] = creq[q] /\ cpc'[q] = cpc[q]
      BY <2>1, <2>3, <2>5 DEF ProtocolInv, TypeOK
    <3>2. HasRequest(q)' <=> HasRequest(q)
      BY <2>2, <2>3, <2>5, <1>b
    <3> QED BY <2>2, <2>3, <2>5, <3>1, <3>2, <1>a, <1>b
  <2> QED BY <2>4, <2>5
<1>9. ASSUME NEW p \in Pids, ClientRecv(p)
      PROVE  AnswerOf(q)'
  <2>1. /\ UNCHANGED <<cmd, sbuf, cname>>
        /\ cbuf' = [cbuf EXCEPT ![p] = Tail(cbuf[p])]
        /\ cbuf[p] # <<>> /\ cbuf[p] \in Seq(Messages)
    BY <1>9, LastMessage DEF ClientRecv, serverVars, ProtocolInv
  <2>2. CASE q # p
    <3>1. UNCHANGED <<cpc[q], creq[q], cbuf[q]>>
      BY <1>9, <2>1, <2>2 DEF ClientRecv, ProtocolInv, TypeOK
    <3> QED BY <2>1, <3>1, <1>1
  <2>3. CASE q = p /\ IsLast(creq[p], Head(cbuf[p]))
    <3>1. Len(cbuf[p]) = 1 /\ ~HasRequest(q)
      BY <1>9, <2>3, LastMessage DEF ProtocolInv
    <3>2. Tail(cbuf[p]) = <<>>
      <4>1. Tail(cbuf[p]) \in Seq(Messages) /\ Len(Tail(cbuf[p])) = 0
        BY <2>1, <2>3, <3>1, TailFacts
      <4> QED BY <4>1, EmptySeq
    <3>3. cbuf'[q] = <<>>
      BY <2>1, <2>3, <3>2 DEF ProtocolInv, TypeOK
    <3> QED BY <2>1, <3>1, <3>3
  <2>4. CASE q = p /\ ~IsLast(creq[p], Head(cbuf[p]))
    <3>1. /\ UNCHANGED <<cpc, creq>> /\ cpc[q] \in Waiting
          /\ cbuf'[q] = Tail(cbuf[q])
      BY <1>9, <2>1, <2>4 DEF ClientRecv, ProtocolInv, TypeOK
    <3>2. /\ Len(Tail(cbuf[q])) = Len(cbuf[q]) - 1
          /\ \A i \in 1 .. Len(Tail(cbuf[q])) :
               Tail(cbuf[q])[i] = cbuf[q][i + 1] /\ i + 1 \in 1 .. Len(cbuf[q])
      <4>1. cbuf[q] \in Seq(Messages) /\ cbuf[q] # <<>>
        BY <2>1, <2>4
      <4> QED BY <4>1, TailFacts
    <3> QED BY <2>1, <3>1, <3>2, <1>a, <1>b
  <2> QED BY <2>2, <2>3, <2>4
<1>10. ASSUME NEW p \in Pids,
              \/ ClientExit(p, "dead") /\ cname' = cname
              \/ /\ ClientExit(p, "gone") /\ cpc[p] = "ready"
                 /\ cname' = [cname EXCEPT ![p] = FALSE],
              UNCHANGED creq
       PROVE  AnswerOf(q)'
  <2>1. /\ cmd' = cmd /\ (sbuf' = sbuf \/ sbuf' = <<>>)
        /\ cbuf' = [cbuf EXCEPT ![p] = <<>>]
        /\ cpc' = [cpc EXCEPT ![p] = "dead"] \/ cpc' = [cpc EXCEPT ![p] = "gone"]
    BY <1>10 DEF ClientExit, serverVars
  <2>2. CASE q # p
    BY <1>10, <2>1, <2>2, <1>1 DEF ProtocolInv, TypeOK
  <2>3. CASE q = p
    <3>1. cbuf'[q] = <<>>
      BY <2>1, <2>3 DEF ProtocolInv, TypeOK
    <3>2. HasRequest(q)' => HasRequest(q)
      BY <2>1
    <3>3. HasRequest(q)' => cname'[q]
      BY <1>10, <2>3, <3>2, <1>a DEF ProtocolInv, OneOutstanding
    <3> QED BY <1>10, <2>1, <3>1, <3>3, <1>a
  <2> QED BY <2>2, <2>3
<1>11. CASE \/ ServerStart \/ ServerMkfifo \/ ServerLoop \/ ServerReadEof
            \/ ServerUnlink \/ ServerExec \/ ServerEndSearch \/ ServerSpin
            \/ Signal \/ ServerReopenClose \/ ServerClose
  <2>1. UNCHANGED <<cpc, creq, cbuf, cname>>
    BY <1>11 DEF clientVars, pipeVars, ServerStart, ServerMkfifo, ServerLoop,
         ServerReadEof, ServerUnlink, ServerExec, ServerEndSearch, ServerSpin,
         Signal, ServerReopenClose, ServerClose
  <2>2. cmd' = cmd \/ cmd' = None
    BY <1>11 DEF ServerStart, ServerMkfifo, ServerLoop, ServerReadEof,
         ServerUnlink, ServerExec, ServerEndSearch, ServerSpin, Signal,
         InterruptOpen, InterruptRead, InterruptConnect, InterruptSearch,
         InterruptReply, ServerReopenClose, ServerClose
  <2>3. sbuf' = sbuf \/ sbuf' = <<>>
    BY <1>11 DEF pipeVars, ServerStart, ServerMkfifo, ServerLoop,
         ServerReadEof, ServerUnlink, ServerExec, ServerEndSearch, ServerSpin,
         Signal, ServerReopenClose, ServerClose
  <2> QED BY <2>1, <2>2, <2>3, <1>1
<1>12. ASSUME NEW p \in Pids,
              \/ ClientOpen(p) \/ ClientMkfifo(p) \/ ClientOpenRead(p)
              \/ ClientOpenWrite(p)
       PROVE  AnswerOf(q)'
  <2>1. /\ UNCHANGED <<cmd, sbuf, cbuf, creq>>
        /\ cname' = cname \/ cname' = [cname EXCEPT ![p] = TRUE]
    BY <1>12 DEF ClientOpen, ClientMkfifo, ClientOpenRead, ClientOpenWrite,
                 serverVars, pipeVars
  <2>2. \E x : /\ cpc' = [cpc EXCEPT ![p] = x]
               /\ x \in Waiting <=> cpc[p] \in Waiting
    BY <1>12 DEF ClientOpen, ClientMkfifo, ClientOpenRead, ClientOpenWrite
  <2> QED BY <2>1, <2>2, <1>1 DEF ProtocolInv, TypeOK
<1>13. CASE UNCHANGED vars
  BY <1>13, <1>1 DEF vars, serverVars, clientVars, pipeVars
<1>14. CASE ServerSendMatch \/ ServerReply
  BY <1>14, <1>5, <1>6, <1>7 DEF ServerSendMatch, ServerReply
<1> QED
  BY <1>2, <1>3, <1>4, <1>8, <1>9, <1>10, <1>11, <1>12, <1>13, <1>14
  DEF Next, ServerStep, ClientStep, UserStep, ClientQuit, ClientDie,
      ClientSendKilled

\* The inductive invariant of the protocol, without the history.
LEMMA ProtocolInit == Init => ProtocolInv
BY TypeInit, ServerInit, ClientInit, OneInit, AnswerInit DEF ProtocolInv

LEMMA ProtocolStep == ProtocolInv /\ [Next]_vars => ProtocolInv'
BY TypeStep, ServerInvStep, ClientInvStep, OneStep, AnswerStep DEF ProtocolInv

(***************************************************************************)
(* The history of a call follows its places.                               *)
(***************************************************************************)

LEMMA HistoryInit == Init => HistoryInv /\ KilledByDeadCall
BY DEF Init, HistoryInv, HistoryOf, HasRequest, Answering, KilledByDeadCall

LEMMA HistoryOfStep ==
  ASSUME ProtocolInv, HistoryInv, [Next]_vars, NEW q \in Pids
  PROVE  HistoryOf(q)'
<1> USE DEF HistoryOf, HasRequest, Answering, Waiting
<1>a. HistoryOf(q)
  BY DEF HistoryInv
<1>b. /\ cmd # None <=> spc \in Serving
      /\ cmd # None => cmd.client_pid \in Pids /\ cmd.req \in Requests
  BY CommandType DEF ProtocolInv, TypeOK, ServerInv
<1>c. HasRequest(q) => cpc[q] \in Waiting \cup {"dead"}
  BY DEF ProtocolInv, OneOutstanding
<1>d. Len(sbuf) \in Nat
  BY DEF ProtocolInv, TypeOK
<1>e. cmd # None /\ cmd.client_pid = q => \A i \in 1 .. Len(sbuf) : sbuf[i].client_pid # q
  BY DEF ProtocolInv, OneOutstanding
<1>1. ASSUME UNCHANGED <<cpc, crd, answer>>, sbuf' = sbuf \/ sbuf' = <<>>,
             \/ cmd' = None /\ spc' \notin Serving
             \/ cmd' = cmd /\ spc' = spc
             \/ cmd' = cmd /\ spc' \in {"search", "spin", "reply"}
                /\ spc \in {"search", "spin", "reply"}
             \/ cmd' = cmd /\ cmd = None /\ spc' \notin Serving
      PROVE  HistoryOf(q)'
  <2>1. HasRequest(q)' => HasRequest(q)
    BY <1>1
  <2>2. CASE cmd' = None /\ spc' \notin Serving
    BY <2>1, <2>2, <1>1, <1>a, <1>b, <1>e DEF Serving
  <2>3. CASE cmd' = cmd
    BY <2>1, <2>3, <1>1, <1>a, <1>b DEF Serving
  <2> QED BY <1>1, <2>2, <2>3
<1>2. ASSUME UNCHANGED <<answer, cmd>>, sbuf' = sbuf \/ sbuf' = <<>>,
             spc' = spc \/ (spc \notin Serving /\ spc' \notin Serving),
             crd'[q] = crd[q] \/ crd'[q],
             cpc'[q] = cpc[q] \/ (cpc[q] \notin Waiting \cup {"dead"} /\ cpc'[q] # "dead")
               \/ (cpc[q] \in Waiting /\ cpc'[q] \in Waiting)
      PROVE  HistoryOf(q)'
  BY <1>2, <1>a, <1>b, <1>c DEF Serving
<1>3. CASE ServerOpen \/ ServerReopen
  <2>1. /\ UNCHANGED <<cmd, answer, sbuf, crd>>
        /\ spc \notin Serving /\ spc' \notin Serving
        /\ cpc'[q] = cpc[q] \/ (cpc[q] = "openwait" /\ cpc'[q] = "mkfifo")
    BY <1>3 DEF ServerOpen, ServerReopen, OpenServerPipe, ReleaseWriters, pipeVars, history,
                Serving
  <2> QED BY <2>1, <1>2
<1>4. CASE ServerRead
  <2>1. /\ cmd = None /\ cmd' = sbuf[1] /\ 1 \in 1 .. Len(sbuf)
        /\ UNCHANGED <<cpc, crd, answer>> /\ spc' = "connect" /\ spc \notin Serving
        /\ \A i \in 1 .. Len(sbuf') :
             sbuf'[i] = sbuf[i + 1] /\ i + 1 \in 1 .. Len(sbuf)
    BY <1>4, <1>b, TailFacts DEF ServerRead, ProtocolInv, TypeOK, clientVars, history, Serving
  <2>2. HasRequest(q)' => HasRequest(q)
    BY <2>1
  <2> QED BY <2>1, <2>2, <1>a DEF Serving
<1>5. CASE ServerConnect
  <2>1. /\ UNCHANGED <<sbuf, crd, answer>> /\ spc = "connect" /\ cmd # None
        /\ \/ cmd' = None /\ spc' = "loop" /\ cpc' = cpc
           \/ /\ cmd' = cmd
              /\ spc' = IF crd[cmd.client_pid] THEN "exec" ELSE "connectwait"
              /\ \/ cpc' = cpc
                 \/ /\ cpc[cmd.client_pid] = "connectwait"
                    /\ cpc' = [cpc EXCEPT ![cmd.client_pid] = "openwrite"]
    BY <1>5, <1>b DEF ServerConnect, pipeVars, history, Serving
  <2>2. CASE cmd' = None
    BY <2>1, <2>2, <1>1 DEF Serving
  <2>3. CASE cmd' = cmd
    <3>1. cpc'[q] = cpc[q] \/ (cpc[q] \in Waiting /\ cpc'[q] \in Waiting)
      BY <2>1, <2>3, <1>b DEF ProtocolInv, TypeOK
    <3> QED BY <2>1, <2>3, <3>1, <1>a, <1>b
  <2> QED BY <2>1, <2>2, <2>3
<1>6. CASE ServerExec
  <2> DEFINE p == cmd.client_pid
  <2>1. /\ UNCHANGED <<cmd, sbuf, cpc, crd>> /\ cmd # None /\ spc = "exec"
        /\ spc' \in {"search", "reply"}
    BY <1>6, <1>b DEF ServerExec, pipeVars, clientVars, Serving
  <2>2. PICK o \in Outcomes(db, cmd.req) : answer' = [answer EXCEPT ![p] = o.result]
    BY <1>6 DEF ServerExec
  <2>3. o.result # None
    BY <2>1, <1>b, OutcomesType, CdPipeAssumption DEF ProtocolInv, TypeOK
  <2>4. CASE q = p
    <3>1. answer'[q] = o.result
      BY <2>2, <2>4 DEF ProtocolInv, TypeOK
    <3> QED BY <2>1, <2>3, <2>4, <3>1, <1>a, <1>c
  <2>5. CASE q # p
    <3>1. answer'[q] = answer[q]
      BY <2>2, <2>5 DEF ProtocolInv, TypeOK
    <3> QED BY <2>1, <2>5, <3>1, <1>a
  <2> QED BY <2>4, <2>5
<1>7. CASE KillServer /\ UNCHANGED <<clientVars, answer>>
  BY <1>7, <1>1 DEF KillServer, clientVars, Serving
<1>8. CASE (ServerSendMatch \/ ServerReply) /\ ~KillServer
  <2>1. /\ UNCHANGED <<cpc, crd, answer, sbuf>>
        /\ \/ spc' = spc /\ cmd' = cmd
           \/ spc' = "loop" /\ cmd' = None
    BY <1>8 DEF ServerSendMatch, ServerReply, clientVars, history
  <2> QED BY <2>1, <1>1 DEF Serving
<1>9. CASE \/ ServerStart \/ ServerMkfifo \/ ServerLoop \/ ServerReadEof \/ ServerReopenClose
           \/ ServerClose \/ ServerUnlink
  <2>1. /\ UNCHANGED <<cpc, crd, answer, cmd>> /\ (sbuf' = sbuf \/ sbuf' = <<>>)
        /\ spc \notin Serving /\ spc' \notin Serving
    BY <1>9 DEF ServerStart, ServerMkfifo, ServerLoop, ServerReadEof, ServerReopenClose,
                ServerClose, ServerUnlink, clientVars, pipeVars, history, Serving, Down
  <2> QED BY <2>1, <1>1, <1>b
<1>10. CASE ServerEndSearch \/ ServerSpin
  BY <1>10, <1>1 DEF ServerEndSearch, ServerSpin, clientVars, pipeVars, history
<1>11. CASE Signal
  <2>1. UNCHANGED <<cpc, crd, answer, sbuf>>
    BY <1>11 DEF Signal, clientVars, pipeVars, history
  <2>2. \/ cmd' = None /\ spc' \notin Serving
        \/ cmd' = cmd /\ spc' = spc
        \/ cmd' = cmd /\ spc' = "reply" /\ spc = "search"
        \/ cmd' = cmd /\ spc \notin Serving /\ spc' \notin Serving
    BY <1>11 DEF Signal, InterruptOpen, InterruptRead, InterruptConnect, InterruptSearch,
                 InterruptReply, Serving
  <2> QED BY <2>1, <2>2, <1>1, <1>b
<1>12. ASSUME NEW p \in Pids, ClientOpen(p)
       PROVE  HistoryOf(q)'
  <2>1. /\ UNCHANGED <<cmd, answer, sbuf, crd>>
        /\ spc' = spc \/ (spc \notin Serving /\ spc' \notin Serving)
        /\ cpc[p] = "off" /\ \E x \in {"gone", "mkfifo", "openwait"} : cpc' = [cpc EXCEPT ![p] = x]
    BY <1>12 DEF ClientOpen, pipeVars, history, Serving
  <2> QED BY <2>1, <1>2 DEF ProtocolInv, TypeOK
<1>13. ASSUME NEW p \in Pids, ClientMkfifo(p) \/ ClientOpenWrite(p)
       PROVE  HistoryOf(q)'
  <2>1. /\ UNCHANGED <<cmd, spc, answer, sbuf, crd>>
        /\ \/ cpc[p] = "mkfifo" /\ cpc' = [cpc EXCEPT ![p] = "ready"]
           \/ cpc[p] = "openwrite" /\ cpc' = [cpc EXCEPT ![p] = "recv"]
    BY <1>13 DEF ClientMkfifo, ClientOpenWrite, serverVars, pipeVars, history
  <2> QED BY <2>1, <1>2 DEF ProtocolInv, TypeOK
<1>14. ASSUME NEW p \in Pids, ClientOpenRead(p)
       PROVE  HistoryOf(q)'
  <2>1. /\ UNCHANGED <<cmd, answer, sbuf>> /\ crd' = [crd EXCEPT ![p] = TRUE]
        /\ cpc[p] = "connect"
        /\ \E x \in {"openwrite", "connectwait"} : cpc' = [cpc EXCEPT ![p] = x]
        /\ \/ spc' = spc
           \/ spc = "connectwait" /\ spc' = "exec" /\ cmd.client_pid = p
    BY <1>14 DEF ClientOpenRead, pipeVars, history, ProtocolInv, ServerInv, Serving
  <2>2. /\ crd'[q] = crd[q] \/ crd'[q]
        /\ cpc'[q] = cpc[q] \/ (cpc[q] \in Waiting /\ cpc'[q] \in Waiting)
        /\ q = p => crd'[q]
    BY <2>1 DEF ProtocolInv, TypeOK
  <2> QED BY <2>1, <2>2, <1>2, <1>a
<1>15. ASSUME NEW p \in Pids, ClientSend(p)
       PROVE  HistoryOf(q)'
  <2>1. PICK r \in Ops : sbuf' = Append(sbuf, [client_pid |-> p, req |-> r])
    BY <1>15 DEF ClientSend
  <2>2. /\ Len(sbuf') = Len(sbuf) + 1
        /\ sbuf'[Len(sbuf) + 1] = [client_pid |-> p, req |-> r]
        /\ \A i \in 1 .. Len(sbuf) : sbuf'[i] = sbuf[i]
    <3>1. [client_pid |-> p, req |-> r] \in Commands
      BY DEF Commands
    <3> QED BY <2>1, <3>1, AppendFacts DEF ProtocolInv, TypeOK
  <2>3. /\ UNCHANGED <<cmd, spc, answer, crd>> /\ cpc[p] = "ready"
        /\ cpc'[p] \in Waiting
        /\ \A x \in Pids \ {p} : cpc'[x] = cpc[x]
    BY <1>15 DEF ClientSend, serverVars, history, ProtocolInv, TypeOK
  <2>4. CASE q = p
    BY <2>3, <2>4, <1>a, <1>b, <1>c DEF Serving
  <2>5. CASE q # p
    <3>1. HasRequest(q)' <=> HasRequest(q)
      BY <2>2, <2>3, <2>5, <1>d
    <3> QED BY <2>3, <2>5, <3>1, <1>a
  <2> QED BY <2>4, <2>5
<1>16. ASSUME NEW p \in Pids, ClientRecv(p)
       PROVE  HistoryOf(q)'
  <2>1. UNCHANGED <<cmd, spc, sbuf, crd>>
    BY <1>16 DEF ClientRecv, serverVars
  <2>2. CASE IsLast(creq[p], Head(cbuf[p]))
    <3>1. /\ ~HasRequest(p) /\ cpc' = [cpc EXCEPT ![p] = "ready"]
          /\ answer' = [answer EXCEPT ![p] = None]
      BY <1>16, <2>2, LastMessage DEF ClientRecv, ProtocolInv
    <3> QED BY <2>1, <3>1, <1>a, <1>b DEF ProtocolInv, TypeOK, Serving
  <2>3. CASE ~IsLast(creq[p], Head(cbuf[p]))
    <3>1. UNCHANGED <<cpc, answer>>
      BY <1>16, <2>3, LastMessage DEF ClientRecv, ProtocolInv
    <3> QED BY <2>1, <3>1, <1>1
  <2> QED BY <2>2, <2>3
<1>17. ASSUME NEW p \in Pids, ClientQuit(p) \/ ClientSendKilled(p) \/ ClientDie(p)
       PROVE  HistoryOf(q)'
  <2>1. /\ UNCHANGED <<cmd, spc, answer>> /\ (sbuf' = sbuf \/ sbuf' = <<>>)
        /\ crd' = [crd EXCEPT ![p] = FALSE]
        /\ \/ cpc[p] = "ready" /\ cpc' = [cpc EXCEPT ![p] = "gone"]
           \/ cpc[p] = "ready" \/ p \in Mortal
        /\ cpc' = [cpc EXCEPT ![p] = "dead"] \/ cpc[p] = "ready"
        /\ \E x \in {"gone", "dead"} : cpc' = [cpc EXCEPT ![p] = x]
    BY <1>17 DEF ClientQuit, ClientSendKilled, ClientDie, ClientExit, serverVars, history
  <2>2. CASE q # p
    BY <2>1, <2>2, <1>2 DEF ProtocolInv, TypeOK
  <2>3. CASE q = p /\ cpc[p] = "ready"
    BY <2>1, <2>3, <1>a, <1>b, <1>c DEF ProtocolInv, TypeOK, Serving
  <2>4. CASE q = p /\ cpc[p] # "ready"
    <3>1. cpc'[q] = "dead" /\ q \in Mortal
      BY <2>1, <2>4 DEF ProtocolInv, TypeOK
    <3> QED BY <2>1, <2>4, <3>1, <1>a, <1>b
  <2> QED BY <2>2, <2>3, <2>4
<1>18. CASE UNCHANGED vars
  BY <1>18, <1>1 DEF vars, serverVars, clientVars, pipeVars, history
<1>19. CASE ServerSendMatch \/ ServerReply
  BY <1>19, <1>7, <1>8 DEF ServerSendMatch, ServerReply, history
<1> QED
  BY <1>3, <1>4, <1>5, <1>6, <1>9, <1>10, <1>11, <1>12, <1>13, <1>14, <1>15, <1>16, <1>17,
     <1>18, <1>19
  DEF Next, ServerStep, ClientStep, UserStep

LEMMA HistoryStep == ProtocolInv /\ HistoryInv /\ [Next]_vars => HistoryInv'
<1> SUFFICES ASSUME ProtocolInv, HistoryInv, [Next]_vars
             PROVE  (spc \notin {"search", "spin", "reply"} => seen = {})'
  BY HistoryOfStep DEF HistoryInv
<1> USE DEF HistoryInv
<1>1. CASE ServerStart \/ ServerStep \/ Signal
  <2>1. CASE ServerStart \/ ServerMkfifo \/ ServerLoop \/ ServerReadEof \/ ServerReopenClose
    BY <2>1 DEF ServerStart, ServerMkfifo, ServerLoop, ServerReadEof, ServerReopenClose, Down
  <2>2. CASE ServerOpen \/ ServerReopen \/ ServerRead \/ ServerConnect \/ ServerExec
    BY <2>2 DEF ServerOpen, ServerReopen, OpenServerPipe, ServerRead, ServerConnect, ServerExec
  <2>3. CASE ServerEndSearch \/ ServerSpin \/ ServerClose \/ ServerUnlink
    BY <2>3 DEF ServerEndSearch, ServerSpin, ServerClose, ServerUnlink
  <2>4. CASE ServerSendMatch \/ ServerReply
    BY <2>4 DEF ServerSendMatch, ServerReply, KillServer
  <2>5. CASE Signal
    BY <2>5 DEF Signal, InterruptOpen, InterruptRead, InterruptConnect, InterruptSearch,
                InterruptReply
  <2> QED BY <1>1, <2>1, <2>2, <2>3, <2>4, <2>5 DEF ServerStep
<1>2. ASSUME NEW p \in Pids, ClientOpen(p) \/ ClientOpenRead(p)
      PROVE  (spc \notin {"search", "spin", "reply"} => seen = {})'
  BY <1>2 DEF ClientOpen, ClientOpenRead
<1>3. CASE UNCHANGED serverVars
  BY <1>3 DEF serverVars
<1> QED
  BY <1>1, <1>2, <1>3
  DEF Next, ClientStep, UserStep, vars, ClientMkfifo, ClientOpenWrite, ClientRecv, ClientSend,
      ClientSendKilled, ClientQuit, ClientDie, ClientExit

\* Only a client that was killed after the execution of its request kills the
\* server: it does not read the pipe that is written to.
LEMMA KilledStep ==
  ProtocolInv /\ HistoryInv /\ KilledByDeadCall /\ [Next]_vars => KilledByDeadCall'
<1> SUFFICES ASSUME ProtocolInv, HistoryInv, KilledByDeadCall, [Next]_vars, spc' = "killed"
             PROVE  \E p \in Mortal : cpc'[p] = "dead" /\ answer'[p] # None
  BY DEF KilledByDeadCall
<1>1. CASE ServerSendMatch \/ ServerReply
  <2> DEFINE p == cmd.client_pid
  <2>1. /\ spc \in {"search", "reply"} /\ ~crd[p] /\ p \in Pids
        /\ UNCHANGED <<cpc, answer>>
    BY <1>1, CommandType DEF ServerSendMatch, ServerReply, clientVars, history, ProtocolInv,
       ServerInv, TypeOK, Serving
  <2>2. HistoryOf(p) /\ Answering(p)
    BY <2>1 DEF HistoryInv, Answering
  <2> QED BY <2>1, <2>2 DEF HistoryOf
<1>2. CASE spc = "killed"
  <2>1. PICK p \in Mortal : cpc[p] = "dead" /\ answer[p] # None
    BY <1>2 DEF KilledByDeadCall
  <2>2. p \in Pids
    BY CdPipeAssumption
  <2>3. UNCHANGED <<cpc, answer>> \/ \E x \in Pids :
          /\ x # p
          /\ \E y : cpc' = [cpc EXCEPT ![x] = y]
          /\ answer' = answer \/ answer' = [answer EXCEPT ![x] = None]
    <3>1. ~(ServerStart \/ ServerStep \/ Signal)
      BY <1>2 DEF ServerStart, ServerStep, Signal, Down, ServerMkfifo, ServerOpen, ServerLoop,
         ServerRead, ServerReadEof, ServerReopenClose, ServerReopen, OpenServerPipe,
         ServerConnect, ServerExec, ServerSendMatch, ServerEndSearch, ServerSpin, ServerReply,
         ServerClose, ServerUnlink
    <3>2. CASE UNCHANGED vars
      BY <3>2 DEF vars, clientVars, history
    <3>3. ASSUME NEW x \in Pids, ClientStep(x) \/ UserStep(x) \/ ClientDie(x)
          PROVE  \/ UNCHANGED <<cpc, answer>>
                 \/ /\ x # p
                    /\ \E y : cpc' = [cpc EXCEPT ![x] = y]
                    /\ answer' = answer \/ answer' = [answer EXCEPT ![x] = None]
      BY <3>3, <2>1 DEF ClientStep, UserStep, ClientDie, ClientExit, ClientMkfifo,
         ClientOpenRead, ClientOpenWrite, ClientRecv, ClientOpen, ClientSend,
         ClientSendKilled, ClientQuit, history
    <3> QED BY <3>1, <3>2, <3>3 DEF Next
  <2>4. cpc'[p] = "dead" /\ answer'[p] # None
    BY <2>1, <2>2, <2>3 DEF ProtocolInv, TypeOK
  <2> QED BY <2>4
<1>3. ASSUME spc # "killed", ~(ServerSendMatch \/ ServerReply)
      PROVE  FALSE
  <2>1. ~(ServerStart \/ ServerStep \/ Signal)
    BY <1>3 DEF ServerStart, ServerStep, Signal, ServerMkfifo, ServerOpen, ServerLoop,
       ServerRead, ServerReadEof, ServerReopenClose, ServerReopen, OpenServerPipe,
       ServerConnect, ServerExec, ServerEndSearch, ServerSpin,
       ServerClose, ServerUnlink, InterruptOpen, InterruptRead, InterruptConnect,
       InterruptSearch, InterruptReply
  <2> QED BY <1>3, <2>1 DEF Next, vars, serverVars, ClientStep, UserStep, ClientDie,
         ClientExit, ClientMkfifo, ClientOpenRead, ClientOpenWrite, ClientRecv, ClientOpen,
         ClientSend, ClientSendKilled, ClientQuit
<1> QED BY <1>1, <1>2, <1>3

(***************************************************************************)
(* The parts of an answer make up the result of its execution.             *)
(***************************************************************************)

LEMMA ResultInit == Init => ResultInv
BY DEF Init, ResultInv, PartsMakeResult, Waiting

\* What leaves the pipe, the reads and the execution of q's call alone.
LEMMA ResultFrame ==
  ASSUME ProtocolInv, NEW q \in Pids, PartsMakeResult(q),
         cbuf'[q] = cbuf[q], cres'[q] = cres[q], answer'[q] = answer[q],
         creq'[q] = creq[q], resp' = resp \/ ~Answering(q)',
         cpc'[q] \in Waiting => cpc[q] \in Waiting,
         HasRequest(q)' => HasRequest(q),
         \/ ~Answering(q)' /\ ~Answering(q)
         \/ ~Answering(q)' /\ ~HasRequest(q)'
         \/ /\ Answering(q) /\ Answering(q)' /\ UNCHANGED <<cmd, db, seen>>
            /\ spc' = spc \/ {spc, spc'} \subseteq {"search", "spin"}
  PROVE  PartsMakeResult(q)'
<1>1. \A n \in Nat : FoundUpTo(q, n)' = FoundUpTo(q, n)
  BY SameData DEF FoundUpTo
<1>2. EntriesOf(seen)' = EntriesOf(seen) \/ ~Answering(q)'
  BY DEF EntriesOf
<1>3. \/ ~Answering(q)'
      \/ EntriesOf(Matching(db, cmd.req.pattern))' = EntriesOf(Matching(db, cmd.req.pattern))
         /\ Matching(db, cmd.req.pattern)' = Matching(db, cmd.req.pattern)
  BY DEF EntriesOf
<1>4. Len(cbuf[q]) \in Nat
  BY DEF ProtocolInv, TypeOK
<1> SUFFICES ASSUME cpc'[q] \in Waiting
             PROVE  PartsMakeResult(q)'
  BY DEF PartsMakeResult
<1>5. HasRequest(q)' /\ ~Answering(q)' => cbuf'[q] = <<>> /\ cres'[q] = {}
  BY DEF PartsMakeResult
<1>6. Answering(q)' /\ spc' # "reply" =>
         /\ answer'[q] = ResultOf([response |-> "r_find_no_more", data |-> Absent],
                                  EntriesOf(Matching(db, cmd.req.pattern))')
         /\ seen' \subseteq Matching(db, cmd.req.pattern)'
         /\ FoundUpTo(q, Len(cbuf[q]))' = EntriesOf(seen)'
  BY <1>1, <1>2, <1>3, <1>4 DEF PartsMakeResult
<1>7. Answering(q)' /\ spc' = "reply" /\ IsLast(creq[q], resp)' =>
         answer'[q] = ResultOf(resp', FoundUpTo(q, Len(cbuf[q]))')
  BY <1>1, <1>4 DEF PartsMakeResult
<1>8. \A i \in 1 .. Len(cbuf'[q]) :
         IsLast(creq'[q], cbuf'[q][i]) =>
           answer'[q] = ResultOf(cbuf'[q][i], FoundUpTo(q, i - 1)')
  BY <1>1, <1>4 DEF PartsMakeResult
<1> QED BY <1>5, <1>6, <1>7, <1>8 DEF PartsMakeResult

LEMMA PartsStep ==
  ASSUME ProtocolInv, HistoryInv, ResultInv, [Next]_vars, NEW q \in Pids
  PROVE  PartsMakeResult(q)'
<1> USE DEF HasRequest, Answering, Waiting
<1> DEFINE Sending == {"search", "spin", "reply"}
<1>a. PartsMakeResult(q)
  BY DEF ResultInv
<1>b. /\ cmd # None <=> spc \in Serving
      /\ cmd # None => cmd.client_pid \in Pids /\ cmd.req \in Requests
      /\ cmd # None /\ cmd.client_pid = q => creq[q] = cmd.req
  BY CommandType DEF ProtocolInv, TypeOK, ServerInv, AnswerInv, AnswerOf
<1>c. cbuf[q] \in Seq(Messages) /\ Len(cbuf[q]) \in Nat /\ Len(sbuf) \in Nat
  BY DEF ProtocolInv, TypeOK
<1>d. Answering(q) => HasRequest(q)
  BY <1>b DEF Serving
<1>e. cmd # None /\ cmd.client_pid = q => \A i \in 1 .. Len(sbuf) : sbuf[i].client_pid # q
  BY DEF ProtocolInv, OneOutstanding
<1>1. ASSUME UNCHANGED <<cres, answer, creq>>, cbuf'[q] = cbuf[q], resp' = resp,
             cpc'[q] \in Waiting => cpc[q] \in Waiting,
             sbuf' = sbuf \/ sbuf' = <<>>,
             \/ cmd' = cmd /\ spc' = spc /\ UNCHANGED <<db, seen>>
             \/ cmd' = cmd /\ spc \notin Sending /\ spc' \notin Sending
             \/ cmd' = None /\ spc' \notin Serving
             \/ cmd' = cmd /\ UNCHANGED <<db, seen>> /\ {spc, spc'} \subseteq {"search", "spin"}
      PROVE  PartsMakeResult(q)'
  <2>1. HasRequest(q)' => HasRequest(q)
    BY <1>1
  <2>2. \/ ~Answering(q)' /\ ~Answering(q)
        \/ ~Answering(q)' /\ ~HasRequest(q)'
        \/ /\ Answering(q) /\ Answering(q)' /\ UNCHANGED <<cmd, db, seen>>
           /\ spc' = spc \/ {spc, spc'} \subseteq {"search", "spin"}
    <3>1. CASE cmd' = cmd /\ spc' = spc /\ UNCHANGED <<db, seen>>
      BY <3>1
    <3>2. CASE cmd' = cmd /\ spc \notin Sending /\ spc' \notin Sending
      BY <3>2
    <3>3. CASE cmd' = None /\ spc' \notin Serving
      BY <1>1, <1>b, <1>e, <3>3 DEF Serving
    <3>4. CASE cmd' = cmd /\ UNCHANGED <<db, seen>> /\ {spc, spc'} \subseteq {"search", "spin"}
      BY <3>4
    <3> QED BY <1>1, <3>1, <3>2, <3>3, <3>4
  <2> HIDE DEF HasRequest, Answering
  <2> QED BY <2>1, <2>2, <1>1, <1>a, ResultFrame
<1>2. ASSUME UNCHANGED <<cres, creq, cpc, cbuf, sbuf, cmd>>, answer'[q] = answer[q],
             cmd.client_pid # q, cmd # None
      PROVE  PartsMakeResult(q)'
  <2>1. /\ HasRequest(q)' <=> HasRequest(q)
        /\ ~Answering(q) /\ ~Answering(q)'
    BY <1>2
  <2>2. \A n \in Nat : FoundUpTo(q, n)' = FoundUpTo(q, n)
    BY <1>2, SameData DEF FoundUpTo
  <2> HIDE DEF HasRequest, Answering
  <2> QED BY <2>1, <2>2, <1>2, <1>a, <1>c DEF PartsMakeResult
<1>3. CASE ServerRead
  <2>1. /\ cmd = None /\ cmd' = sbuf[1] /\ 1 \in 1 .. Len(sbuf)
        /\ UNCHANGED <<cpc, creq, cbuf, cres, answer, resp>> /\ spc' = "connect"
        /\ \A i \in 1 .. Len(sbuf') :
             sbuf'[i] = sbuf[i + 1] /\ i + 1 \in 1 .. Len(sbuf)
    BY <1>3, <1>b, TailFacts DEF ServerRead, ProtocolInv, TypeOK, clientVars, history, Serving
  <2>2. /\ HasRequest(q)' => HasRequest(q)
        /\ ~Answering(q) /\ ~Answering(q)'
    BY <2>1, <1>b DEF Serving
  <2> HIDE DEF HasRequest, Answering
  <2> QED BY <2>1, <2>2, <1>a, ResultFrame
<1>4. CASE ServerConnect
  <2>1. /\ UNCHANGED <<sbuf, cres, answer, creq, cbuf, resp, db, seen>>
        /\ spc = "connect" /\ cmd # None
        /\ \/ cmd' = None /\ spc' = "loop" /\ cpc' = cpc
           \/ /\ cmd' = cmd /\ spc' \in {"exec", "connectwait"}
              /\ \/ cpc' = cpc
                 \/ /\ cpc[cmd.client_pid] = "connectwait"
                    /\ cpc' = [cpc EXCEPT ![cmd.client_pid] = "openwrite"]
    BY <1>4, <1>b DEF ServerConnect, pipeVars, history, Serving
  <2>2. cpc'[q] \in Waiting => cpc[q] \in Waiting
    BY <2>1, <1>b DEF ProtocolInv, TypeOK
  <2> QED BY <2>1, <2>2, <1>1 DEF Serving
<1>5. CASE ServerExec
  <2> DEFINE p == cmd.client_pid
  <2>1. /\ UNCHANGED <<cmd, sbuf, cpc, creq, cres, cbuf, seen>> /\ spc = "exec"
        /\ cmd # None
    BY <1>5, <1>b DEF ServerExec, pipeVars, clientVars, Serving
  <2>2. PICK o \in Outcomes(db, cmd.req) :
          /\ answer' = [answer EXCEPT ![p] = o.result] /\ db' = o.db
          /\ IF IsFind(cmd.req)
             THEN spc' = "search" /\ UNCHANGED resp
             ELSE /\ resp' = [response |-> o.result.response, data |-> o.result.data]
                  /\ spc' = "reply"
    BY <1>5 DEF ServerExec
  <2>3. CASE q # p
    <3>1. answer'[q] = answer[q]
      BY <2>2, <2>3 DEF ProtocolInv, TypeOK
    <3> QED BY <2>1, <2>3, <3>1, <1>2
  <2>4. CASE q = p
    <3>1. answer'[q] = o.result /\ Answering(q)'
      BY <2>1, <2>2, <2>4 DEF ProtocolInv, TypeOK
    <3>2. HasRequest(q) /\ ~Answering(q) /\ seen = {}
      BY <2>1, <2>4 DEF HistoryInv
    <3> SUFFICES ASSUME cpc'[q] \in Waiting
                 PROVE  PartsMakeResult(q)'
      BY DEF PartsMakeResult
    <3>3. cbuf[q] = <<>> /\ cres[q] = {}
      BY <2>1, <3>2, <1>a DEF PartsMakeResult
    <3>4. FoundUpTo(q, 0)' = {} /\ Len(cbuf'[q]) = 0 /\ cres'[q] = {}
      BY <2>1, <3>3 DEF FoundUpTo
    <3>5. EntriesOf({})' = {}
      BY DEF EntriesOf
    <3>6. db \in Databases /\ cmd.req \in Requests
      BY <2>1, <1>b DEF ProtocolInv, TypeOK
    <3>7. CASE IsFind(cmd.req)
      <4>1. spc' = "search" /\ db' = db
        BY <2>2, <3>6, <3>7, SearchOutcome
      <4>2. answer'[q] = ResultOf([response |-> "r_find_no_more", data |-> Absent],
                                  EntriesOf(Matching(db, cmd.req.pattern)))
        BY <2>2, <3>1, <3>6, <3>7, SearchOutcome DEF ResultOf, EntriesOf
      <4>3. EntriesOf(Matching(db, cmd.req.pattern))' = EntriesOf(Matching(db, cmd.req.pattern))
        BY <2>1, <4>1 DEF EntriesOf
      <4>4. EntriesOf(seen)' = {} /\ seen' = {}
        BY <2>1, <3>2, <3>5 DEF EntriesOf
      <4> HIDE DEF Answering, HasRequest
      <4> QED BY <2>1, <3>1, <3>4, <4>1, <4>2, <4>3, <4>4 DEF PartsMakeResult
    <3>8. CASE ~IsFind(cmd.req)
      <4>1. /\ resp' = [response |-> o.result.response, data |-> o.result.data]
            /\ spc' = "reply"
        BY <2>2, <3>8
      <4>2. o.result = ResultOf(resp', {})
        BY <4>1, <3>6, <3>8, SingleAnswer DEF ResultOf
      <4>3. answer'[q] = ResultOf(resp', FoundUpTo(q, Len(cbuf[q]))')
        BY <3>1, <3>4, <4>2
      <4> HIDE DEF Answering, HasRequest
      <4> QED BY <3>1, <3>4, <4>1, <4>3 DEF PartsMakeResult
    <3> QED BY <3>7, <3>8
  <2> QED BY <2>3, <2>4
<1>6. CASE KillServer /\ UNCHANGED <<clientVars, cname, history>>
  <2>1. /\ UNCHANGED <<cres, creq, cpc, cbuf, answer>>
        /\ ~HasRequest(q)' /\ ~Answering(q)'
    BY <1>6 DEF KillServer, clientVars, history
  <2>2. \A n \in Nat : FoundUpTo(q, n)' = FoundUpTo(q, n)
    BY <2>1, SameData DEF FoundUpTo
  <2> HIDE DEF HasRequest, Answering
  <2> QED BY <2>1, <2>2, <1>a, <1>c DEF PartsMakeResult
<1>7. CASE ServerSendMatch /\ ~KillServer
  <2> DEFINE p == cmd.client_pid
  <2>1. /\ cmd # None /\ p \in Pids /\ IsFind(cmd.req) /\ spc = "search"
        /\ cmd.req \in Requests
    BY <1>7, <1>b DEF ServerSendMatch, ProtocolInv, ServerInv, Serving
  <2>2. PICK c \in Unsent :
          /\ cbuf' = [cbuf EXCEPT ![p] = Append(cbuf[p],
                        [response |-> "r_success", data |-> <<c, db.cdc[c]>>])]
          /\ seen' = seen \cup {c}
    BY <1>7 DEF ServerSendMatch
  <2>3. UNCHANGED <<cmd, spc, sbuf, db, cpc, creq, cres, answer, resp>>
    BY <1>7 DEF ServerSendMatch, clientVars, history
  <2>4. CASE q # p
    <3>1. cbuf'[q] = cbuf[q]
      BY <2>1, <2>2, <2>4 DEF ProtocolInv, TypeOK
    <3>2. /\ HasRequest(q)' => HasRequest(q)
          /\ ~Answering(q) /\ ~Answering(q)'
      BY <2>1, <2>3, <2>4
    <3> HIDE DEF HasRequest, Answering
    <3> QED BY <2>3, <3>1, <3>2, <1>a, ResultFrame
  <2>5. CASE q = p
    <3> SUFFICES ASSUME cpc[q] \in Waiting
                 PROVE  PartsMakeResult(q)'
      BY <2>3 DEF PartsMakeResult
    <3> DEFINE m == [response |-> "r_success", data |-> <<c, db.cdc[c]>>]
               n == Len(cbuf[q])
    <3>1. cbuf'[q] = Append(cbuf[q], m) /\ m \in Messages
      BY <2>1, <2>2, <2>5, MatchType DEF ProtocolInv, TypeOK
    <3>2. /\ Len(cbuf'[q]) = n + 1 /\ cbuf'[q][n + 1] = m
          /\ \A i \in 1 .. n : cbuf'[q][i] = cbuf[q][i]
      BY <3>1, <1>c, AppendFacts
    <3>3. \A i \in 1 .. n + 1 : FoundUpTo(q, i - 1)' = FoundUpTo(q, i - 1)
      <4>1. SUFFICES ASSUME NEW i \in 1 .. n + 1
                     PROVE  {cbuf'[q][j].data : j \in 1 .. i - 1}
                              = {cbuf[q][j].data : j \in 1 .. i - 1}
        BY <2>3 DEF FoundUpTo
      <4>2. i - 1 \in Nat /\ \A j \in 1 .. i - 1 : cbuf'[q][j] = cbuf[q][j]
        BY <1>c, <3>2
      <4> QED BY <4>2, SameData
    <3>4. FoundUpTo(q, Len(cbuf[q]))' = FoundUpTo(q, n) \cup {<<c, db.cdc[c]>>}
      <4>1. {cbuf'[q][j].data : j \in 1 .. n + 1}
              = {cbuf[q][j].data : j \in 1 .. n} \cup {m.data}
        BY <3>1, <1>c, AppendData
      <4> QED BY <2>3, <3>2, <4>1 DEF FoundUpTo
    <3>5. EntriesOf(seen)' = EntriesOf(seen) \cup {<<c, db.cdc[c]>>}
      BY <2>2, <2>3 DEF EntriesOf
    <3>6. EntriesOf(Matching(db, cmd.req.pattern))' = EntriesOf(Matching(db, cmd.req.pattern))
      BY <2>3 DEF EntriesOf
    <3>7. Answering(q) /\ Answering(q)' /\ HasRequest(q)
      BY <2>1, <2>3, <2>5
    <3>8. seen' \subseteq Matching(db, cmd.req.pattern)
      BY <2>1, <2>2, <3>7, <1>a DEF PartsMakeResult, Unsent
    <3>9. ~IsLast(creq[q], m)
      BY <2>1, <2>5, <1>b DEF IsLast
    <3>10. \A i \in 1 .. n + 1 : ~IsLast(creq[q], cbuf'[q][i])
      BY <1>c, <3>2, <3>7, <3>9 DEF ProtocolInv, AnswerInv, AnswerOf
    <3> HIDE DEF HasRequest, Answering, m, n, p
    <3>11. /\ answer[q] = ResultOf([response |-> "r_find_no_more", data |-> Absent],
                                   EntriesOf(Matching(db, cmd.req.pattern)))
           /\ FoundUpTo(q, n) = EntriesOf(seen)
      BY <2>1, <3>7, <1>a DEF PartsMakeResult, n
    <3>12. EntriesOf(seen)' = FoundUpTo(q, Len(cbuf[q]))'
      BY <3>4, <3>5, <3>11
    <3> QED BY <2>1, <2>3, <3>2, <3>6, <3>7, <3>8, <3>10, <3>11, <3>12 DEF PartsMakeResult
  <2> QED BY <2>4, <2>5
<1>8. CASE ServerReply /\ ~KillServer
  <2> DEFINE p == cmd.client_pid
  <2>1. /\ cmd # None /\ p \in Pids /\ resp \in Messages /\ spc = "reply"
    BY <1>8, <1>b DEF ServerReply, ProtocolInv, ServerInv, TypeOK, Serving
  <2>2. /\ cbuf' = [cbuf EXCEPT ![p] = Append(cbuf[p], resp)]
        /\ cmd' = None /\ spc' = "loop"
        /\ UNCHANGED <<sbuf, db, cpc, creq, cres, answer>>
    BY <1>8 DEF ServerReply, clientVars, history
  <2>3. ~Answering(q)' /\ (HasRequest(q)' => HasRequest(q))
    BY <2>2
  <2>4. CASE q # p
    <3>1. cbuf'[q] = cbuf[q] /\ ~Answering(q)
      BY <2>1, <2>2, <2>4 DEF ProtocolInv, TypeOK
    <3> HIDE DEF HasRequest, Answering
    <3> QED BY <2>2, <2>3, <3>1, <1>a, ResultFrame
  <2>5. CASE q = p
    <3> SUFFICES ASSUME cpc[q] \in Waiting
                 PROVE  PartsMakeResult(q)'
      BY <2>2 DEF PartsMakeResult
    <3> DEFINE n == Len(cbuf[q])
    <3>1. cbuf'[q] = Append(cbuf[q], resp)
      BY <2>1, <2>2, <2>5 DEF ProtocolInv, TypeOK
    <3>2. /\ Len(cbuf'[q]) = n + 1 /\ cbuf'[q][n + 1] = resp
          /\ \A i \in 1 .. n : cbuf'[q][i] = cbuf[q][i]
      BY <2>1, <3>1, <1>c, AppendFacts
    <3>3. \A i \in 1 .. n + 1 : FoundUpTo(q, i - 1)' = FoundUpTo(q, i - 1)
      <4>1. SUFFICES ASSUME NEW i \in 1 .. n + 1
                     PROVE  {cbuf'[q][j].data : j \in 1 .. i - 1}
                              = {cbuf[q][j].data : j \in 1 .. i - 1}
        BY <2>2 DEF FoundUpTo
      <4>2. i - 1 \in Nat /\ \A j \in 1 .. i - 1 : cbuf'[q][j] = cbuf[q][j]
        BY <1>c, <3>2
      <4> QED BY <4>2, SameData
    <3>4. Answering(q) /\ ~HasRequest(q)' /\ HasRequest(q)
      BY <2>1, <2>2, <2>5, <1>e
    <3>5. ASSUME NEW i \in 1 .. n + 1, IsLast(creq[q], cbuf'[q][i])
          PROVE  answer[q] = ResultOf(cbuf'[q][i], FoundUpTo(q, i - 1)')
      <4>1. i = n + 1
        BY <1>c, <3>2, <3>4, <3>5 DEF ProtocolInv, AnswerInv, AnswerOf
      <4>2. answer[q] = ResultOf(resp, FoundUpTo(q, n))
        BY <2>1, <3>2, <3>4, <3>5, <4>1, <1>a DEF PartsMakeResult
      <4>3. FoundUpTo(q, i - 1)' = FoundUpTo(q, n)
        BY <3>3, <4>1, <1>c
      <4> QED BY <3>2, <4>1, <4>2, <4>3
    <3> HIDE DEF HasRequest, Answering
    <3> QED BY <2>2, <2>3, <3>2, <3>4, <3>5 DEF PartsMakeResult
  <2> QED BY <2>4, <2>5
<1>9. CASE ServerEndSearch
  <2>1. /\ UNCHANGED <<cmd, seen, db, sbuf, cbuf, cpc, cres, creq, answer>>
        /\ resp' = [response |-> "r_find_no_more", data |-> Absent]
        /\ spc = "search" /\ spc' = "reply" /\ cmd # None /\ Unsent = {}
    BY <1>9, <1>b DEF ServerEndSearch, pipeVars, clientVars, history, Serving
  <2>2. \A n \in Nat : FoundUpTo(q, n)' = FoundUpTo(q, n)
    BY <2>1, SameData DEF FoundUpTo
  <2>3. /\ HasRequest(q)' <=> HasRequest(q)
        /\ Answering(q)' <=> Answering(q)
    BY <2>1
  <2>4. Answering(q) /\ cpc[q] \in Waiting =>
         answer[q] = ResultOf(resp', FoundUpTo(q, Len(cbuf[q])))
    <3> SUFFICES ASSUME Answering(q), cpc[q] \in Waiting
                 PROVE  answer[q] = ResultOf(resp', FoundUpTo(q, Len(cbuf[q])))
      OBVIOUS
    <3>1. /\ answer[q] = ResultOf([response |-> "r_find_no_more", data |-> Absent],
                                  EntriesOf(Matching(db, cmd.req.pattern)))
          /\ seen \subseteq Matching(db, cmd.req.pattern)
          /\ FoundUpTo(q, Len(cbuf[q])) = EntriesOf(seen)
      BY <2>1, <1>a DEF PartsMakeResult
    <3>2. seen = Matching(db, cmd.req.pattern)
      BY <2>1, <3>1 DEF Unsent
    <3> QED BY <2>1, <3>1, <3>2
  <2> HIDE DEF HasRequest, Answering
  <2> QED BY <2>1, <2>2, <2>3, <2>4, <1>a, <1>c DEF PartsMakeResult
<1>10. CASE InterruptSearch /\ UNCHANGED <<db, pipeVars, clientVars, history>>
  <2>1. /\ UNCHANGED <<cmd, seen, db, sbuf, cbuf, cpc, cres, creq, answer>>
        /\ resp'.response = "r_success"
        /\ spc = "search" /\ spc' = "reply" /\ IsFind(cmd.req) /\ cmd # None
    BY <1>10, <1>b DEF InterruptSearch, pipeVars, clientVars, history, Serving, ProtocolInv,
       ServerInv
  <2>2. \A n \in Nat : FoundUpTo(q, n)' = FoundUpTo(q, n)
    BY <2>1, SameData DEF FoundUpTo
  <2>3. /\ HasRequest(q)' <=> HasRequest(q)
        /\ Answering(q)' <=> Answering(q)
    BY <2>1
  <2>4. Answering(q) => ~IsLast(creq[q], resp')
    BY <2>1, <1>b DEF IsLast
  <2> HIDE DEF HasRequest, Answering
  <2> QED BY <2>1, <2>2, <2>3, <2>4, <1>a, <1>c DEF PartsMakeResult
<1>11. CASE Signal
  <2>1. UNCHANGED <<sbuf, db, cres, creq, cpc, cbuf, answer>>
    BY <1>11 DEF Signal, pipeVars, clientVars, history
  <2>2. CASE InterruptSearch
    BY <1>11, <2>2, <1>10 DEF Signal
  <2>3. CASE InterruptReply
    <3>1. /\ cmd # None /\ cmd' = None /\ spc' = "loop" /\ ~Answering(q)'
          /\ HasRequest(q)' => HasRequest(q)
      BY <2>1, <2>3, <1>b DEF InterruptReply, Serving
    <3>2. \A n \in Nat : FoundUpTo(q, n)' = FoundUpTo(q, n)
      BY <2>1, SameData DEF FoundUpTo
    <3>3. ~HasRequest(q)' \/ ~Answering(q)
      BY <2>1, <3>1, <1>e
    <3> HIDE DEF HasRequest, Answering
    <3> QED BY <2>1, <3>1, <3>2, <3>3, <1>a, <1>c DEF PartsMakeResult
  <2>4. CASE UNCHANGED <<spc, sfd, cmd, resp, seen, cfd>>
    BY <2>1, <2>4, <1>1
  <2>5. CASE InterruptOpen \/ InterruptRead \/ InterruptConnect
    <3>1. /\ resp' = resp /\ (cmd' = cmd \/ (cmd' = None /\ spc' \notin Serving))
          /\ (spc \notin Sending /\ spc' \notin Sending)
      BY <2>5 DEF InterruptOpen, InterruptRead, InterruptConnect, Serving
    <3> QED BY <2>1, <3>1, <1>1
  <2> QED BY <1>11, <2>2, <2>3, <2>4, <2>5 DEF Signal
<1>12. CASE \/ ServerStart \/ ServerMkfifo \/ ServerLoop \/ ServerReadEof
            \/ ServerUnlink \/ ServerReopenClose \/ ServerClose
            \/ ServerOpen \/ ServerReopen
  <2>1. /\ UNCHANGED <<cmd, cbuf, creq, cres, answer, resp>>
        /\ sbuf' = sbuf \/ sbuf' = <<>>
        /\ (spc \notin Sending /\ spc' \notin Sending)
    BY <1>12 DEF Down, ServerStart, ServerMkfifo, ServerLoop, ServerReadEof, ServerUnlink,
       ServerReopenClose, ServerClose, ServerOpen, ServerReopen, OpenServerPipe, clientVars,
       pipeVars, history
  <2>2. cpc'[q] \in Waiting => cpc[q] \in Waiting
    BY <1>12 DEF ServerStart, ServerMkfifo, ServerLoop, ServerReadEof, ServerUnlink,
       ServerReopenClose, ServerClose, ServerOpen, ServerReopen, OpenServerPipe, clientVars,
       ReleaseWriters
  <2> QED BY <2>1, <2>2, <1>1
<1>13. CASE ServerSpin
  BY <1>13, <1>1 DEF ServerSpin, pipeVars, clientVars, history
<1>14. ASSUME NEW p \in Pids,
              ClientOpen(p) \/ ClientMkfifo(p) \/ ClientOpenRead(p) \/ ClientOpenWrite(p)
       PROVE  PartsMakeResult(q)'
  <2>1. /\ UNCHANGED <<cmd, sbuf, cbuf, creq, cres, answer, resp, db, seen>>
        /\ \/ spc' = spc
           \/ (spc \notin Sending /\ spc' \notin Sending)
    BY <1>14 DEF ClientOpen, ClientMkfifo, ClientOpenRead, ClientOpenWrite, serverVars,
       pipeVars, history
  <2>2. \E x : /\ cpc' = [cpc EXCEPT ![p] = x]
               /\ x \in Waiting => cpc[p] \in Waiting
    BY <1>14 DEF ClientOpen, ClientMkfifo, ClientOpenRead, ClientOpenWrite
  <2>3. cpc'[q] \in Waiting => cpc[q] \in Waiting
    BY <2>2 DEF ProtocolInv, TypeOK
  <2> QED BY <2>1, <2>3, <1>1
<1>15. ASSUME NEW p \in Pids, ClientSend(p)
       PROVE  PartsMakeResult(q)'
  <2>1. PICK r \in Ops :
          /\ sbuf' = Append(sbuf, [client_pid |-> p, req |-> r])
          /\ creq' = [creq EXCEPT ![p] = r]
    BY <1>15 DEF ClientSend
  <2>2. /\ UNCHANGED <<cmd, spc, answer, cbuf, resp, db, seen>> /\ cpc[p] = "ready"
        /\ cres' = [cres EXCEPT ![p] = {}]
        /\ \A x \in Pids \ {p} : cpc'[x] = cpc[x]
    BY <1>15 DEF ClientSend, serverVars, history, ProtocolInv, TypeOK
  <2>3. CASE q = p
    <3>1. cbuf'[q] = <<>> /\ cres'[q] = {}
      BY <2>2, <2>3 DEF ProtocolInv, TypeOK, AnswerInv, AnswerOf
    <3>2. ~Answering(q)'
      BY <2>2, <2>3, <1>b DEF ProtocolInv, OneOutstanding, Serving
    <3> HIDE DEF HasRequest, Answering
    <3> QED BY <3>1, <3>2 DEF PartsMakeResult
  <2>4. CASE q # p
    <3>1. /\ Len(sbuf') = Len(sbuf) + 1
          /\ sbuf'[Len(sbuf) + 1] = [client_pid |-> p, req |-> r]
          /\ \A i \in 1 .. Len(sbuf) : sbuf'[i] = sbuf[i]
      <4>1. [client_pid |-> p, req |-> r] \in Commands
        BY DEF Commands
      <4> QED BY <2>1, <4>1, AppendFacts DEF ProtocolInv, TypeOK
    <3>2. /\ HasRequest(q)' <=> HasRequest(q)
          /\ Answering(q)' <=> Answering(q)
      BY <2>2, <2>4, <3>1, <1>c
    <3>3. creq'[q] = creq[q] /\ cres'[q] = cres[q] /\ cpc'[q] = cpc[q]
      BY <2>1, <2>2, <2>4 DEF ProtocolInv, TypeOK
    <3> HIDE DEF HasRequest, Answering
    <3> QED BY <2>2, <3>2, <3>3, <1>a, ResultFrame
  <2> QED BY <2>3, <2>4
<1>16. ASSUME NEW p \in Pids, ClientRecv(p)
       PROVE  PartsMakeResult(q)'
  <2>1. /\ UNCHANGED <<cmd, spc, sbuf, resp, db, seen>>
        /\ cbuf' = [cbuf EXCEPT ![p] = Tail(cbuf[p])]
        /\ cbuf[p] # <<>> /\ cbuf[p] \in Seq(Messages)
    BY <1>16, LastMessage DEF ClientRecv, serverVars, ProtocolInv
  <2>2. /\ HasRequest(q)' <=> HasRequest(q)
        /\ Answering(q)' <=> Answering(q)
    BY <2>1
  <2>3. CASE q # p
    <3>1. /\ UNCHANGED <<cpc[q], creq[q], cbuf[q], cres[q], answer[q]>>
      BY <1>16, <2>1, <2>3 DEF ClientRecv, ProtocolInv, TypeOK
    <3> HIDE DEF HasRequest, Answering
    <3> QED BY <2>1, <2>2, <3>1, <1>a, ResultFrame
  <2>4. CASE q = p /\ IsLast(creq[p], Head(cbuf[p]))
    <3>1. cpc'[q] = "ready"
      BY <1>16, <2>1, <2>4 DEF ClientRecv, ProtocolInv, TypeOK
    <3> QED BY <3>1 DEF PartsMakeResult
  <2>5. CASE q = p /\ ~IsLast(creq[p], Head(cbuf[p]))
    <3> DEFINE s == cbuf[q]
    <3>1. /\ UNCHANGED <<cpc, creq, answer>> /\ cpc[q] \in Waiting
          /\ cbuf'[q] = Tail(s) /\ s # <<>> /\ s \in Seq(Messages)
          /\ cres'[q] = cres[q] \cup {Head(s).data}
      BY <1>16, <2>1, <2>5 DEF ClientRecv, ProtocolInv, TypeOK
    <3> HIDE DEF s
    <3>2. /\ Len(s) \in Nat \ {0} /\ Len(Tail(s)) = Len(s) - 1
          /\ \A i \in 1 .. Len(Tail(s)) :
               Tail(s)[i] = s[i + 1] /\ i + 1 \in 1 .. Len(s)
      BY <3>1, TailFacts
    <3>3. \A n \in 1 .. Len(s) : FoundUpTo(q, n - 1)' = FoundUpTo(q, n)
      <4>1. SUFFICES ASSUME NEW n \in 1 .. Len(s)
                     PROVE  FoundUpTo(q, n - 1)' = FoundUpTo(q, n)
        OBVIOUS
      <4>2. {Head(s).data} \cup {Tail(s)[j].data : j \in 1 .. n - 1}
               = {s[j].data : j \in 1 .. n}
        BY <3>1, TailData
      <4> QED BY <3>1, <4>2 DEF FoundUpTo, s
    <3>4. FoundUpTo(q, Len(cbuf[q]))' = FoundUpTo(q, Len(cbuf[q]))
      <4>1. Len(cbuf'[q]) = Len(s) - 1 /\ Len(s) \in 1 .. Len(s)
        BY <3>1, <3>2
      <4> QED BY <3>3, <4>1 DEF s
    <3>5. ASSUME NEW i \in 1 .. Len(cbuf'[q]), IsLast(creq[q], cbuf'[q][i])
          PROVE  answer[q] = ResultOf(cbuf'[q][i], FoundUpTo(q, i - 1)')
      <4>1. i + 1 \in 1 .. Len(s) /\ cbuf'[q][i] = s[i + 1]
            /\ i \in 1 .. Len(s) /\ (i + 1) - 1 = i
        BY <3>1, <3>2
      <4>2. answer[q] = ResultOf(s[i + 1], FoundUpTo(q, i))
        BY <3>1, <3>5, <4>1, <1>a DEF PartsMakeResult, s
      <4> QED BY <3>3, <4>1, <4>2
    <3>6. Answering(q) => EntriesOf(seen)' = EntriesOf(seen)
          /\ EntriesOf(Matching(db, cmd.req.pattern))' = EntriesOf(Matching(db, cmd.req.pattern))
      BY <2>1 DEF EntriesOf
    <3> HIDE DEF HasRequest, Answering
    <3>7. ~(HasRequest(q) /\ ~Answering(q))
      BY <3>1, <1>a DEF PartsMakeResult, s
    <3> QED BY <2>1, <2>2, <3>1, <3>4, <3>5, <3>6, <3>7, <1>a DEF PartsMakeResult
  <2> QED BY <2>3, <2>4, <2>5
<1>17. ASSUME NEW p \in Pids, ClientQuit(p) \/ ClientSendKilled(p) \/ ClientDie(p)
       PROVE  PartsMakeResult(q)'
  <2>1. /\ UNCHANGED <<cmd, spc, answer, creq, resp, db, seen>>
        /\ (sbuf' = sbuf \/ sbuf' = <<>>)
        /\ \E x \in {"gone", "dead"} : cpc' = [cpc EXCEPT ![p] = x]
        /\ cbuf' = [cbuf EXCEPT ![p] = <<>>] /\ cres' = [cres EXCEPT ![p] = {}]
    BY <1>17 DEF ClientQuit, ClientSendKilled, ClientDie, ClientExit, serverVars, history
  <2>2. CASE q # p
    <3>1. UNCHANGED <<cpc[q], cbuf[q], cres[q]>>
      BY <2>1, <2>2 DEF ProtocolInv, TypeOK
    <3>2. HasRequest(q)' => HasRequest(q)
      BY <2>1
    <3>3. Answering(q)' <=> Answering(q)
      BY <2>1
    <3> HIDE DEF HasRequest, Answering
    <3> QED BY <2>1, <3>1, <3>2, <3>3, <1>a, ResultFrame
  <2>3. CASE q = p
    <3>1. cpc'[q] \in {"gone", "dead"}
      BY <2>1, <2>3 DEF ProtocolInv, TypeOK
    <3> QED BY <3>1 DEF PartsMakeResult
  <2> QED BY <2>2, <2>3
<1>18. CASE UNCHANGED vars
  BY <1>18, <1>1 DEF vars, serverVars, clientVars, pipeVars, history
<1>19. CASE ServerSendMatch \/ ServerReply
  BY <1>19, <1>6, <1>7, <1>8 DEF ServerSendMatch, ServerReply
<1> QED
  BY <1>3, <1>4, <1>5, <1>9, <1>11, <1>12, <1>13, <1>14, <1>15, <1>16, <1>17, <1>18, <1>19
  DEF Next, ServerStep, ClientStep, UserStep

LEMMA ResultStep == ProtocolInv /\ HistoryInv /\ ResultInv /\ [Next]_vars => ResultInv'
BY PartsStep DEF ResultInv

(***************************************************************************)
(* The pipes implement the service.                                        *)
(***************************************************************************)

\* The service has the same database and the same operations on it.
LEMMA ServiceData ==
  /\ Service!EmptyDb = EmptyDb
  /\ Service!Requests = Requests
  /\ \A d, r : Service!Outcomes(d, r) = Outcomes(d, r)
<1>1. Service!EmptyDb = EmptyDb
  BY DEF Service!EmptyDb, EmptyDb
<1>2. Service!Requests = Requests
  BY DEF Service!Requests, Requests
<1>3. \A d, r : Service!Outcomes(d, r) = Outcomes(d, r)
  BY DEF Outcomes, get_cdc_entry, get_cdt_entry, add_cdc_entry, add_cdt_entry, del_cdc_entry,
     del_cdt_entry, search_cdc_entry, Matching, Outcome, Done, Failed,
     Service!Outcomes, Service!get_cdc_entry, Service!get_cdt_entry, Service!add_cdc_entry,
     Service!add_cdt_entry, Service!del_cdc_entry, Service!del_cdt_entry,
     Service!search_cdc_entry, Service!Matching, Service!Outcome, Service!Done,
     Service!Failed
<1> QED BY <1>1, <1>2, <1>3

\* A step that executes nothing, returns nothing and adds no request abandons
\* the calls whose requests it loses, if any.
LEMMA AbandonStep ==
  ASSUME UNCHANGED <<db, got, answer, creq>>,
         \A p \in Pids : HasRequest(p)' => HasRequest(p)
  PROVE  Service!Abandon
<1> DEFINE Q == {p \in Pids : answer[p] = None /\ ~HasRequest(p)'}
<1>1. callOf' = [p \in Pids |-> IF p \in Q THEN Service!Idle ELSE callOf[p]]
  <2>1. ASSUME NEW p \in Pids, p \in Q
        PROVE  callOf'[p] = Service!Idle
    BY <2>1 DEF callOf, Service!Idle
  <2>2. ASSUME NEW p \in Pids, p \notin Q
        PROVE  callOf'[p] = callOf[p]
    <3>1. answer[p] # None \/ (answer[p] = None /\ HasRequest(p)' /\ HasRequest(p))
      BY <2>2
    <3> QED BY <3>1 DEF callOf
  <2>3. callOf' = [p \in Pids |-> callOf'[p]]
    BY DEF callOf
  <2> HIDE DEF Q
  <2> QED BY <2>1, <2>2, <2>3
<1>2. Q \in SUBSET Pids
  OBVIOUS
<1> QED BY <1>1, <1>2 DEF Service!Abandon

\* The initial states.
LEMMA ServiceInit == Init => Service!Init
<1> SUFFICES ASSUME Init
             PROVE  /\ db = Service!EmptyDb
                    /\ callOf = [p \in Pids |-> Service!Idle]
                    /\ got = [p \in Pids |-> None]
  BY DEF Service!Init
<1>1. \A p \in Pids : answer[p] = None /\ ~HasRequest(p)
  BY DEF Init, HasRequest
<1>2. callOf = [p \in Pids |-> Service!Idle]
  BY <1>1 DEF callOf, Service!Idle
<1> QED BY <1>2, ServiceData DEF Init

\* Every step of the server and its clients is a step of the service.
LEMMA ServiceStep == IInv /\ [Next]_vars => [Service!Next]_(Service!serviceVars)
<1> SUFFICES ASSUME IInv, [Next]_vars
             PROVE  Service!Next \/ UNCHANGED <<db, callOf, got>>
  BY DEF Service!serviceVars
<1> USE DEF IInv
<1>a. /\ cmd # None <=> spc \in Serving
      /\ cmd # None => cmd.client_pid \in Pids /\ cmd.req \in Requests
      /\ Len(sbuf) \in Nat
  BY CommandType DEF ProtocolInv, TypeOK, ServerInv
<1>1. ASSUME UNCHANGED <<db, got, answer, creq>>,
             \A p \in Pids : HasRequest(p)' => HasRequest(p)
      PROVE  Service!Next
  BY <1>1, AbandonStep DEF Service!Next
<1>2. ASSUME UNCHANGED <<db, got, answer, creq>>,
             cmd' = cmd \/ cmd' = None, sbuf' = sbuf \/ sbuf' = <<>>
      PROVE  Service!Next
  BY <1>1, <1>2 DEF HasRequest
<1>3. CASE ServerStart
  <2>1. /\ UNCHANGED <<got, answer, creq, cmd, sbuf>>
        /\ db' = db \/ db' = EmptyDb
    BY <1>3 DEF ServerStart, pipeVars, clientVars, history
  <2>2. UNCHANGED callOf
    BY <2>1 DEF callOf, HasRequest
  <2> QED BY <2>1, <2>2, ServiceData DEF Service!Next, Service!Recreate
<1>4. CASE ServerRead
  <2>1. /\ cmd = None /\ cmd' = sbuf[1] /\ 1 \in 1 .. Len(sbuf)
        /\ UNCHANGED <<db, got, answer, creq>>
        /\ \A i \in 1 .. Len(sbuf') :
             sbuf'[i] = sbuf[i + 1] /\ i + 1 \in 1 .. Len(sbuf)
    BY <1>4, <1>a, TailFacts DEF ServerRead, ProtocolInv, TypeOK, clientVars, history, Serving
  <2>2. \A p \in Pids : HasRequest(p)' => HasRequest(p)
    BY <2>1 DEF HasRequest
  <2> QED BY <2>1, <2>2, <1>1
<1>5. CASE ServerExec
  <2> DEFINE p == cmd.client_pid
  <2>1. /\ UNCHANGED <<cmd, sbuf, creq, got>> /\ spc = "exec" /\ cmd # None
        /\ p \in Pids /\ cmd.req \in Requests
    BY <1>5, <1>a DEF ServerExec, pipeVars, clientVars, Serving
  <2>2. PICK o \in Outcomes(db, cmd.req) :
          db' = o.db /\ answer' = [answer EXCEPT ![p] = o.result]
    BY <1>5 DEF ServerExec
  <2>3. o.result # None
    BY <2>1, OutcomesType, CdPipeAssumption DEF ProtocolInv, TypeOK
  <2>4. /\ HasRequest(p) /\ creq[p] = cmd.req
        /\ \A x \in Pids : HasRequest(x)' <=> HasRequest(x)
    BY <2>1 DEF HasRequest, ProtocolInv, AnswerInv, AnswerOf
  <2>5. answer[p] = None
    <3>1. ~Answering(p)
      BY <2>1 DEF Answering
    <3> QED BY <2>1, <2>4, <3>1 DEF HistoryInv, HistoryOf
  <2> HIDE DEF p
  <2>6. callOf[p] = Service!Pending(cmd.req)
    BY <2>1, <2>4, <2>5 DEF callOf, Service!Pending
  <2>7. callOf' = [callOf EXCEPT ![p] = Service!Executed(cmd.req, o.result)]
    <3>1. ASSUME NEW x \in Pids \ {p}
          PROVE  callOf'[x] = callOf[x]
      BY <2>1, <2>2, <2>4 DEF callOf, ProtocolInv, TypeOK
    <3>2. callOf'[p] = Service!Executed(cmd.req, o.result)
      BY <2>1, <2>2, <2>3, <2>4 DEF callOf, ProtocolInv, TypeOK, Service!Executed
    <3>3. callOf' = [x \in Pids |-> callOf'[x]] /\ callOf = [x \in Pids |-> callOf[x]]
      BY DEF callOf
    <3> QED BY <2>1, <3>1, <3>2, <3>3
  <2>8. Service!Execute(p)
    <3>1. callOf[p].at = "pending" /\ callOf[p].req = cmd.req
      BY <2>6 DEF Service!Pending
    <3>2. o \in Service!Outcomes(db, callOf[p].req)
      BY <3>1, ServiceData
    <3>3. callOf' = [callOf EXCEPT ![p] = Service!Executed(callOf[p].req, o.result)]
      BY <2>7, <3>1
    <3> QED BY <2>1, <2>2, <3>1, <3>2, <3>3 DEF Service!Execute
  <2> QED BY <2>1, <2>8 DEF Service!Next
<1>6. ASSUME NEW p \in Pids, ClientSend(p)
      PROVE  Service!Next
  <2>1. PICK r \in Ops :
          /\ sbuf' = Append(sbuf, [client_pid |-> p, req |-> r])
          /\ creq' = [creq EXCEPT ![p] = r]
    BY <1>6 DEF ClientSend
  <2>2. /\ UNCHANGED <<cmd, answer, db, got>> /\ cpc[p] = "ready"
    BY <1>6 DEF ClientSend, serverVars, history
  <2>3. /\ Len(sbuf') = Len(sbuf) + 1
        /\ sbuf'[Len(sbuf) + 1] = [client_pid |-> p, req |-> r]
        /\ \A i \in 1 .. Len(sbuf) : sbuf'[i] = sbuf[i]
    <3>1. [client_pid |-> p, req |-> r] \in Commands
      BY DEF Commands
    <3> QED BY <2>1, <3>1, AppendFacts DEF ProtocolInv, TypeOK
  <2>4. answer[p] = None /\ ~HasRequest(p) /\ HasRequest(p)'
    BY <2>2, <2>3, <1>a DEF HistoryInv, HistoryOf, HasRequest, Waiting, ProtocolInv,
       OneOutstanding
  <2>5. callOf[p] = Service!Idle
    BY <2>4 DEF callOf, Service!Idle
  <2>6. callOf' = [callOf EXCEPT ![p] = Service!Pending(r)]
    <3>1. ASSUME NEW x \in Pids \ {p}
          PROVE  callOf'[x] = callOf[x]
      <4>1. HasRequest(x)' <=> HasRequest(x)
        BY <2>2, <2>3, <1>a DEF HasRequest
      <4> QED BY <2>1, <2>2, <4>1 DEF callOf, ProtocolInv, TypeOK
    <3>2. callOf'[p] = Service!Pending(r)
      BY <2>1, <2>2, <2>4 DEF callOf, ProtocolInv, TypeOK, Service!Pending
    <3>3. callOf' = [x \in Pids |-> callOf'[x]] /\ callOf = [x \in Pids |-> callOf[x]]
      BY DEF callOf
    <3> QED BY <3>1, <3>2, <3>3
  <2>7. r \in Requests
    BY CdPipeAssumption
  <2>8. Service!Invoke(p)
    BY <2>2, <2>5, <2>6, <2>7, ServiceData DEF Service!Invoke
  <2> QED BY <2>8 DEF Service!Next
<1>7. ASSUME NEW p \in Pids, ClientRecv(p)
      PROVE  Service!Next
  <2> DEFINE m == Head(cbuf[p])
  <2>1. /\ UNCHANGED <<cmd, sbuf, db>> /\ cpc[p] = "recv" /\ cpc[p] \in Waiting
        /\ cbuf[p] # <<>> /\ cbuf[p] \in Seq(Messages)
    BY <1>7, LastMessage DEF ClientRecv, serverVars, ProtocolInv, Waiting
  <2>2. CASE ~IsLast(creq[p], m)
    <3>1. UNCHANGED <<got, answer, creq>>
      BY <1>7, <2>1, <2>2 DEF ClientRecv
    <3> QED BY <2>1, <3>1, <1>2
  <2>3. CASE IsLast(creq[p], m)
    <3>1. /\ creq' = [creq EXCEPT ![p] = None]
          /\ answer' = [answer EXCEPT ![p] = None]
          /\ got' = [got EXCEPT ![p] = ResultOf(m, cres[p])]
          /\ ~HasRequest(p)
      BY <1>7, <2>1, <2>3, LastMessage DEF ClientRecv, ResultOf, ProtocolInv
    <3>2. m = cbuf[p][1] /\ m \in Messages /\ 1 \in 1 .. Len(cbuf[p])
      BY <2>1, TailFacts
    <3> HIDE DEF m
    <3>3. FoundUpTo(p, 0) = cres[p]
      BY DEF FoundUpTo
    <3>4. answer[p] = ResultOf(m, cres[p])
      BY <2>1, <2>3, <3>2, <3>3 DEF ResultInv, PartsMakeResult
    <3>5. answer[p] # None
      <4>1. ResultOf(m, cres[p]) \in Results
        BY <3>2 DEF ResultOf, Results, Messages, ProtocolInv, TypeOK
      <4> QED BY <3>4, <4>1, CdPipeAssumption
    <3>6. callOf[p] = Service!Executed(creq[p], answer[p])
      BY <3>5 DEF callOf, Service!Executed
    <3>7. callOf' = [callOf EXCEPT ![p] = Service!Idle]
      <4>1. \A x \in Pids : HasRequest(x)' <=> HasRequest(x)
        BY <2>1 DEF HasRequest
      <4>2. ASSUME NEW x \in Pids \ {p}
            PROVE  callOf'[x] = callOf[x]
        BY <3>1, <4>1 DEF callOf, ProtocolInv, TypeOK
      <4>3. callOf'[p] = Service!Idle
        BY <3>1, <4>1 DEF callOf, ProtocolInv, TypeOK, Service!Idle
      <4>4. callOf' = [x \in Pids |-> callOf'[x]] /\ callOf = [x \in Pids |-> callOf[x]]
        BY DEF callOf
      <4> QED BY <4>2, <4>3, <4>4
    <3>8. Service!Return(p)
      BY <2>1, <3>1, <3>4, <3>6, <3>7 DEF Service!Return, Service!Executed
    <3> QED BY <3>8 DEF Service!Next
  <2> QED BY <2>2, <2>3
<1>8. CASE \/ ServerMkfifo \/ ServerLoop \/ ServerReadEof \/ ServerUnlink \/ ServerReopenClose
           \/ ServerClose \/ ServerOpen \/ ServerReopen \/ ServerConnect \/ ServerSpin
           \/ ServerEndSearch
  BY <1>8, <1>2 DEF ServerMkfifo, ServerLoop, ServerReadEof, ServerUnlink, ServerReopenClose,
     ServerClose, ServerOpen, ServerReopen, OpenServerPipe, ServerConnect, ServerSpin,
     ServerEndSearch, pipeVars, clientVars, history
<1>9. CASE ServerSendMatch \/ ServerReply
  BY <1>9, <1>2 DEF ServerSendMatch, ServerReply, KillServer, clientVars, history
<1>10. CASE Signal
  BY <1>10, <1>2 DEF Signal, InterruptOpen, InterruptRead, InterruptConnect, InterruptSearch,
     InterruptReply, pipeVars, clientVars, history
<1>11. ASSUME NEW p \in Pids,
              \/ ClientOpen(p) \/ ClientMkfifo(p) \/ ClientOpenRead(p) \/ ClientOpenWrite(p)
              \/ ClientQuit(p) \/ ClientSendKilled(p) \/ ClientDie(p)
       PROVE  Service!Next
  BY <1>11, <1>2 DEF ClientOpen, ClientMkfifo, ClientOpenRead, ClientOpenWrite, ClientQuit,
     ClientSendKilled, ClientDie, ClientExit, serverVars, pipeVars, clientVars, history
<1>12. CASE UNCHANGED vars
  BY <1>12, <1>2 DEF vars, serverVars, pipeVars, clientVars, history
<1> QED
  BY <1>3, <1>4, <1>5, <1>6, <1>7, <1>8, <1>9, <1>10, <1>11, <1>12
  DEF Next, ServerStep, ClientStep, UserStep

(***************************************************************************)
(* The theorems.                                                           *)
(***************************************************************************)

\* The inductive invariant holds for any number of clients, any requests, any
\* pipe capacity, with signals, deaths and restarts of the server.
THEOREM Invariance == Spec => []IInv
<1>1. Init => IInv
  BY ProtocolInit, HistoryInit, ResultInit DEF IInv
<1>2. IInv /\ [Next]_vars => IInv'
  BY ProtocolStep, HistoryStep, KilledStep, ResultStep DEF IInv
<1> QED BY <1>1, <1>2, PTL DEF Spec

\* Type correctness.
THEOREM TypeCorrect == Spec => []TypeOK
<1>1. IInv => TypeOK
  BY DEF IInv, ProtocolInv
<1> QED BY <1>1, Invariance, PTL

\* pipe_imp.c: a client never has two requests with the server.
THEOREM AtMostOneRequest == Spec => []OneOutstanding
<1>1. IInv => OneOutstanding
  BY DEF IInv, ProtocolInv
<1> QED BY <1>1, Invariance, PTL

\* clientif.c: no call begins with an earlier answer in the client's pipe.
THEOREM AnswersAreFresh == Spec => []NoStaleAnswer
<1>1. IInv => NoStaleAnswer
  BY DEF IInv, ProtocolInv, AnswerInv, AnswerOf, NoStaleAnswer, Waiting
<1> QED BY <1>1, Invariance, PTL

\* start_resp_to_client: the pipe of the client to answer exists.
THEOREM ReplyPipeExists == Spec => []ConnectFindsPipe
<1>1. IInv => ConnectFindsPipe
  <2> SUFFICES ASSUME IInv, spc = "connect"
               PROVE  cname[cmd.client_pid]
    BY DEF ConnectFindsPipe
  <2>1. cmd # None /\ cmd.client_pid \in Pids
    BY CommandType DEF IInv, ProtocolInv, TypeOK, ServerInv, Serving
  <2> QED BY <2>1 DEF IInv, ProtocolInv, AnswerInv, AnswerOf, HasRequest
<1> QED BY <1>1, Invariance, PTL

\* pipe_imp.c: only a client killed in the middle of its answer kills the
\* server with SIGPIPE.
THEOREM ServerIsKilledByDeadCall == Spec => []KilledByDeadCall
<1>1. IInv => KilledByDeadCall
  BY DEF IInv
<1> QED BY <1>1, Invariance, PTL

\* The server, its clients and the pipes implement CdService: every call takes
\* effect at most once, atomically, and returns the result of its execution,
\* with any number of clients, signals, deaths and restarts.
THEOREM PipesImplementService == Spec => ServiceSpec
<1>1. Init => Service!Init
  BY ServiceInit
<1>2. IInv /\ [Next]_vars => [Service!Next]_(Service!serviceVars)
  BY ServiceStep
<1> QED BY <1>1, <1>2, Invariance, PTL DEF Spec, ServiceSpec, Service!Spec

==============================================================================
