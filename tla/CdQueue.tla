------------------------------- MODULE CdQueue -------------------------------
(***************************************************************************)
(* The client/server CD application of chapter 14: the programs of chapter *)
(* 13 over ipc_imp.c, two System V message queues with fixed keys, one for *)
(* the requests and one for all responses, addressed by process id.        *)
(*                                                                         *)
(* A queue outlives the processes that use it, until IPC_RMID: then every  *)
(* call on its identifier fails, the blocked ones too.  msgsnd to a full   *)
(* queue waits (no IPC_NOWAIT); msgrcv takes the first message of the type *)
(* asked for.  The identifier of a queue is the number of the server start *)
(* that created it, 0 is "no queue has the key".                           *)
(***************************************************************************)
EXTENDS CdDbm, Naturals, Sequences

CONSTANTS
  Pids,        \* process ids of clients
  Mortal,      \* those whose client may be killed
  MayReuse,    \* whether a pid is given to a new client when the old has ended
  MaySignal,   \* whether SIGINT, SIGHUP or SIGTERM may reach the server
  MayCrash,    \* whether the server may be killed (SIGKILL, a fault)
  MayRecreate, \* whether the server may be started with -i
  MaxStarts,   \* bound on the starts of the server
  QCap,        \* messages a queue holds (msg_qbytes, 16384 bytes in Linux)
  Ops,         \* the requests clients send
  None

ASSUME CdQueueAssumption ==
  /\ Mortal \subseteq Pids
  /\ {MayReuse, MaySignal, MayCrash, MayRecreate} \subseteq BOOLEAN
  /\ MaxStarts \in Nat
  /\ QCap \in Nat \ {0}
  /\ Ops \subseteq Requests
  /\ None \notin Pids \cup Messages \cup Results
                 \cup [client_pid : Pids, req : Requests]

VARIABLES
  \* the server
  spc,      \* where it is
  running,  \* server_running
  starts,   \* how many times it was started
  cmd,      \* mess_command: the request in service
  resp,     \* resp, once it is the last message of the answer
  seen,     \* the matches the running search has sent
  db,
  \* the queues
  sqid, sq, \* SERVER_MQUEUE: its identifier and the requests in it
  cqid, cq, \* CLIENT_MQUEUE: its identifier and the responses in it
  \* the clients
  cpc,      \* where p is
  csid,     \* serv_qid
  ccid,     \* cli_qid
  creq,     \* mess_send of the call in progress
  cres,     \* work_file: the matches read so far
  \* history
  answer,   \* the result of the execution of p's call
  got       \* the last result p's call returned

serverVars == <<spc, running, starts, cmd, resp, seen, db>>
queueVars  == <<sqid, sq, cqid, cq>>
clientVars == <<cpc, csid, ccid, creq, cres>>
history    == <<answer, got>>
vars       == <<serverVars, queueVars, clientVars, history>>

Commands == [client_pid : Pids, req : Ops]

SPc == {"off", "requests", "replies", "loop", "read", "exec", "search", "spin",
        "reply", "ending", "removing", "exited", "killed"}
CPc == {"off", "open", "ready", "send", "recv", "gone", "dead"}

Down    == {"off", "exited", "killed"}  \* no server process
Waiting == {"send", "recv"}             \* inside a call
Ended   == {"gone", "dead"}

TypeOK ==
  /\ spc \in SPc
  /\ running \in BOOLEAN
  /\ starts \in 0 .. MaxStarts
  /\ cmd \in Commands \cup {None}
  /\ resp \in Messages \cup {None}
  /\ seen \subseteq Catalogs
  /\ db \in Databases
  /\ sqid \in 0 .. starts /\ cqid \in 0 .. starts
  /\ sq \in Seq(Commands) /\ Len(sq) <= QCap
  /\ cq \in Seq([msg_key : Pids, msg : Messages]) /\ Len(cq) <= QCap
  /\ cpc \in [Pids -> CPc]
  /\ csid \in [Pids -> 0 .. starts] /\ ccid \in [Pids -> 0 .. starts]
  /\ creq \in [Pids -> Ops \cup {None}]
  /\ cres \in [Pids -> SUBSET Data]
  /\ answer \in [Pids -> Results \cup {None}]
  /\ got \in [Pids -> Results \cup {None}]

Init ==
  /\ spc = "off" /\ running = FALSE /\ starts = 0
  /\ cmd = None /\ resp = None /\ seen = {} /\ db = EmptyDb
  /\ sqid = 0 /\ sq = <<>> /\ cqid = 0 /\ cq = <<>>
  /\ cpc = [p \in Pids |-> "off"]
  /\ csid = [p \in Pids |-> 0] /\ ccid = [p \in Pids |-> 0]
  /\ creq = [p \in Pids |-> None] /\ cres = [p \in Pids |-> {}]
  /\ answer = [p \in Pids |-> None] /\ got = [p \in Pids |-> None]

-------------------------------------------------------------------------------
(* The server.                                                             *)

\* main up to server_starting: the handlers, then the database, new with -i.
ServerStart ==
  /\ spc \in Down
  /\ starts < MaxStarts
  /\ starts' = starts + 1
  /\ running' = TRUE
  /\ spc' = "requests"
  /\ \/ UNCHANGED db
     \/ MayRecreate /\ db' = EmptyDb
  /\ UNCHANGED <<cmd, resp, seen, queueVars, clientVars, history>>

\* msgget with IPC_CREAT and without IPC_EXCL: the queue that is there, or a
\* new one.
ServerGetRequests ==
  /\ spc = "requests"
  /\ sqid' = IF sqid = 0 THEN starts ELSE sqid
  /\ spc' = "replies"
  /\ UNCHANGED <<running, starts, cmd, resp, seen, db, sq, cqid, cq,
                 clientVars, history>>

ServerGetReplies ==
  /\ spc = "replies"
  /\ cqid' = IF cqid = 0 THEN starts ELSE cqid
  /\ spc' = "loop"
  /\ UNCHANGED <<running, starts, cmd, resp, seen, db, sqid, sq, cq,
                 clientVars, history>>

\* The test of the while loop of main.
ServerLoop ==
  /\ spc = "loop"
  /\ spc' = IF running THEN "read" ELSE "ending"
  /\ UNCHANGED <<running, starts, cmd, resp, seen, db, queueVars, clientVars,
                 history>>

\* Mutant of ServerRead: the request stays in the queue.
ServerReadKeeps ==
  /\ spc = "read"
  /\ sq # <<>>
  /\ cmd' = Head(sq)
  /\ spc' = "exec"
  /\ UNCHANGED <<running, starts, resp, seen, db, queueVars, clientVars, history>>

\* read_request_from_client, any type: the oldest request.
ServerRead ==
  /\ spc = "read"
  /\ sq # <<>>
  /\ cmd' = Head(sq)
  /\ sq' = Tail(sq)
  /\ spc' = "exec"
  /\ UNCHANGED <<running, starts, resp, seen, db, sqid, cqid, cq, clientVars,
                 history>>

\* process_command up to the first response: the request takes effect, a
\* search as a whole (nothing else touches the database until it has ended).
ServerExec ==
  /\ spc = "exec"
  /\ \E o \in Outcomes(db, cmd.req) :
       /\ db' = o.db
       /\ answer' = [answer EXCEPT ![cmd.client_pid] = o.result]
       /\ IF IsFind(cmd.req)
          THEN spc' = "search" /\ UNCHANGED resp
          ELSE /\ resp' = [response |-> o.result.response, data |-> o.result.data]
               /\ spc' = "reply"
  /\ UNCHANGED <<running, starts, cmd, seen, queueVars, clientVars, got>>

\* The matches the search in service has still to send.
Unsent == Matching(db, cmd.req.pattern) \ seen

\* The message that carries the match c.
MatchOf(c) == [response |-> "r_success", data |-> <<c, db.cdc[c]>>]

\* Mutant of Send: a full queue is not waited for.
SendNoWait(m) == cq' = Append(cq, [msg_key |-> cmd.client_pid, msg |-> m])

\* send_resp_to_client, once the queue has room.
Send(m) ==
  /\ Len(cq) < QCap
  /\ cq' = Append(cq, [msg_key |-> cmd.client_pid, msg |-> m])

\* Mutant of ServerSendMatch: dbm_nextkey is not called.
ServerSendSameMatch ==
  /\ spc = "search"
  /\ \E c \in Unsent \ {Empty} : Send(MatchOf(c))
  /\ UNCHANGED <<spc, running, starts, cmd, resp, seen, db, sqid, sq, cqid,
                 clientVars, history>>

\* One turn of the find loop with a match.
ServerSendMatch ==
  /\ spc = "search"
  /\ \E c \in Unsent \ {Empty} : Send(MatchOf(c)) /\ seen' = seen \cup {c}
  /\ UNCHANGED <<spc, running, starts, cmd, resp, db, sqid, sq, cqid,
                 clientVars, history>>

\* Mutant of ServerEndSearch: the loop may stop before the last match.
ServerEndSearchEarly ==
  /\ spc = "search"
  /\ seen # {} \/ Unsent = {}
  /\ resp' = [response |-> "r_find_no_more", data |-> Absent]
  /\ spc' = "reply"
  /\ UNCHANGED <<running, starts, cmd, seen, db, queueVars, clientVars, history>>

\* The find loop finds no further match.
ServerEndSearch ==
  /\ spc = "search"
  /\ Unsent = {}
  /\ resp' = [response |-> "r_find_no_more", data |-> Absent]
  /\ spc' = "reply"
  /\ UNCHANGED <<running, starts, cmd, seen, db, queueVars, clientVars, history>>

\* The endless loop of search_cdc_entry over a match with an empty catalog.
ServerSpin ==
  /\ spc = "search"
  /\ Empty \in Unsent
  /\ spc' = "spin"
  /\ UNCHANGED <<running, starts, cmd, resp, seen, db, queueVars, clientVars,
                 history>>

\* The request is over.
Finish == cmd' = None /\ resp' = None /\ seen' = {}

\* Mutant of ServerReply: start_resp_to_client has left a message, too.
ServerReplyTwice ==
  /\ spc = "reply"
  /\ Len(cq) + 1 < QCap
  /\ cq' = cq \o << [msg_key |-> cmd.client_pid, msg |-> resp],
                    [msg_key |-> cmd.client_pid, msg |-> resp] >>
  /\ Finish
  /\ spc' = "loop"
  /\ UNCHANGED <<running, starts, db, sqid, sq, cqid, clientVars, history>>

\* The last send_resp_to_client of process_command.
ServerReply ==
  /\ spc = "reply"
  /\ Send(resp)
  /\ Finish
  /\ spc' = "loop"
  /\ UNCHANGED <<running, starts, db, sqid, sq, cqid, clientVars, history>>

\* server_ending, the two msgctl calls.
ServerRemoveRequests ==
  /\ spc = "ending"
  /\ sqid' = 0
  /\ sq' = <<>>
  /\ spc' = "removing"
  /\ UNCHANGED <<running, starts, cmd, resp, seen, db, cqid, cq, clientVars,
                 history>>

\* Mutant of ServerRemoveReplies: the second msgctl is left out.
ServerKeepsReplies ==
  /\ spc = "removing"
  /\ spc' = "exited"
  /\ UNCHANGED <<running, starts, cmd, resp, seen, db, queueVars, clientVars,
                 history>>

ServerRemoveReplies ==
  /\ spc = "removing"
  /\ cqid' = 0
  /\ cq' = <<>>
  /\ spc' = "exited"
  /\ UNCHANGED <<running, starts, cmd, resp, seen, db, sqid, sq, clientVars,
                 history>>

\* SIGKILL: the queues stay, with what they hold.
ServerCrash ==
  /\ MayCrash
  /\ spc \notin Down
  /\ spc' = "killed"
  /\ running' = FALSE
  /\ Finish
  /\ UNCHANGED <<starts, db, queueVars, clientVars, history>>

-------------------------------------------------------------------------------
(* A signal.  catch_signals clears server_running; a msgrcv or msgsnd that *)
(* is blocking fails with EINTR (sa_flags is 0).                           *)

\* read_request_from_client returns 0 and main leaves its loop.
InterruptRead ==
  /\ spc = "read"
  /\ sq = <<>>
  /\ spc' = "ending"
  /\ UNCHANGED <<cmd, resp, seen>>

\* The send of a match fails: the find loop breaks with r_success in resp.
InterruptSearch ==
  /\ spc = "search"
  /\ Len(cq) = QCap
  /\ \E c \in Unsent \ {Empty} : resp' = MatchOf(c)
  /\ spc' = "reply"
  /\ UNCHANGED <<cmd, seen>>

\* The send of the last message fails: the answer is lost.
InterruptReply ==
  /\ spc = "reply"
  /\ Len(cq) = QCap
  /\ spc' = "loop"
  /\ Finish

Signal ==
  /\ MaySignal
  /\ spc \notin Down
  /\ running' = FALSE
  /\ \/ UNCHANGED <<spc, cmd, resp, seen>>
     \/ InterruptRead
     \/ InterruptSearch
     \/ InterruptReply
  /\ UNCHANGED <<starts, db, queueVars, clientVars, history>>

-------------------------------------------------------------------------------
(* The clients.                                                            *)

\* client_starting, the first msgget: without the queue the program exits.
ClientStart(p) ==
  /\ cpc[p] = "off" \/ (MayReuse /\ cpc[p] \in Ended)
  /\ cpc' = [cpc EXCEPT ![p] = IF sqid = 0 THEN "gone" ELSE "open"]
  /\ csid' = [csid EXCEPT ![p] = sqid]
  /\ creq' = [creq EXCEPT ![p] = None]
  /\ answer' = [answer EXCEPT ![p] = None]
  /\ UNCHANGED <<serverVars, queueVars, ccid, cres, got>>

\* client_starting, the second msgget.
ClientStarted(p) ==
  /\ cpc[p] = "open"
  /\ cpc' = [cpc EXCEPT ![p] = IF cqid = 0 THEN "gone" ELSE "ready"]
  /\ ccid' = [ccid EXCEPT ![p] = cqid]
  /\ UNCHANGED <<serverVars, queueVars, csid, creq, cres, history>>

\* The user makes a choice that leads to an access function of clientif.c.
ClientCall(p) ==
  /\ cpc[p] = "ready"
  /\ \E r \in Ops : creq' = [creq EXCEPT ![p] = r]
  /\ cpc' = [cpc EXCEPT ![p] = "send"]
  /\ UNCHANGED <<serverVars, queueVars, csid, ccid, cres, history>>

\* The call ends: with the result x, or as a failure that is reported.
EndCall(p) ==
  /\ cpc' = [cpc EXCEPT ![p] = "ready"]
  /\ creq' = [creq EXCEPT ![p] = None]
  /\ cres' = [cres EXCEPT ![p] = {}]
  /\ answer' = [answer EXCEPT ![p] = None]

Returns(p, x) == got' = [got EXCEPT ![p] = x]

\* send_mess_to_server, once the queue has room.
ClientSend(p) ==
  /\ cpc[p] = "send"
  /\ csid[p] = sqid
  /\ Len(sq) < QCap
  /\ sq' = Append(sq, [client_pid |-> p, req |-> creq[p]])
  /\ cpc' = [cpc EXCEPT ![p] = "recv"]
  /\ UNCHANGED <<serverVars, sqid, cqid, cq, csid, ccid, creq, cres, history>>

\* send_mess_to_server when the queue is not there any more.
ClientSendFails(p) ==
  /\ cpc[p] = "send"
  /\ csid[p] # sqid
  /\ EndCall(p)
  /\ UNCHANGED <<serverVars, queueVars, csid, ccid, got>>

\* The first message in the queue that msgrcv with type p takes.
IsFirstFor(p, i) ==
  /\ i \in 1 .. Len(cq)
  /\ cq[i].msg_key = p
  /\ \A j \in 1 .. i - 1 : cq[j].msg_key # p

\* Mutant of ClientRecv: the type is 0, any message is taken.
ClientRecvAny(p) ==
  /\ cpc[p] = "recv"
  /\ ccid[p] = cqid
  /\ cq # <<>>
  /\ LET m == Head(cq).msg IN
       /\ cq' = Tail(cq)
       /\ IF IsLast(creq[p], m)
          THEN /\ EndCall(p)
               /\ Returns(p, [response |-> m.response, data |-> m.data,
                              found |-> cres[p]])
          ELSE /\ cres' = [cres EXCEPT ![p] = @ \cup {m.data}]
               /\ UNCHANGED <<cpc, creq, history>>
  /\ UNCHANGED <<serverVars, sqid, sq, cqid, csid, ccid>>

\* read_resp_from_server.  A match of a search is put into work_file and the
\* client reads on; any other message ends the call.
ClientRecv(p) ==
  /\ cpc[p] = "recv"
  /\ ccid[p] = cqid
  /\ \E i \in 1 .. Len(cq) :
       /\ IsFirstFor(p, i)
       /\ cq' = SubSeq(cq, 1, i - 1) \o SubSeq(cq, i + 1, Len(cq))
       /\ LET m == cq[i].msg IN
            IF IsLast(creq[p], m)
            THEN /\ EndCall(p)
                 /\ Returns(p, [response |-> m.response, data |-> m.data,
                                found |-> cres[p]])
            ELSE /\ cres' = [cres EXCEPT ![p] = @ \cup {m.data}]
                 /\ UNCHANGED <<cpc, creq, history>>
  /\ UNCHANGED <<serverVars, sqid, sq, cqid, csid, ccid>>

\* read_resp_from_server when the queue was removed.  The loop of a search
\* just ends: its caller gets what came so far and then "no more".  The other
\* access functions report the failure.
ClientRecvFails(p) ==
  /\ cpc[p] = "recv"
  /\ ccid[p] # cqid
  /\ EndCall(p)
  /\ IF IsFind(creq[p])
     THEN Returns(p, [response |-> "r_find_no_more", data |-> Absent,
                      found |-> cres[p]])
     ELSE UNCHANGED got
  /\ UNCHANGED <<serverVars, queueVars, csid, ccid>>

\* The process ends.  Nothing is taken out of the queues.
ClientEnd(p, how) ==
  /\ cpc' = [cpc EXCEPT ![p] = how]
  /\ csid' = [csid EXCEPT ![p] = 0]
  /\ ccid' = [ccid EXCEPT ![p] = 0]
  /\ cres' = [cres EXCEPT ![p] = {}]
  /\ UNCHANGED <<serverVars, queueVars, creq, history>>

\* The quit entry of the menu: client_ending.
ClientQuit(p) == cpc[p] = "ready" /\ ClientEnd(p, "gone")

ClientDie(p) ==
  /\ p \in Mortal
  /\ cpc[p] \notin {"off"} \cup Ended
  /\ ClientEnd(p, "dead")

-------------------------------------------------------------------------------

ServerStep ==
  \/ ServerGetRequests \/ ServerGetReplies \/ ServerLoop \/ ServerRead
  \/ ServerExec \/ ServerSendMatch \/ ServerEndSearch \/ ServerSpin
  \/ ServerReply \/ ServerRemoveRequests \/ ServerRemoveReplies

\* The steps a client takes without waiting for its user.
ClientStep(p) ==
  \/ ClientStarted(p) \/ ClientSend(p) \/ ClientSendFails(p)
  \/ ClientRecv(p) \/ ClientRecvFails(p)

UserStep(p) == ClientStart(p) \/ ClientCall(p) \/ ClientQuit(p)

Next ==
  \/ ServerStart
  \/ ServerStep
  \/ ServerCrash
  \/ Signal
  \/ \E p \in Pids : ClientStep(p) \/ UserStep(p) \/ ClientDie(p)

Spec == Init /\ [][Next]_vars

\* The operating system runs every process that can take a step.  Nobody has
\* to start a program, make a request, quit, send a signal or kill.
FairSpec ==
  /\ Spec
  /\ WF_vars(ServerStep)
  /\ \A p \in Pids : WF_vars(ClientStep(p))

-------------------------------------------------------------------------------
(* Properties.                                                             *)

\* p has a request with the server: in the queue or in service.
HasRequest(p) ==
  \/ cmd # None /\ cmd.client_pid = p
  \/ \E i \in 1 .. Len(sq) : sq[i].client_pid = p

\* The place in the response queue of p's k-th message.
MessagesFor(p) == {i \in 1 .. Len(cq) : cq[i].msg_key = p}

\* A pid has at most one request with the server, and a response in the queue
\* belongs to the call its client is in (or was killed in): the message that
\* ends the call is the last one for the pid, and nothing comes after it.
\* This is why read_resp_from_server needs the pid only, and no request number.
OneAnswerPerCall ==
  /\ \A i, j \in 1 .. Len(sq) : sq[i].client_pid = sq[j].client_pid => i = j
  /\ \A i \in 1 .. Len(sq) :
       cmd # None => cmd.client_pid # sq[i].client_pid
  /\ \A p \in Pids :
       /\ HasRequest(p) \/ MessagesFor(p) # {} => cpc[p] \in {"recv", "dead"}
       /\ \A i \in MessagesFor(p) :
            IsLast(creq[p], cq[i].msg) =>
              ~HasRequest(p) /\ \A j \in MessagesFor(p) : j <= i

\* After server_ending the queues are gone: a client started then is told so,
\* and nothing is left for the next server to find.
EndRemovesQueues ==
  spc = "exited" => sqid = 0 /\ cqid = 0 /\ sq = <<>> /\ cq = <<>>

\* The calls as CdService sees them.
callOf ==
  [p \in Pids |->
     IF answer[p] # None
     THEN [at |-> "executed", req |-> creq[p], result |-> answer[p]]
     ELSE IF HasRequest(p) THEN [at |-> "pending", req |-> creq[p]]
     ELSE [at |-> "idle"]]

Service == INSTANCE CdService WITH Callers <- Pids, call <- callOf

\* Over the queues, too, every call is one atomic access to the database,
\* executed at most once, and returns the result of its own execution.  A
\* request that a killed server left in the queue is executed by the next one.
ServiceSpec == Service!Spec

\* The server is stuck: the response queue is full of messages for clients
\* that were killed, or a search has met an entry without a catalogue name.
Stuck ==
  \/ Len(cq) = QCap /\ \A i \in 1 .. Len(cq) : cpc[cq[i].msg_key] = "dead"
  \/ spc = "spin"

\* A client with a request to send or with the server gets its answer, unless
\* it is killed, the server ends or is stuck in one of these two ways.  In
\* particular the full queues never make the server and the clients wait for
\* each other, and a request that waits while the server is killed and started
\* again is served (the one in service is not: its client waits for ever).
RequestIsAnsweredUnlessStuck ==
  \A p \in Pids :
    (cpc[p] = "send" \/ HasRequest(p)) ~>
      (cpc[p] \in {"ready", "dead"} \/ spc \in Down \/ Stuck)

\* A client is never left waiting by the end of the server: when the queues
\* are removed, every call returns (with pipes it would wait for ever).
EndReachesClients ==
  \A p \in Pids : (cpc[p] \in Waiting /\ spc = "exited") ~> cpc[p] \notin Waiting

-------------------------------------------------------------------------------
(* What comments of the code say, and the code does not do.                *)

\* ipc_imp.c, read_resp_from_server: "it uses its process ID to receive only
\* messages addressed to itself".  So a call returns the result of its own
\* execution.  It does as long as no pid is used twice.
OwnAnswers ==
  [][\A p \in Pids : got'[p] # got[p] => got'[p] = answer[p]]_vars

-------------------------------------------------------------------------------
(* The inductive invariants.  The first one holds in any case, the second    *)
(* one as long as no pid is used twice, the third one if, besides, no signal *)
(* ends the server.                                                          *)

Serving == {"exec", "search", "spin", "reply"}
Sending == {"search", "spin", "reply"}

\* The server's variables follow its place.
ServerInv ==
  /\ cmd # None <=> spc \in Serving
  /\ resp # None <=> spc = "reply"
  /\ spc \in {"search", "spin"} => IsFind(cmd.req)
  /\ spc # "off" => starts # 0

\* Only a queue that exists holds messages, and the server has its queues from
\* server_starting to server_ending.  A queue it is going to make has a number
\* that no client holds.
QueuesFollowServer ==
  /\ sqid = 0 => sq = <<>>
  /\ cqid = 0 => cq = <<>>
  /\ spc \in {"replies", "loop", "read", "ending"} \cup Serving => sqid # 0
  /\ spc \in {"loop", "read", "ending"} \cup Serving => cqid # 0
  /\ spc \in {"removing", "exited"} => sqid = 0
  /\ spc = "exited" => cqid = 0
  /\ spc = "requests" => sqid < starts /\ \A p \in Pids : csid[p] < starts

\* A client works on queues it has found.  As long as the request queue is the
\* one it has found, so is the response queue.
ClientHasQueues(p) ==
  /\ cpc[p] \in {"open", "ready"} \cup Waiting => csid[p] # 0
  /\ cpc[p] \in {"ready"} \cup Waiting =>
       ccid[p] # 0 /\ (csid[p] = sqid => ccid[p] = cqid)
  /\ cpc[p] \in Waiting => creq[p] \in Ops

\* The types, the places and the identifiers, and that nothing is left of the
\* queues at the end.
QueueInv ==
  /\ TypeOK
  /\ ServerInv
  /\ QueuesFollowServer
  /\ \A p \in Pids : ClientHasQueues(p)
  /\ EndRemovesQueues

\* What the server and the queues hold of p belongs to the call p is in.
CallOf(p) ==
  /\ cmd # None /\ cmd.client_pid = p => creq[p] = cmd.req
  /\ \A i \in 1 .. Len(sq) : sq[i].client_pid = p => creq[p] = sq[i].req
  /\ cpc[p] = "recv" /\ ccid[p] # cqid => ~HasRequest(p) /\ MessagesFor(p) = {}

CallInv == OneAnswerPerCall /\ \A p \in Pids : CallOf(p)

\* The request of p is being answered: it has taken effect.
Answering(p) == spc \in Sending /\ cmd.client_pid = p

\* The execution of a call is recorded from ServerExec to the return.
HistoryOf(p) ==
  /\ answer[p] # None => cpc[p] \in {"recv", "dead"}
  /\ Answering(p) => answer[p] # None
  /\ HasRequest(p) /\ ~Answering(p) => answer[p] = None
  /\ cpc[p] # "recv" => cres[p] = {}
  /\ cpc[p] \in {"open", "ready"} \cup Waiting => csid[p] = sqid

HistoryInv ==
  /\ spc \notin Sending => seen = {}
  /\ spc \notin {"ending", "removing", "exited"}
  /\ spc \notin Down => running
  /\ \A p \in Pids : HistoryOf(p)

\* The data of the messages for p among the first n of s.
DataFor(s, p, n) ==
  {s[j].msg.data : j \in {k \in 1 .. Len(s) : s[k].msg_key = p /\ k <= n}}

\* The messages for p among the first n of the queue, with those it has read.
FoundUpTo(p, n) == cres[p] \cup DataFor(cq, p, n)

\* What a call returns when m is the last message and f came before it.
ResultOf(m, f) == [response |-> m.response, data |-> m.data, found |-> f]

\* The entries of the catalogues in C.
EntriesOf(C) == {<<c, db.cdc[c]>> : c \in C}

\* The messages of the answer to p's call, read, in the queue and still to be
\* sent, make up the result of the execution of this call.
PartsMakeResult(p) ==
  cpc[p] = "recv" =>
    /\ HasRequest(p) /\ ~Answering(p) => MessagesFor(p) = {} /\ cres[p] = {}
    /\ Answering(p) /\ spc # "reply" =>
         /\ answer[p] = ResultOf([response |-> "r_find_no_more", data |-> Absent],
                                 EntriesOf(Matching(db, cmd.req.pattern)))
         /\ seen \subseteq Matching(db, cmd.req.pattern)
         /\ FoundUpTo(p, Len(cq)) = EntriesOf(seen)
    /\ Answering(p) /\ spc = "reply" /\ IsLast(creq[p], resp) =>
         answer[p] = ResultOf(resp, FoundUpTo(p, Len(cq)))
    /\ \A i \in MessagesFor(p) :
         IsLast(creq[p], cq[i].msg) => answer[p] = ResultOf(cq[i].msg, FoundUpTo(p, i - 1))

ResultInv == \A p \in Pids : PartsMakeResult(p)

IInv ==
  /\ QueueInv
  /\ ~MayReuse => CallInv
  /\ ~MayReuse /\ ~MaySignal => HistoryInv /\ ResultInv

==============================================================================
