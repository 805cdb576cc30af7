-------------------------------- MODULE CdPipe --------------------------------
(***************************************************************************)
(* The client/server CD application of chapter 13: server.c and            *)
(* pipe_imp.c on the server side, clientif.c and pipe_imp.c on the client  *)
(* side, talking over named pipes.  A step of the model is one blocking or *)
(* externally visible system call with the code up to the next one.        *)
(*                                                                         *)
(* A FIFO behaves as POSIX and Linux define it.  open registers the reader *)
(* or the writer at once and then waits for the other side, which releases *)
(* it for good when it opens; a read of an empty pipe waits while a writer *)
(* is registered and returns 0 when there is none; a write to a full pipe  *)
(* waits; a write without a reader kills the writer with SIGPIPE (neither  *)
(* program handles it).  A message is below PIPE_BUF: read and written     *)
(* whole.  The inode of the N-th server start's pipe is the number N.      *)
(***************************************************************************)
EXTENDS CdDbm, Naturals, Sequences

CONSTANTS
  Pids,        \* process ids of clients, each started at most once
  Mortal,      \* the clients a signal may kill, or that exit uncleanly
  MaySignal,   \* whether SIGINT, SIGHUP or SIGTERM may reach the server
  MayRecreate, \* whether the server may be started with -i
  MaxStarts,   \* bound on the starts of the server
  CliCap,      \* messages a client pipe holds (64 KiB in Linux)
  Ops,         \* the requests clients send
  None

ASSUME CdPipeAssumption ==
  /\ Mortal \subseteq Pids
  /\ MaySignal \in BOOLEAN
  /\ MayRecreate \in BOOLEAN
  /\ MaxStarts \in Nat
  /\ CliCap \in Nat \ {0}
  /\ Ops \subseteq Requests
  /\ None \notin Pids \cup Messages \cup Results
                 \cup [client_pid : Pids, req : Requests]

VARIABLES
  \* the server and what it holds
  spc,      \* where it is
  running,  \* server_running
  starts,   \* how many times it was started
  sfd,      \* server_fd: the inode it reads, 0 when closed
  cmd,      \* mess_command: the request in service
  resp,     \* resp, once it is the last message of the answer
  seen,     \* the matches the running search has sent
  cfd,      \* client_fd: the client whose pipe is open for writing
  db,
  \* the file system and the pipes
  sname,    \* the inode that SERVER_PIPE names, 0 when there is no such name
  sbuf,     \* the requests in the pipe of the last start
  cname,    \* cname[p]: whether the name of p's pipe exists
  cbuf,     \* cbuf[p]: the responses in p's pipe
  \* the clients
  cpc,      \* where p is
  csfd,     \* server_fd: the inode it writes, 0 when closed
  crd,      \* client_fd # -1
  cwr,      \* client_write_fd # -1
  creq,     \* mess_send of the call in progress
  cres,     \* work_file: the matches read so far
  \* history
  answer,   \* the result of the execution of p's call
  got       \* the last result p's call returned

serverVars == <<spc, running, starts, sfd, cmd, resp, seen, cfd, db>>
pipeVars   == <<sname, sbuf, cname, cbuf>>
clientVars == <<cpc, csfd, crd, cwr, creq, cres>>
history    == <<answer, got>>
vars       == <<serverVars, pipeVars, clientVars, history>>

Inodes   == 1 .. MaxStarts
Commands == [client_pid : Pids, req : Ops]

SPc == {"off", "mkfifo", "open", "openwait", "loop", "read", "reopen",
        "reopening", "reopenwait", "reread", "connect", "connectwait", "exec",
        "search", "spin", "reply", "closing", "unlinking", "exited", "killed"}

CPc == {"off", "openwait", "mkfifo", "ready", "connect", "connectwait",
        "openwrite", "recv", "gone", "dead"}

Waiting == {"connect", "connectwait", "openwrite", "recv"}  \* inside a call
Down    == {"off", "exited", "killed"}                      \* no server process

TypeOK ==
  /\ spc \in SPc
  /\ running \in BOOLEAN
  /\ starts \in 0 .. MaxStarts
  /\ sfd \in {0, starts}
  /\ sname \in 0 .. starts
  /\ cmd \in Commands \cup {None}
  /\ resp \in Messages \cup {None}
  /\ seen \subseteq Catalogs
  /\ cfd \in Pids \cup {None}
  /\ db \in Databases
  /\ sbuf \in Seq(Commands)
  /\ cname \in [Pids -> BOOLEAN]
  /\ cbuf \in [Pids -> Seq(Messages)]
  /\ cpc \in [Pids -> CPc]
  /\ csfd \in [Pids -> 0 .. starts]
  /\ crd \in [Pids -> BOOLEAN]
  /\ cwr \in [Pids -> BOOLEAN]
  /\ creq \in [Pids -> Ops \cup {None}]
  /\ cres \in [Pids -> SUBSET Data]
  /\ answer \in [Pids -> Results \cup {None}]
  /\ got \in [Pids -> Results \cup {None}]

Init ==
  /\ spc = "off" /\ running = FALSE /\ starts = 0 /\ sfd = 0 /\ cmd = None
  /\ resp = None /\ seen = {} /\ cfd = None /\ db = EmptyDb
  /\ sname = 0 /\ sbuf = <<>>
  /\ cname = [p \in Pids |-> FALSE] /\ cbuf = [p \in Pids |-> <<>>]
  /\ cpc = [p \in Pids |-> "off"] /\ csfd = [p \in Pids |-> 0]
  /\ crd = [p \in Pids |-> FALSE] /\ cwr = [p \in Pids |-> FALSE]
  /\ creq = [p \in Pids |-> None] /\ cres = [p \in Pids |-> {}]
  /\ answer = [p \in Pids |-> None] /\ got = [p \in Pids |-> None]

\* The clients that have inode i open, or are opening it, for writing.
Writers(i) == {p \in Pids : csfd[p] = i}

\* Opening inode i for reading releases the clients blocked opening it.
ReleaseWriters(i) ==
  cpc' = [p \in Pids |->
            IF cpc[p] = "openwait" /\ csfd[p] = i THEN "mkfifo" ELSE cpc[p]]

-------------------------------------------------------------------------------
(* The server.                                                             *)

\* main up to server_starting: the handlers, then the database, new with -i.
ServerStart ==
  /\ spc \in Down
  /\ starts < MaxStarts
  /\ starts' = starts + 1
  /\ running' = TRUE
  /\ spc' = "mkfifo"
  /\ \/ UNCHANGED db
     \/ MayRecreate /\ db' = EmptyDb
  /\ UNCHANGED <<sfd, cmd, resp, seen, cfd, pipeVars, clientVars, history>>

\* unlink of an old name, then mkfifo.
ServerMkfifo ==
  /\ spc = "mkfifo"
  /\ sname' = starts
  /\ spc' = "open"
  /\ UNCHANGED <<running, starts, sfd, cmd, resp, seen, cfd, db,
                 sbuf, cname, cbuf, clientVars, history>>

\* open(SERVER_PIPE, O_RDONLY) from the place "from": on to "on" when a client
\* has the pipe open or is opening it, else blocked at "blocked".
OpenServerPipe(from, on, blocked) ==
  /\ spc = from
  /\ sfd' = sname
  /\ spc' = IF Writers(sname) # {} THEN on ELSE blocked
  /\ ReleaseWriters(sname)
  /\ UNCHANGED <<running, starts, cmd, resp, seen, cfd, db, pipeVars,
                 csfd, crd, cwr, creq, cres, history>>

ServerOpen == OpenServerPipe("open", "loop", "openwait")

\* The test of the while loop of main.
ServerLoop ==
  /\ spc = "loop"
  /\ spc' = IF running THEN "read" ELSE "closing"
  /\ UNCHANGED <<running, starts, sfd, cmd, resp, seen, cfd, db, pipeVars,
                 clientVars, history>>

\* read_request_from_client, a whole message.
ServerRead ==
  /\ spc \in {"read", "reread"}
  /\ sbuf # <<>>
  /\ cmd' = Head(sbuf)
  /\ sbuf' = Tail(sbuf)
  /\ spc' = "connect"
  /\ UNCHANGED <<running, starts, sfd, resp, seen, cfd, db, sname, cname, cbuf,
                 clientVars, history>>

\* read_request_from_client, end of file: the first read leads to a close and
\* a second open, the second read to the end of the server.
ServerReadEof ==
  /\ sbuf = <<>>
  /\ Writers(sfd) = {}
  /\ \/ spc = "read" /\ spc' = "reopen" /\ UNCHANGED running
     \/ spc = "reread" /\ spc' = "closing" /\ running' = FALSE
  /\ UNCHANGED <<starts, sfd, cmd, resp, seen, cfd, db, pipeVars, clientVars,
                 history>>

\* Mutant of ServerReopenClose: what the pipe holds is lost in any case.
ServerReopenDiscards ==
  /\ spc = "reopen"
  /\ sbuf' = <<>>
  /\ sfd' = 0
  /\ spc' = "reopening"
  /\ UNCHANGED <<running, starts, cmd, resp, seen, cfd, db, sname, cname, cbuf,
                 clientVars, history>>

\* The kernel drops what a pipe holds when its last descriptor is closed.
ServerReopenClose ==
  /\ spc = "reopen"
  /\ sbuf' = IF Writers(sfd) = {} THEN <<>> ELSE sbuf
  /\ sfd' = 0
  /\ spc' = "reopening"
  /\ UNCHANGED <<running, starts, cmd, resp, seen, cfd, db, sname, cname, cbuf,
                 clientVars, history>>

\* Nobody but the server unlinks SERVER_PIPE: the name is there.
ServerReopen == OpenServerPipe("reopening", "reread", "reopenwait")

\* Mutant of ServerConnect: the open does not wait for a reader.
ServerConnectAtOnce ==
  /\ spc = "connect"
  /\ cfd' = cmd.client_pid
  /\ spc' = "exec"
  /\ cpc' = IF cpc[cmd.client_pid] = "connectwait"
            THEN [cpc EXCEPT ![cmd.client_pid] = "openwrite"] ELSE cpc
  /\ UNCHANGED <<running, starts, sfd, cmd, resp, seen, db, pipeVars, csfd, crd,
                 cwr, creq, cres, history>>

\* start_resp_to_client: opens the client's pipe for writing, which releases a
\* client blocked opening it for reading, and blocks until there is a reader.
\* Without the name the request is dropped.
ServerConnect ==
  /\ spc = "connect"
  /\ LET p == cmd.client_pid IN
       IF cname[p]
       THEN /\ cfd' = p
            /\ spc' = IF crd[p] THEN "exec" ELSE "connectwait"
            /\ cpc' = IF cpc[p] = "connectwait"
                      THEN [cpc EXCEPT ![p] = "openwrite"] ELSE cpc
            /\ UNCHANGED cmd
       ELSE /\ cmd' = None
            /\ spc' = "loop"
            /\ UNCHANGED <<cfd, cpc>>
  /\ UNCHANGED <<running, starts, sfd, resp, seen, db, pipeVars, csfd, crd, cwr,
                 creq, cres, history>>

\* process_command up to the first response: the request takes effect.  A
\* search takes effect as a whole: nothing else touches the database until it
\* has sent its last match.
ServerExec ==
  /\ spc = "exec"
  /\ \E o \in Outcomes(db, cmd.req) :
       /\ db' = o.db
       /\ answer' = [answer EXCEPT ![cmd.client_pid] = o.result]
       /\ IF IsFind(cmd.req)
          THEN spc' = "search" /\ UNCHANGED resp
          ELSE /\ resp' = [response |-> o.result.response, data |-> o.result.data]
               /\ spc' = "reply"
  /\ UNCHANGED <<running, starts, sfd, cmd, seen, cfd, pipeVars, clientVars, got>>

\* SIGPIPE: the server dies, every name stays.
KillServer ==
  /\ spc' = "killed"
  /\ sfd' = 0 /\ cfd' = None /\ sbuf' = <<>>
  /\ cmd' = None /\ resp' = None /\ seen' = {}
  /\ UNCHANGED cbuf

\* The matches the search in service has still to send.
Unsent == Matching(db, cmd.req.pattern) \ seen

\* One turn of the find loop with a match: it is sent, the pipe has room.
ServerSendMatch ==
  /\ spc = "search"
  /\ LET p == cmd.client_pid IN
       \E c \in Unsent \ {Empty} :
         IF crd[p]
         THEN /\ Len(cbuf[p]) < CliCap
              /\ cbuf' = [cbuf EXCEPT ![p] = Append(@,
                            [response |-> "r_success", data |-> <<c, db.cdc[c]>>])]
              /\ seen' = seen \cup {c}
              /\ UNCHANGED <<spc, sfd, cfd, sbuf, cmd, resp>>
         ELSE KillServer
  /\ UNCHANGED <<running, starts, db, sname, cname, clientVars, history>>

\* Mutant of ServerEndSearch: the loop may stop before the last match.
ServerEndSearchEarly ==
  /\ spc = "search"
  /\ seen # {} \/ Unsent = {}
  /\ resp' = [response |-> "r_find_no_more", data |-> Absent]
  /\ spc' = "reply"
  /\ UNCHANGED <<running, starts, sfd, cmd, seen, cfd, db, pipeVars, clientVars,
                 history>>

\* The find loop finds no further match.
ServerEndSearch ==
  /\ spc = "search"
  /\ Unsent = {}
  /\ resp' = [response |-> "r_find_no_more", data |-> Absent]
  /\ spc' = "reply"
  /\ UNCHANGED <<running, starts, sfd, cmd, seen, cfd, db, pipeVars, clientVars,
                 history>>

\* search_cdc_entry of cd_dbm.c meets a match whose catalog is empty: its loop
\* neither returns it nor moves to the next key, for ever.
ServerSpin ==
  /\ spc = "search"
  /\ Empty \in Unsent
  /\ spc' = "spin"
  /\ UNCHANGED <<running, starts, sfd, cmd, resp, seen, cfd, db, pipeVars,
                 clientVars, history>>

\* The last send_resp_to_client and end_resp_to_client.
ServerReply ==
  /\ spc = "reply"
  /\ LET p == cmd.client_pid IN
       IF crd[p]
       THEN /\ Len(cbuf[p]) < CliCap
            /\ cbuf' = [cbuf EXCEPT ![p] = Append(@, resp)]
            /\ spc' = "loop"
            /\ cfd' = None /\ cmd' = None /\ resp' = None /\ seen' = {}
            /\ UNCHANGED <<sfd, sbuf>>
       ELSE KillServer
  /\ UNCHANGED <<running, starts, db, sname, cname, clientVars, history>>

\* Mutant of ServerClose: server_ending does not close server_fd.
ServerCloseLeaves ==
  /\ spc = "closing"
  /\ spc' = "unlinking"
  /\ UNCHANGED <<running, starts, sfd, cmd, resp, seen, cfd, db, pipeVars,
                 clientVars, history>>

\* server_ending, its close and then its unlink.
ServerClose ==
  /\ spc = "closing"
  /\ sfd' = 0
  /\ sbuf' = <<>>
  /\ spc' = "unlinking"
  /\ UNCHANGED <<running, starts, cmd, resp, seen, cfd, db, sname, cname, cbuf,
                 clientVars, history>>

ServerUnlink ==
  /\ spc = "unlinking"
  /\ sname' = 0
  /\ spc' = "exited"
  /\ UNCHANGED <<running, starts, sfd, cmd, resp, seen, cfd, db, sbuf, cname, cbuf,
                 clientVars, history>>

-------------------------------------------------------------------------------
(* A signal.  catch_signals clears server_running; a system call that is   *)
(* blocking fails with EINTR (sa_flags is 0), one about to block does not. *)

\* The pipe of the client in service is full: a write to it blocks.
WriteBlocks == LET p == cmd.client_pid IN crd[p] /\ Len(cbuf[p]) = CliCap

\* The open in server_starting fails: main exits and leaves the name.
InterruptOpen ==
  /\ spc = "openwait"
  /\ spc' = "exited"
  /\ sfd' = 0
  /\ UNCHANGED <<cmd, resp, seen, cfd>>

\* A read, or the open in read_request_from_client, fails: the loop ends.
InterruptRead ==
  /\ \/ spc \in {"read", "reread"} /\ sbuf = <<>> /\ UNCHANGED sfd
     \/ spc = "reopenwait" /\ sfd' = 0
  /\ spc' = "closing"
  /\ UNCHANGED <<cmd, resp, seen, cfd>>

\* start_resp_to_client fails: the request is dropped.
InterruptConnect ==
  /\ spc = "connectwait"
  /\ spc' = "loop"
  /\ cfd' = None /\ cmd' = None
  /\ UNCHANGED <<sfd, resp, seen>>

\* Mutant of InterruptSearch: the break is taken with r_find_no_more in resp.
InterruptSearchEnds ==
  /\ spc = "search"
  /\ WriteBlocks
  /\ Unsent \ {Empty} # {}
  /\ resp' = [response |-> "r_find_no_more", data |-> Absent]
  /\ spc' = "reply"
  /\ UNCHANGED <<sfd, cmd, seen, cfd>>

\* The send of a match fails: the find loop breaks with r_success in resp.
InterruptSearch ==
  /\ spc = "search"
  /\ WriteBlocks
  /\ \E c \in Unsent \ {Empty} :
       resp' = [response |-> "r_success", data |-> <<c, db.cdc[c]>>]
  /\ spc' = "reply"
  /\ UNCHANGED <<sfd, cmd, seen, cfd>>

\* The send of the last message fails: the answer is lost.
InterruptReply ==
  /\ spc = "reply"
  /\ WriteBlocks
  /\ spc' = "loop"
  /\ cfd' = None /\ cmd' = None /\ resp' = None /\ seen' = {}
  /\ UNCHANGED sfd

Signal ==
  /\ MaySignal
  /\ spc \notin Down
  /\ running' = FALSE
  /\ \/ UNCHANGED <<spc, sfd, cmd, resp, seen, cfd>>
     \/ InterruptOpen
     \/ InterruptRead
     \/ InterruptConnect
     \/ InterruptSearch
     \/ InterruptReply
  /\ UNCHANGED <<starts, db, pipeVars, clientVars, history>>

-------------------------------------------------------------------------------
(* The clients.                                                            *)

\* client_starting, the open of the server's pipe: it fails without the name,
\* releases a server blocked in its open, and blocks until there is a reader.
ClientOpen(p) ==
  /\ cpc[p] = "off"
  /\ IF sname = 0
     THEN /\ cpc' = [cpc EXCEPT ![p] = "gone"]
          /\ UNCHANGED <<csfd, spc>>
     ELSE /\ csfd' = [csfd EXCEPT ![p] = sname]
          /\ cpc' = [cpc EXCEPT ![p] = IF sfd = sname THEN "mkfifo" ELSE "openwait"]
          /\ spc' = CASE sfd # sname        -> spc
                      [] spc = "openwait"   -> "loop"
                      [] spc = "reopenwait" -> "reread"
                      [] OTHER              -> spc
  /\ UNCHANGED <<running, starts, sfd, cmd, resp, seen, cfd, db, pipeVars,
                 crd, cwr, creq, cres, history>>

\* Mutant of ClientMkfifo: mkfifo first and unlink after it.
ClientMkfifoUnlinks(p) ==
  /\ cpc[p] = "mkfifo"
  /\ cpc' = [cpc EXCEPT ![p] = "ready"]
  /\ UNCHANGED <<serverVars, pipeVars, csfd, crd, cwr, creq, cres, history>>

\* client_starting, the client's own pipe.
ClientMkfifo(p) ==
  /\ cpc[p] = "mkfifo"
  /\ cname' = [cname EXCEPT ![p] = TRUE]
  /\ cpc' = [cpc EXCEPT ![p] = "ready"]
  /\ UNCHANGED <<serverVars, sname, sbuf, cbuf, csfd, crd, cwr, creq, cres, history>>

\* The process ends: its descriptors are closed, and what a pipe holds is lost
\* with the last of them.
ClientExit(p, how) ==
  /\ cpc' = [cpc EXCEPT ![p] = how]
  /\ csfd' = [csfd EXCEPT ![p] = 0]
  /\ crd' = [crd EXCEPT ![p] = FALSE]
  /\ cwr' = [cwr EXCEPT ![p] = FALSE]
  /\ cbuf' = [cbuf EXCEPT ![p] = <<>>]
  /\ cres' = [cres EXCEPT ![p] = {}]
  /\ sbuf' = IF sfd = 0 /\ Writers(starts) \subseteq {p} THEN <<>> ELSE sbuf
  /\ UNCHANGED <<serverVars, sname, history>>

\* Mutant of ClientSend: the message is written a second time.
ClientSendTwice(p) ==
  /\ cpc[p] = "ready"
  /\ sfd = csfd[p]
  /\ \E r \in Ops :
       /\ sbuf' = sbuf \o << [client_pid |-> p, req |-> r],
                            [client_pid |-> p, req |-> r] >>
       /\ creq' = [creq EXCEPT ![p] = r]
  /\ cpc' = [cpc EXCEPT ![p] = IF crd[p] THEN "recv" ELSE "connect"]
  /\ cres' = [cres EXCEPT ![p] = {}]
  /\ UNCHANGED <<serverVars, sname, cname, cbuf, csfd, crd, cwr, history>>

\* An access function of clientif.c calls send_mess_to_server.  The first call
\* goes on to open the client's pipe, a later one finds it open.
ClientSend(p) ==
  /\ cpc[p] = "ready"
  /\ sfd = csfd[p]
  /\ \E r \in Ops :
       /\ sbuf' = Append(sbuf, [client_pid |-> p, req |-> r])
       /\ creq' = [creq EXCEPT ![p] = r]
  /\ cpc' = [cpc EXCEPT ![p] = IF crd[p] THEN "recv" ELSE "connect"]
  /\ cres' = [cres EXCEPT ![p] = {}]
  /\ UNCHANGED <<serverVars, sname, cname, cbuf, csfd, crd, cwr, history>>

\* send_mess_to_server to a pipe that nobody reads: SIGPIPE.
ClientSendKilled(p) ==
  /\ cpc[p] = "ready"
  /\ sfd # csfd[p]
  /\ ClientExit(p, "dead")
  /\ UNCHANGED <<cname, creq>>

\* start_resp_from_server, the open for reading.
ClientOpenRead(p) ==
  /\ cpc[p] = "connect"
  /\ crd' = [crd EXCEPT ![p] = TRUE]
  /\ cpc' = [cpc EXCEPT ![p] = IF cfd = p THEN "openwrite" ELSE "connectwait"]
  /\ spc' = IF cfd = p /\ spc = "connectwait" THEN "exec" ELSE spc
  /\ UNCHANGED <<running, starts, sfd, cmd, resp, seen, cfd, db, pipeVars,
                 csfd, cwr, creq, cres, history>>

\* start_resp_from_server, the open for writing.
ClientOpenWrite(p) ==
  /\ cpc[p] = "openwrite"
  /\ cwr' = [cwr EXCEPT ![p] = TRUE]
  /\ cpc' = [cpc EXCEPT ![p] = "recv"]
  /\ UNCHANGED <<serverVars, pipeVars, csfd, crd, creq, cres, history>>

\* read_resp_from_server.  A match of a search is put into work_file and the
\* client reads on; any other message ends the call, and so does end of file,
\* as a failure: the pipe is empty and nobody has it open for writing.
ClientRecv(p) ==
  /\ cpc[p] = "recv"
  /\ cbuf[p] # <<>> \/ (~cwr[p] /\ cfd # p)
  /\ IF cbuf[p] # <<>> /\ ~IsLast(creq[p], Head(cbuf[p]))
     THEN /\ cres' = [cres EXCEPT ![p] = @ \cup {Head(cbuf[p]).data}]
          /\ UNCHANGED <<cpc, got, answer, creq>>
     ELSE /\ cpc' = [cpc EXCEPT ![p] = "ready"]
          /\ creq' = [creq EXCEPT ![p] = None]
          /\ cres' = [cres EXCEPT ![p] = {}]
          /\ answer' = [answer EXCEPT ![p] = None]
          /\ got' = IF cbuf[p] = <<>> THEN got
                    ELSE [got EXCEPT ![p] =
                            [response |-> Head(cbuf[p]).response,
                             data |-> Head(cbuf[p]).data, found |-> cres[p]]]
  /\ cbuf' = IF cbuf[p] = <<>> THEN cbuf
             ELSE [cbuf EXCEPT ![p] = Tail(@)]
  /\ UNCHANGED <<serverVars, sname, sbuf, cname, csfd, crd, cwr>>

\* The quit entry of the menu: client_ending.
ClientQuit(p) ==
  /\ cpc[p] = "ready"
  /\ ClientExit(p, "gone")
  /\ cname' = [cname EXCEPT ![p] = FALSE]
  /\ UNCHANGED creq

\* The process is killed, or exits without database_close (client -i).
ClientDie(p) ==
  /\ p \in Mortal
  /\ cpc[p] \notin {"off", "gone", "dead"}
  /\ ClientExit(p, "dead")
  /\ UNCHANGED <<cname, creq>>

-------------------------------------------------------------------------------

ServerStep ==
  \/ ServerMkfifo \/ ServerOpen \/ ServerLoop
  \/ ServerRead \/ ServerReadEof \/ ServerReopenClose \/ ServerReopen
  \/ ServerConnect \/ ServerExec \/ ServerSendMatch \/ ServerEndSearch
  \/ ServerSpin \/ ServerReply \/ ServerClose \/ ServerUnlink

\* The steps of a call, which the client takes without waiting for its user.
ClientStep(p) ==
  \/ ClientMkfifo(p) \/ ClientOpenRead(p) \/ ClientOpenWrite(p)
  \/ ClientRecv(p)

\* The steps a user decides on.
UserStep(p) ==
  \/ ClientOpen(p) \/ ClientSend(p) \/ ClientSendKilled(p) \/ ClientQuit(p)

Next ==
  \/ ServerStart
  \/ ServerStep
  \/ Signal
  \/ \E p \in Pids : ClientStep(p) \/ UserStep(p) \/ ClientDie(p)

Spec == Init /\ [][Next]_vars

\* The operating system runs every process that can take a step.  Nobody has
\* to start a program, make a request, quit or send a signal.
FairSpec ==
  /\ Spec
  /\ WF_vars(ServerStep)
  /\ \A p \in Pids : WF_vars(ClientStep(p))

-------------------------------------------------------------------------------
(* Properties.                                                             *)

\* p has a request with the server: in its pipe or in service.
HasRequest(p) ==
  \/ cmd # None /\ cmd.client_pid = p
  \/ \E i \in 1 .. Len(sbuf) : sbuf[i].client_pid = p

\* A client has at most one request with the server (in its pipe or in
\* service), and only while it waits for the answer or after it was killed:
\* the client pipe needs no matching of answers to requests (clientif.c keeps
\* no request number), and the server pipe never holds more requests than
\* there are clients.
OneOutstanding ==
  /\ \A i, j \in 1 .. Len(sbuf) :
       sbuf[i].client_pid = sbuf[j].client_pid => i = j
  /\ \A i \in 1 .. Len(sbuf) :
       /\ cpc[sbuf[i].client_pid] \in Waiting \cup {"dead"}
       /\ cmd # None => cmd.client_pid # sbuf[i].client_pid
  /\ cmd # None => cpc[cmd.client_pid] \in Waiting \cup {"dead"}

\* A client between two calls has an empty pipe: an access function of
\* clientif.c never reads what an earlier call left behind, although a search
\* reads a number of messages it does not know in advance.
NoStaleAnswer ==
  \A p \in Pids : cpc[p] = "ready" => cbuf[p] = <<>>

\* start_resp_to_client never fails for want of the client's pipe: a client
\* makes it before its first request and removes it after its last answer.
ConnectFindsPipe == spc = "connect" => cname[cmd.client_pid]

\* SIGPIPE kills the server only through a client that was killed between the
\* execution of its request and the end of the answer.
KilledByDeadCall ==
  spc = "killed" =>
    \E p \in Mortal : cpc[p] = "dead" /\ answer[p] # None

\* The calls as CdService sees them.
callOf ==
  [p \in Pids |->
     IF answer[p] # None
     THEN [at |-> "executed", req |-> creq[p], result |-> answer[p]]
     ELSE IF HasRequest(p) THEN [at |-> "pending", req |-> creq[p]]
     ELSE [at |-> "idle"]]

Service == INSTANCE CdService WITH Callers <- Pids, call <- callOf

\* Over the pipes every call is one atomic access to the database, executed at
\* most once, and returns the result of its own execution; in particular a
\* search returns exactly the entries that matched at one moment.
ServiceSpec == Service!Spec

\* The server is stuck: opening the pipe of a client that was killed, or in
\* the search over an entry without a catalogue name.
Stuck ==
  \/ spc = "connectwait" /\ cpc[cmd.client_pid] = "dead"
  \/ spc = "spin"

\* A client that waits for an answer gets it, unless it is killed, the server
\* ends or the server is stuck in one of these two ways.  As long as no client
\* dies and no name is empty, nothing keeps an answer from coming.
WaitingIsAnsweredUnlessStuck ==
  \A p \in Pids :
    cpc[p] \in Waiting ~>
      (cpc[p] \in {"ready", "dead"} \/ spc \in Down \/ Stuck)

-------------------------------------------------------------------------------
(* The inductive invariant: what OneOutstanding and NoStaleAnswer rest on. *)

Serving == {"connect", "connectwait", "exec", "search", "spin", "reply"}

\* The server's variables follow its place.
ServerInv ==
  /\ cmd # None <=> spc \in Serving
  /\ resp # None <=> spc = "reply"
  /\ cfd = IF spc \in Serving \ {"connect"} THEN cmd.client_pid ELSE None
  /\ spc \in {"search", "spin"} => IsFind(cmd.req)
  /\ spc \in Down \cup {"mkfifo", "open", "reopening", "unlinking"} => sfd = 0
  /\ spc \notin Down \cup {"mkfifo"} => sname = starts

\* A client's descriptors follow its place: it reads its own pipe only while
\* it also has it open for writing, so that read never returns 0.
ClientInv ==
  \A p \in Pids :
    /\ cpc[p] \in {"off", "gone", "dead"} => ~crd[p]
    /\ cpc[p] \in {"connectwait", "openwrite", "recv"} => crd[p]
    /\ cpc[p] \notin {"connectwait", "openwrite"} => cwr[p] = crd[p]
    /\ cpc[p] \in Waiting \cup {"ready"} => cname[p]

\* What is in a client's pipe belongs to the call in progress, and the message
\* that ends the call is the last one, there or still to be sent.
AnswerOf(p) ==
  /\ cpc[p] \notin Waiting => cbuf[p] = <<>>
  /\ cmd # None /\ cmd.client_pid = p => creq[p] = cmd.req
  /\ \A i \in 1 .. Len(sbuf) :
       sbuf[i].client_pid = p => creq[p] = sbuf[i].req
  /\ HasRequest(p) => cname[p]
  /\ \A i \in 1 .. Len(cbuf[p]) :
       IsLast(creq[p], cbuf[p][i]) => i = Len(cbuf[p]) /\ ~HasRequest(p)

AnswerInv == \A p \in Pids : AnswerOf(p)

ProtocolInv == TypeOK /\ ServerInv /\ ClientInv /\ OneOutstanding /\ AnswerInv

\* The request of p is being answered: it has taken effect.
Answering(p) == spc \in {"search", "spin", "reply"} /\ cmd.client_pid = p

\* The execution of a call is recorded from ServerExec to the return, and the
\* client that is answered reads its pipe until it is killed.
HistoryOf(p) ==
  /\ answer[p] # None => cpc[p] \in Waiting \cup {"dead"}
  /\ cpc[p] = "dead" /\ (answer[p] # None \/ HasRequest(p)) => p \in Mortal
  /\ Answering(p) => answer[p] # None
  /\ HasRequest(p) /\ ~Answering(p) => answer[p] = None
  /\ Answering(p) \/ (spc = "exec" /\ cmd.client_pid = p) => crd[p] \/ cpc[p] = "dead"

HistoryInv ==
  /\ \A p \in Pids : HistoryOf(p)
  /\ spc \notin {"search", "spin", "reply"} => seen = {}

\* The first n messages in p's pipe, with those it has read before.
FoundUpTo(p, n) == cres[p] \cup {cbuf[p][j].data : j \in 1 .. n}

\* What r returns when m is the last message and f came before it.
ResultOf(m, f) == [response |-> m.response, data |-> m.data, found |-> f]

\* The entries of the catalogues in C.
EntriesOf(C) == {<<c, db.cdc[c]>> : c \in C}

\* The messages of the answer to p's call, read, in the pipe and still to be
\* sent, make up the result of the execution of this call.
PartsMakeResult(p) ==
  cpc[p] \in Waiting =>
    /\ HasRequest(p) /\ ~Answering(p) => cbuf[p] = <<>> /\ cres[p] = {}
    /\ Answering(p) /\ spc # "reply" =>
         /\ answer[p] = ResultOf([response |-> "r_find_no_more", data |-> Absent],
                                 EntriesOf(Matching(db, cmd.req.pattern)))
         /\ seen \subseteq Matching(db, cmd.req.pattern)
         /\ FoundUpTo(p, Len(cbuf[p])) = EntriesOf(seen)
    /\ Answering(p) /\ spc = "reply" /\ IsLast(creq[p], resp) =>
         answer[p] = ResultOf(resp, FoundUpTo(p, Len(cbuf[p])))
    /\ \A i \in 1 .. Len(cbuf[p]) :
         IsLast(creq[p], cbuf[p][i]) => answer[p] = ResultOf(cbuf[p][i], FoundUpTo(p, i - 1))

ResultInv == \A p \in Pids : PartsMakeResult(p)

IInv == ProtocolInv /\ HistoryInv /\ KilledByDeadCall /\ ResultInv

-------------------------------------------------------------------------------
(* What comments of the code say, and the code does not do.                *)

\* pipe_imp.c, server_ending: "When the server ends, it removes the named pipe
\* so clients can detect that no server is running".
ClientsDetectTheEnd ==
  spc = "exited" => \A p \in Pids : cpc[p] \notin Waiting \cup {"openwait"}

\* cd_dbm.c, search_cdc_entry: "If the search text points to a null character
\* then all entries are considered to match".  So a search that was begun sends
\* every match and ends, as long as its client lives.
SearchEnds == spc = "search" ~> spc = "loop"

==============================================================================
