----------------------------- MODULE SocketServers -----------------------------
(***************************************************************************)
(* Three servers of chapter15 and their client (client3): server3 serves   *)
(* one connection after the other, server4 forks a child for each, server5 *)
(* waits for all of them with select.  A client sends one character and is *)
(* sent the next one; it may be killed at any point.  The character is     *)
(* known by the client that sent it.                                       *)
(***************************************************************************)
EXTENDS Naturals, FiniteSets, Sequences, FiniteSetsExt

CONSTANTS Clients, NoClient

VARIABLES
  server,              \* which program
  clientPc,
  backlog,             \* the connections that were not accepted
  sentChar,            \* characters of each connection the server has not read
  hungUp,              \* connections whose client has closed its end
  answer, closed,      \* what the server wrote, and that it closed its end
  socketPc, client_sockfd, ch, \* the main program
  children,               \* the children of server4
  fds, readfds, testfds \* server5: the connection of each descriptor; the two sets

sockServerVars == <<socketPc, client_sockfd, ch, children, fds, readfds, testfds>>
sockClientVars == <<clientPc, sentChar, hungUp>>
socketVars == <<server, backlog, answer, closed, sockClientVars, sockServerVars>>

server_sockfd == 3
ClientFds     == 4 .. 3 + Cardinality(Clients)

SocketsInit ==
  /\ server \in {"server3", "server4", "server5"}
  /\ clientPc = [c \in Clients |-> "connect"] /\ backlog = <<>>
  /\ sentChar = {} /\ hungUp = {} /\ answer = [c \in Clients |-> NoClient] /\ closed = {}
  /\ socketPc = "wait" /\ client_sockfd = NoClient /\ ch = NoClient
  /\ children = [c \in Clients |-> "none"]
  /\ fds = [fd \in ClientFds |-> NoClient]
  /\ readfds = {server_sockfd} /\ testfds = {}

-----------------------------------------------------------------------------
\* client3

ClientTo(c, pc) == clientPc' = [clientPc EXCEPT ![c] = pc]

ConnectTo(c) ==
  /\ clientPc[c] = "connect" /\ ClientTo(c, "write") /\ backlog' = Append(backlog, c)
  /\ UNCHANGED <<server, sentChar, hungUp, answer, closed, sockServerVars>>

WriteChar(c) ==
  /\ clientPc[c] = "write" /\ ClientTo(c, "read") /\ sentChar' = sentChar \cup {c}
  /\ UNCHANGED <<server, backlog, hungUp, answer, closed, sockServerVars>>

\* The answer, or the end of the connection; then close and exit.
ReadAnswer(c) ==
  /\ clientPc[c] = "read" /\ (answer[c] # NoClient \/ c \in closed)
  /\ ClientTo(c, "ended") /\ hungUp' = hungUp \cup {c}
  /\ UNCHANGED <<server, backlog, sentChar, answer, closed, sockServerVars>>

KillClient(c) ==
  /\ clientPc[c] \in {"write", "read"} /\ ClientTo(c, "killed") /\ hungUp' = hungUp \cup {c}
  /\ UNCHANGED <<server, backlog, sentChar, answer, closed, sockServerVars>>

ClientRuns(c) == ConnectTo(c) \/ WriteChar(c) \/ ReadAnswer(c)

-----------------------------------------------------------------------------
\* The servers.

\* read returns: a character, or the end of the file and ch is what it was.
SockReadable(c) == c \in sentChar \cup hungUp

ReadFrom(c, old) == IF c \in sentChar THEN c ELSE old

WriteTo(c, char) == answer' = [answer EXCEPT ![c] = char]

Accept(next) ==
  /\ backlog # <<>> /\ client_sockfd' = Head(backlog) /\ backlog' = Tail(backlog)
  /\ socketPc' = next

\* server3: accept, read, then write and close.
Server3 ==
  /\ server = "server3" /\ UNCHANGED <<server, clientPc, hungUp, children, fds, readfds, testfds>>
  /\ \/ socketPc = "wait" /\ Accept("read") /\ UNCHANGED <<sentChar, answer, closed, ch>>
     \/ /\ socketPc = "read" /\ SockReadable(client_sockfd) /\ socketPc' = "write"
        /\ ch' = ReadFrom(client_sockfd, ch) /\ sentChar' = sentChar \ {client_sockfd}
        /\ UNCHANGED <<backlog, client_sockfd, answer, closed>>
     \/ /\ socketPc = "write" /\ socketPc' = "wait" /\ WriteTo(client_sockfd, ch)
        /\ closed' = closed \cup {client_sockfd} /\ UNCHANGED <<backlog, sentChar>>
        /\ UNCHANGED <<client_sockfd, ch>>

\* server4: the parent closes its copy and waits; when fork fails that was the
\* only copy.
Server4 ==
  /\ server = "server4" /\ socketPc = "wait" /\ Accept("wait")
  /\ UNCHANGED <<server, sockClientVars, answer, ch, fds, readfds, testfds>>
  /\ \/ children' = [children EXCEPT ![Head(backlog)] = "read"] /\ UNCHANGED closed
     \/ closed' = closed \cup {Head(backlog)} /\ UNCHANGED children

\* The child; nobody waits for it (SIGCHLD is ignored).
Child4(c) ==
  /\ UNCHANGED <<server, backlog, clientPc, hungUp, socketPc, client_sockfd, ch, fds, readfds,
                 testfds>>
  /\ \/ /\ children[c] = "read" /\ SockReadable(c) /\ UNCHANGED <<answer, closed>>
        /\ children' = [children EXCEPT ![c] = IF c \in sentChar THEN "write" ELSE "write garbage"]
        /\ sentChar' = sentChar \ {c}
     \/ /\ children[c] \in {"write", "write garbage"} /\ children' = [children EXCEPT ![c] = "none"]
        /\ WriteTo(c, IF children[c] = "write" THEN c ELSE NoClient)
        /\ closed' = closed \cup {c} /\ UNCHANGED sentChar

\* server5.  A descriptor is ready when accept or read would not block.
ReadyFds == {fd \in readfds : IF fd = server_sockfd THEN backlog # <<>>
                              ELSE fds[fd] # NoClient /\ SockReadable(fds[fd])}

\* A closed descriptor in the set makes select fail, and the server exit.
BadFds == {fd \in readfds \ {server_sockfd} : fds[fd] = NoClient}

Select ==
  /\ server = "server5" /\ socketPc = "wait" /\ testfds = {}
  /\ \/ BadFds = {} /\ ReadyFds # {} /\ testfds' = ReadyFds /\ UNCHANGED socketPc
     \/ BadFds # {} /\ socketPc' = "ended" /\ UNCHANGED testfds
  /\ UNCHANGED <<server, backlog, sockClientVars, answer, closed, client_sockfd, ch>>
  /\ UNCHANGED <<children, fds, readfds>>

\* The loop over the descriptors that were ready, in their order.
ThisFd == Min(testfds)

AcceptFd ==
  /\ server = "server5" /\ testfds # {} /\ ThisFd = server_sockfd /\ Accept("wait")
  /\ LET fd == Min({f \in ClientFds : fds[f] = NoClient}) IN
       fds' = [fds EXCEPT ![fd] = Head(backlog)] /\ readfds' = readfds \cup {fd}
  /\ testfds' = testfds \ {ThisFd}
  /\ UNCHANGED <<server, sockClientVars, answer, closed, ch, children>>

\* Mutant of RemoveFd: the descriptor stays in readfds.
CloseFd ==
  /\ server = "server5" /\ testfds # {} /\ ThisFd # server_sockfd
  /\ fds[ThisFd] \notin sentChar /\ closed' = closed \cup {fds[ThisFd]}
  /\ fds' = [fds EXCEPT ![ThisFd] = NoClient]
  /\ testfds' = testfds \ {ThisFd} /\ UNCHANGED readfds
  /\ UNCHANGED <<server, backlog, sockClientVars, answer, socketPc, client_sockfd, ch, children>>

\* FIONREAD says 0: the client has gone.
RemoveFd ==
  /\ server = "server5" /\ testfds # {} /\ ThisFd # server_sockfd
  /\ fds[ThisFd] \notin sentChar /\ closed' = closed \cup {fds[ThisFd]}
  /\ fds' = [fds EXCEPT ![ThisFd] = NoClient]
  /\ testfds' = testfds \ {ThisFd} /\ readfds' = readfds \ {ThisFd}
  /\ UNCHANGED <<server, backlog, sockClientVars, answer, socketPc, client_sockfd, ch, children>>

\* Mutant of ServeFd: the answer goes to the connection accepted last.
ServeLast ==
  /\ server = "server5" /\ testfds # {} /\ ThisFd # server_sockfd /\ fds[ThisFd] \in sentChar
  /\ ch' = fds[ThisFd] /\ sentChar' = sentChar \ {fds[ThisFd]} /\ WriteTo(client_sockfd, ch')
  /\ testfds' = testfds \ {ThisFd}
  /\ UNCHANGED <<server, backlog, clientPc, hungUp, closed, socketPc, client_sockfd, children, fds,
                 readfds>>

ServeFd ==
  /\ server = "server5" /\ testfds # {} /\ ThisFd # server_sockfd /\ fds[ThisFd] \in sentChar
  /\ ch' = fds[ThisFd] /\ sentChar' = sentChar \ {fds[ThisFd]} /\ WriteTo(fds[ThisFd], ch')
  /\ testfds' = testfds \ {ThisFd}
  /\ UNCHANGED <<server, backlog, clientPc, hungUp, closed, socketPc, client_sockfd, children, fds,
                 readfds>>

SocketServerRuns == Server3 \/ Server4 \/ Select \/ AcceptFd \/ RemoveFd \/ ServeFd

SocketsNext ==
  \/ SocketServerRuns \/ \E c \in Clients : ClientRuns(c) \/ KillClient(c) \/ Child4(c)

-----------------------------------------------------------------------------

\* A client that prints an answer prints the one to its own character, whichever
\* connections were made, cut off and their descriptors given again in between.
AnswerIsOwn ==
  \A c \in Clients : c \notin hungUp => answer[c] \in {c, NoClient}

\* Every client that connects comes to its end: server3 goes on after a client that
\* was killed, server4 does not wait for a child, server5 blocks for none of them
\* and keeps no closed descriptor (server5.c 85-97).
ClientsEnd ==
  \A c \in Clients : (clientPc[c] # "connect") ~> (clientPc[c] \in {"ended", "killed"})
================================================================================
