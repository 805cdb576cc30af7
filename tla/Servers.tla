-------------------------------- MODULE Servers --------------------------------
(***************************************************************************)
(* The servers that run beside their clients and share nothing with one    *)
(* another: the web server of ALP chapter 11, and the socket servers of    *)
(* chapter15.                                                              *)
(***************************************************************************)
EXTENDS WebServer, SocketServers

ServersSpec ==
  /\ WebInit /\ [][WebNext]_webVars
  /\ SocketsInit /\ [][SocketsNext]_socketVars

\* A server answers each client with its own answer, in the buffer it has for it, and its
\* handler of SIGCHLD finds the child that ended (server.c 73-77, 162-178; server5.c 72-103).
ServersInv == HandlerFindsZombie /\ AnswerFits /\ AnswerIsOwn

\* Every client that the servers can serve is served (server.c 126-178, server3.c to server5.c).
ClientsAreServed == WholeRequestIsAnswered /\ ClientsEnd
================================================================================
