------------------------------- MODULE WebServer -------------------------------
(***************************************************************************)
(* The web server of ALP chapter 11 (server.c, module.c, and the module    *)
(* diskfree.c, which has a child of its own): a process that accepts and   *)
(* forks, one child for each connection, and a handler of SIGCHLD that all *)
(* of them have.  A step is one system call with the code after it.        *)
(*                                                                         *)
(* A request is four pieces of text: method and page, protocol, end of the *)
(* line, blank line.  The client sends it in one or more segments.  A      *)
(* request of kind "protocol" has a wrong method, too; a page of kind "ok" *)
(* is one whose module comes to its end (WebPages has those that do not).  *)
(***************************************************************************)
EXTENDS Naturals, FiniteSets

CONSTANTS Connections,  \* the connections clients make
          Kinds,        \* what is requested on each connection, see AnswerTo
          Cuts,         \* where the text of a request may be cut into segments
          BufLen        \* the pieces that fit into buffer

ASSUME WebServerAssumption ==
  /\ IsFiniteSet(Connections) /\ BufLen \in Nat \ {0} /\ Cuts \subseteq 1 .. 3
  /\ Kinds \in [Connections ->
                 SUBSET {"protocol", "method", "page", "file", "symbol", "ok", "diskfree"}]

VARIABLES
  verbose,
  webPc,      \* the server: "options", "listen", "accept", "fork", "close", "exited", "aborted"
  accepted,   \* connection, its local variable
  chldPending, \* a SIGCHLD waits for the server
  inHandler,  \* the server is in clean_up_child_process
  conn,       \* "none", "queued", "open": the server's copy, "closed"
  request, sent, hangup,  \* the client: what it asks, pieces sent, how it left
  child, got, \* the child of a connection, and the pieces it has read
  first,      \* the pieces that its first read returned
  response,   \* what it has written
  df, dfPending  \* the child of diskfree.c, and its SIGCHLD

webVars == <<verbose, webPc, accepted, chldPending, inHandler, conn, request, sent, hangup,
             child, got, first, response, df, dfPending>>

serverVars == <<verbose, webPc, accepted, inHandler, conn>>
clientVars == <<request, sent, hangup>>
readVars   == <<got, first>>
dfVars     == <<df, dfPending>>

None == "none"
Pieces == 4   \* of a request

WebInit ==
  /\ verbose = FALSE
  /\ webPc = "options" /\ accepted = None /\ chldPending = FALSE /\ inHandler = FALSE
  /\ conn = [c \in Connections |-> None] /\ request = [c \in Connections |-> None]
  /\ sent = [c \in Connections |-> 0] /\ hangup = [c \in Connections |-> None]
  /\ child = [c \in Connections |-> None]
  /\ got = [c \in Connections |-> 0] /\ first = [c \in Connections |-> 0]
  /\ response = [c \in Connections |-> None]
  /\ df = [c \in Connections |-> None] /\ dfPending = [c \in Connections |-> FALSE]

-----------------------------------------------------------------------------
\* The client.

Connect(c) ==
  /\ webPc \in {"accept", "fork", "close"} /\ conn[c] = None
  /\ conn' = [conn EXCEPT ![c] = "queued"]
  /\ \E k \in Kinds[c] : request' = [request EXCEPT ![c] = k]
  /\ UNCHANGED <<verbose, webPc, accepted, inHandler, chldPending, sent, hangup,
                 child, readVars, response, dfVars>>

SendSegment(c) ==
  /\ conn[c] # None /\ hangup[c] = None /\ sent[c] < Pieces
  /\ \E n \in {m \in Cuts \cup {Pieces} : m > sent[c]} : sent' = [sent EXCEPT ![c] = n]
  /\ UNCHANGED <<serverVars, chldPending, request, hangup, child, readVars, response, dfVars>>

HangUp(c) ==
  /\ conn[c] # None /\ hangup[c] = None
  /\ \E h \in {"closed", "reset"} : hangup' = [hangup EXCEPT ![c] = h]
  /\ UNCHANGED <<serverVars, chldPending, request, sent, child, readVars, response, dfVars>>

-----------------------------------------------------------------------------
\* server_run.  The handler may run before each of its calls, and interrupts
\* accept, which is then made again.

ServerCalls(from, to) == webPc = from /\ webPc' = to /\ ~inHandler

\* main: -v, an option with a good argument, -h or a bad one, no option left.
ParseOption ==
  /\ webPc = "options"
  /\ \/ verbose' = TRUE /\ UNCHANGED webPc
     \/ webPc' \in {"options", "listen", "exited"} /\ UNCHANGED verbose
  /\ UNCHANGED <<accepted, chldPending, inHandler, conn, clientVars, child, readVars, response,
                 dfVars>>

\* socket, bind, listen; clients can connect from then on.
Listen ==
  /\ \E to \in {"accept", "exited"} : ServerCalls("listen", to)
  /\ UNCHANGED <<verbose, accepted, chldPending, inHandler, conn, clientVars, child, readVars,
                 response, dfVars>>

\* With --verbose, getpeername fails for a connection that was reset, and the
\* assertion ends the server.
AcceptConnection ==
  /\ \E c \in Connections :
       /\ conn[c] = "queued" /\ accepted' = c /\ conn' = [conn EXCEPT ![c] = "open"]
       /\ ServerCalls("accept", IF verbose /\ hangup[c] = "reset" THEN "aborted" ELSE "fork")
  /\ UNCHANGED <<verbose, chldPending, inHandler, clientVars, child, readVars, response, dfVars>>

ForkChild ==
  /\ ServerCalls("fork", "close")
  /\ child' = [child EXCEPT ![accepted] = "read"]
  /\ UNCHANGED <<verbose, accepted, chldPending, inHandler, conn, clientVars, readVars, response,
                 dfVars>>

\* system_error, of accept when it was not interrupted, and of fork.
AcceptFails ==
  /\ ServerCalls("accept", "exited")
  /\ UNCHANGED <<verbose, accepted, chldPending, inHandler, conn, clientVars, child, readVars,
                 response, dfVars>>

ForkFails ==
  /\ ServerCalls("fork", "exited")
  /\ UNCHANGED <<verbose, accepted, chldPending, inHandler, conn, clientVars, child, readVars,
                 response, dfVars>>

\* Mutant of CloseCopy: the server keeps its copy of the connection.
KeepCopy ==
  /\ ServerCalls("close", "accept") /\ accepted' = None
  /\ UNCHANGED <<verbose, chldPending, inHandler, conn, clientVars, child, readVars, response,
                 dfVars>>

CloseCopy ==
  /\ ServerCalls("close", "accept")
  /\ conn' = [conn EXCEPT ![accepted] = "closed"] /\ accepted' = None
  /\ UNCHANGED <<verbose, chldPending, inHandler, clientVars, child, readVars, response, dfVars>>

\* clean_up_child_process: SIGCHLDs that come together are one, and wait takes
\* one child.
EnterHandler ==
  /\ chldPending /\ ~inHandler /\ webPc \notin {"exited", "aborted"}
  /\ chldPending' = FALSE /\ inHandler' = TRUE
  /\ UNCHANGED <<verbose, webPc, accepted, conn, clientVars, child, readVars, response, dfVars>>

Zombies == {c \in Connections : child[c] = "zombie"}

\* Mutant of WaitForOne: the handler waits until there is no child.
WaitForAll ==
  /\ inHandler
  /\ child' = [c \in Connections |-> IF c \in Zombies THEN "gone" ELSE child[c]]
  /\ inHandler' = (\E c \in Connections : child'[c] \notin {None, "gone"})
  /\ UNCHANGED <<verbose, webPc, accepted, chldPending, conn, clientVars, readVars, response,
                 dfVars>>

WaitForOne ==
  /\ inHandler /\ inHandler' = FALSE
  /\ \E c \in Zombies : child' = [child EXCEPT ![c] = "gone"]
  /\ UNCHANGED <<verbose, webPc, accepted, chldPending, conn, clientVars, readVars, response,
                 dfVars>>

ServerRuns ==
  AcceptConnection \/ ForkChild \/ CloseCopy \/ EnterHandler \/ WaitForOne

-----------------------------------------------------------------------------
\* handle_connection, in the child of connection c.

ChildMoves(c, from, to) ==
  /\ child[c] = from /\ child' = [child EXCEPT ![c] = to]
  /\ chldPending' = (chldPending \/ to = "zombie")
  /\ UNCHANGED <<serverVars, request, sent>>

ChildGoes(c, from, to) == ChildMoves(c, from, to) /\ UNCHANGED hangup

\* What is written to a connection that the client has closed provokes a reset, which
\* is there before the next write or not.
MayReset(c) ==
  \/ UNCHANGED hangup
  \/ hangup[c] = "closed" /\ hangup' = [hangup EXCEPT ![c] = "reset"]

\* write on a connection that was reset ends the child (SIGPIPE).
ChildWrites(c, from, to, text) ==
  \/ hangup[c] = "reset" /\ ChildGoes(c, from, "zombie") /\ UNCHANGED response
  \/ /\ hangup[c] # "reset" /\ ChildMoves(c, from, to) /\ MayReset(c)
     /\ response' = [response EXCEPT ![c] = text]

\* What one read returns, as the number of pieces read so far.
NextRead(c) == IF sent[c] - got[c] > BufLen THEN got[c] + BufLen ELSE sent[c]

Readable(c) == hangup[c] # "reset" /\ sent[c] > got[c]

\* The blank line is looked for in what one read returned.  The buffer is not
\* cleared: an end of line may stand where an older one follows it.
FindsBlankLine(c, n) ==
  \/ got[c] <= 2 /\ n = Pieces
  \/ got[c] > 0 /\ n = 3

\* The first read: nothing to read at the end of file, an error on a reset.  What
\* it returned is all that method, url and protocol are taken from (sscanf).
ReadRequest(c) ==
  /\ UNCHANGED <<response, dfVars>>
  /\ \/ /\ Readable(c) /\ got' = [got EXCEPT ![c] = NextRead(c)]
        /\ first' = [first EXCEPT ![c] = NextRead(c)]
        /\ ChildGoes(c, "read", IF FindsBlankLine(c, NextRead(c)) THEN "check" ELSE "headers")
     \/ /\ ~Readable(c) /\ hangup[c] # None
        /\ ChildGoes(c, "read", "zombie") /\ UNCHANGED readVars

\* The loop over the rest of the header.  At the end of file, or after a reset,
\* read returns at once, the buffer stays, and so does the loop.
ReadHeaders(c) ==
  /\ Readable(c) /\ got' = [got EXCEPT ![c] = NextRead(c)]
  /\ \E to \in {"check", "headers"} :
       /\ to = "check" => FindsBlankLine(c, NextRead(c))
       /\ to = "headers" => ~(got[c] <= 2 /\ NextRead(c) = Pieces)
       /\ ChildGoes(c, "headers", to)
  /\ UNCHANGED <<first, response, dfVars>>

\* module_open: the file is a shared library, and the symbol is in it.
module_open(k) == k \notin {"file", "symbol"}

\* Mutant of AnswerTo: the method is compared before the protocol.
AnswerToMethod(k) ==
  CASE k = "method" -> "501" [] k = "protocol" -> "501"
    [] k = "page" \/ ~module_open(k) -> "404" [] OTHER -> "200"

\* The tests of handle_connection, handle_get and module_open, in that order:
\* protocol, method, a page that is a plain name, its module.  Of the answer to a
\* protocol that is not understood sizeof (a pointer) bytes are written.
AnswerTo(k) ==
  CASE k = "protocol" -> "start of 400" [] k = "method" -> "501"
    [] k = "page" \/ ~module_open(k) -> "404" [] OTHER -> "200"

HeldProtocol(c) == first[c] >= 2

\* When the first read did not hold the protocol its array was never set, and is
\* compared all the same: it is not understood, or it is by chance.
AnswersTo(c) ==
  IF HeldProtocol(c) THEN {AnswerTo(request[c])}
  ELSE {"start of 400",
        IF request[c] = "protocol" THEN AnswerTo("method") ELSE AnswerTo(request[c])}

Respond(c) ==
  /\ UNCHANGED <<readVars, dfVars>>
  /\ \E answer \in AnswersTo(c) :
       ChildWrites(c, "check", IF answer = "200" THEN "module" ELSE "close", answer)

\* The module writes the start of its page.  That of diskfree.c forks then, and has
\* no end of its page when it cannot (system_error).
StartPage(c) ==
  /\ request[c] # "diskfree" /\ ChildWrites(c, "module", "end", response[c])
  /\ UNCHANGED <<readVars, dfVars>>

ForkDf(c) ==
  /\ request[c] = "diskfree" /\ UNCHANGED <<readVars, dfPending>>
  /\ \/ /\ ChildWrites(c, "module", "waitpid", response[c])
        /\ df' = IF child'[c] = "waitpid" THEN [df EXCEPT ![c] = "runs"] ELSE df
     \/ ChildWrites(c, "module", "zombie", "cut") /\ UNCHANGED df

\* df writes and ends: a waitpid that is blocked takes it before the handler runs.
DfEnds(c) ==
  /\ df[c] = "runs" /\ df' = [df EXCEPT ![c] = "zombie"]
  /\ dfPending' = [dfPending EXCEPT ![c] = TRUE] /\ MayReset(c)
  /\ UNCHANGED <<serverVars, request, sent, chldPending, child, readVars, response>>

\* The handler in the child: wait takes df when it is there still.
ChildHandler(c) ==
  /\ dfPending[c] /\ child[c] \in {"waitpid", "end", "close"}
  /\ dfPending' = [dfPending EXCEPT ![c] = FALSE] /\ df' = [df EXCEPT ![c] = "gone"]
  /\ UNCHANGED <<serverVars, clientVars, chldPending, child, readVars, response>>

\* system_error when the handler has taken df before waitpid was called.
Waitpid(c) ==
  /\ UNCHANGED <<readVars, dfPending>>
  /\ \/ df[c] = "zombie" /\ ChildGoes(c, "waitpid", "end")
        /\ df' = [df EXCEPT ![c] = "gone"] /\ UNCHANGED response
     \/ df[c] = "gone" /\ ChildGoes(c, "waitpid", "zombie")
        /\ response' = [response EXCEPT ![c] = "cut"] /\ UNCHANGED df

\* The end of the page, module_close.
EndPage(c) ==
  /\ UNCHANGED <<readVars, dfVars>> /\ ChildWrites(c, "end", "close", "whole page")

CloseAndExit(c) == ChildGoes(c, "close", "zombie") /\ UNCHANGED <<readVars, response, dfVars>>

ChildRuns(c) ==
  \/ ReadRequest(c) \/ ReadHeaders(c) \/ Respond(c) \/ StartPage(c) \/ ForkDf(c)
  \/ ChildHandler(c) \/ Waitpid(c) \/ EndPage(c) \/ CloseAndExit(c)

WebNext ==
  \/ ParseOption \/ Listen \/ ServerRuns \/ AcceptFails \/ ForkFails
  \/ \E c \in Connections :
       Connect(c) \/ SendSegment(c) \/ HangUp(c) \/ ChildRuns(c) \/ DfEnds(c)

-----------------------------------------------------------------------------

ServerIsUp == webPc \notin {"exited", "aborted"}

\* wait in the handler never blocks, whatever children end before, between and
\* during its runs: for the SIGCHLD that is being handled, and for one that is
\* pending, there is a child that nobody has waited for (73-77).
HandlerFindsZombie ==
  (IF inHandler THEN 1 ELSE 0) + (IF chldPending THEN 1 ELSE 0) <= Cardinality(Zombies)

\* When the first read held the protocol, the first wrong thing of a request decides
\* about its answer (162-178), however the rest of the header was cut into segments;
\* otherwise the answer may also be that the protocol is not understood, or a request
\* whose protocol is wrong is judged by its method (145 reads what was read first).
\* A page that was begun is ended, unless its connection was reset, by the client or by
\* a write after the client has closed it (116, diskfree.c 35, 66), or the page of
\* diskfree.c is cut: there is no process for df, or the handler took df before waitpid.
AnswerFits ==
  \A c \in Connections :
    /\ request[c] = "protocol" =>
         response[c] \in {None, "start of 400"} \cup (IF HeldProtocol(c) THEN {} ELSE {"501"})
    /\ request[c] = "method" =>
         response[c] \in {None, "501"} \cup (IF HeldProtocol(c) THEN {} ELSE {"start of 400"})
    /\ child[c] \in {"zombie", "gone"} /\ response[c] = "200" => hangup[c] = "reset"
    /\ response[c] = "cut" => request[c] = "diskfree"
    /\ response[c] = "start of 400" => request[c] = "protocol" \/ ~HeldProtocol(c)

Answered == {"start of 400", "404", "501", "whole page", "cut"}

\* A request that fits into the buffer and is there as a whole when its
\* connection is accepted, of a client that stays, is answered, and the
\* connection is closed on both sides, if with the start of the answer only when its
\* protocol is wrong (164).  (The blank line is only looked for in
\* what one read returned, 152: cut by the end of the buffer it is never seen.)
WholeRequestIsAnswered ==
  \A c \in Connections :
    (conn[c] = "queued" /\ sent[c] = Pieces /\ Pieces <= BufLen /\ hangup[c] = None)
      ~> \/ ~ServerIsUp \/ hangup[c] # None
         \/ response[c] \in Answered /\ conn[c] = "closed" /\ child[c] \in {"zombie", "gone"}
================================================================================
