# Verification of the eslinuxprogramming programs

The repository is a collection of book and tutorial programs without a common
top-level program. The largest program with a logic of its own is the **CD
catalogue application**, which the book grows from chapter to chapter: a curses
program (ch06), a program on dbm files (ch07), a client and a server over named
pipes (ch13), the same over System V message queues (ch14), and versions on
MySQL, GNOME and KDE (ch08, chap16, chap17). Around it stand small programs about
one technique each: ring buffers, a linked list, signals and slots, a calculator
on unary numbers, job queues and condition variables, threads, semaphores, shared
memory, sockets, file locks, a web server.

The client/server application is modelled in most detail, because that is where
processes interleave, block, crash and lose messages; the other programs follow,
each in a module of its own. All paths below are relative to `src/`. `APP` is
`Begining-Linux-Programming-Book`, `ALP` is
`Beginning-Linux-Programming/ALP-listings`, `PT` is `Programming-Techniques`.

## 1. Inventory

| component | state it keeps | operations | hard behaviour |
|---|---|---|---|
| CD database, `APP/ch13/app/cd_dbm.c` (also ch14) | two ndbm files, the cursor of a search | initialise/recreate, get, add, delete of catalogue entries and tracks, search | names at CAT_CAT_LEN, the empty name in the search loop, the search cursor between calls |
| CD server over pipes, `APP/ch13/app/server.c`, `pipe_imp.c` | `server_running`, `server_fd`, `client_fd`, the FIFO `/tmp/server_pipe` | start, read a request, open the client's pipe, process a command, answer, end on a signal | end of file and the second open, EINTR in any blocking call, SIGPIPE, the window between close and unlink |
| CD client over pipes, `APP/ch13/app/clientif.c`, `pipe_imp.c` | `server_fd`, `client_fd`, `client_write_fd`, the FIFO `/tmp/client_<pid>_pipe`, `work_file` | start, nine access functions, end | two blocking opens that wait for each other, death during a call, an answer of unknown length |
| CD client and server over message queues, `APP/ch14/app/ipc_imp.c` with ch13's `server.c` and `clientif.c` | `serv_qid`, `cli_qid`: two kernel queues shared by all processes | as above | a full response queue, answers of dead clients, queues that outlive a killed server, reused process ids |
| CD user interface, `APP/ch13/app/app_ui.c` | the current entry; in `clientif.c` `work_file` and `entries_matching` | menu, add, re-enter tracks, delete, find, list, count | commands made of many calls, interleaved with other clients or cut short |
| CD application in one process, `APP/ch07/app` | two ndbm files, the cursor of a search in static variables | the access functions and the menu on top | calls that fail in the middle of a command, numbering without a counter |
| CD application with curses, `APP/ch06/app/curses_app.c` | two text files and a temporary one, the current title and number, the selected row | add, find, list, remove, update tracks | files replaced by unlink and rename, a selection that outlives its menu |
| CD application on MySQL, `APP/ch08/app`, front end `chap16_src/app/callbacks.c` | three tables without a transaction | add and delete artist, CD and tracks, find, tree of results | a statement that fails in the middle, two users, an index used and advanced by two calls |
| Ring buffers, `PT/Ring-buffer/ring1..3` and the unit test of ring2 | storage, head and tail, counters | push/pop; read/append in place; copy in, copy out, memset, find | wrap-around, full versus empty, overflow that moves the tail |
| Linked list, `PT/Data-managerment/linked-list/slist.c` | two chains of cells | append, prepend, insert, remove by data or index, concat, split, find, delete | first and last cell, an index out of range, cells of two lists |
| Signals and slots, `PT/signal-slot/sigslot.h` | a list of connections per signal, a set of signals per object, a mutex each | connect, disconnect, emit, disconnect all, destroy, copy | objects destroyed by another thread, two lock orders, two connections to one object |
| Unary calculator, `ALP/appendix-a` | a stack of numbers that are lists of cells | add, subtract, product, even, odd, print | every cell freed once, a missing operand |
| Job queues, flag with a condition, cancellation, `ALP/chapter-4` | a list of jobs with a mutex and a semaphore; a flag; two accounts; a buffer | enqueue, dequeue, set, wait, transfer, clean up | unlocked access, lost wake-ups, cancellation between two assignments or acted on after them |
| Thread examples, `APP/ch12`, `ALP/chapter-4` | a text, arguments, flags, results | type and count, take turns, join | whose turn it is, the life of arguments |
| Shared memory, semaphores, queues, `APP/ch14/shm*.c sem1.c msg*.c` | a segment with a flag, a semaphore, a queue | write/read, P/V | hand-over flags, death inside the section, removal while in use |
| File locks, `APP/ch07/lock2.c lock3.c lock5.c` | a lock file; record locks | lock, unlock, wait | a killed owner, a wait while others are held |
| Web server, `ALP/chapter-11` | connections as processes, modules, the page of processes | accept, fork, parse, serve, reap | coalesced SIGCHLD, a request in pieces of which the first read is parsed, writes after the client has closed, processes that vanish |
| Socket servers, `APP/chapter15/server3.c server4.c server5.c` | descriptors, a descriptor set, children | accept, serve, fork, select | a silent client, a killed client, a descriptor given out again |
| Everything else: language exercises (`C`, `C++`), shell scripts, GTK and KDE windows, `chapter11`, `ALP/chapter-3,5,7..10`, cross-compile patches | none, a screen or one system call | - | no protocol; pure input and output, or vendored |

How they interact. `app_ui.c` calls the nine access functions of `cd_data.h`. In
ch07 these are `access.c` itself. In ch13 and ch14 they are `clientif.c`, which
turns each call into one message to the server (`send_mess_to_server`) and one
answer read back (`read_resp_from_server`, repeatedly for a search); the server's
`process_command` makes the same call on `cd_dbm.c` and answers. The transport
(`pipe_imp.c` or `ipc_imp.c`) is the only part that differs between ch13 and
ch14: `server.c`, `clientif.c`, `app_ui.c`, `cliserv.h` and `cd_data.h` are
byte for byte the same.

What makes each part correct:

- *database*: every access function takes a database to a database, and says
  whether it did what it was asked; a search returns each match once.
- *server and client over pipes*: every call is one atomic access to the one
  database, executed at most once; a client never reads an answer to an earlier
  call; a waiting client is answered unless a named event prevents it; nothing but
  the death of a client kills the server.
- *server and client over queues*: the same, with answers addressed by process id
  in one shared queue, and with servers that die and come back.
- *user interface*: commands made of many calls keep the tracks of an entry
  numbered 1, 2, ... without a gap, delete all of them, offer every match, count
  right.
- *the other CD programs*: the same of one process: no gap in the numbering, exact
  counts, each match once; the files are complete on the disk wherever the program
  is killed; tables refer to rows that exist.
- *ring buffers, list, calculator*: a FIFO of bounded size that drops the oldest
  bytes; a queue; a sequence; arithmetic; and no cell leaked or freed twice.
- *signals and slots*: an emission goes on where it was, no signal calls into a
  freed object, both sides agree about the connections (with two exceptions, which
  are faults of the code: section 5).
- *threads and processes*: each job, text, line and request is handled once, in
  order, by one; nothing is half done after cancellation or death; everybody who
  can end does.
- *locks*: one process is inside, and nobody is shut out by a dead one (semaphore
  with SEM_UNDO), or all the others are (lock file) and come to the end of their
  tries, as the programs have it.

The stand-alone programs share nothing with one another.

## 2. Modules

| module | models | state and actions |
|---|---|---|
| `CdDbm` | `cd_dbm.c`, `cd_data.h`, the messages of `cliserv.h` | no state: `db` is a record of two functions (`cdc_dbm_ptr`, `cdt_dbm_ptr`), each access function is the set of outcomes `[db, result]` it may have, `Outcomes(db, r)` is the switch of `process_command` |
| `CdService` | nothing in the code: the promise of `cd_data.h` | `db`, `call`, `got`; a call is invoked, executed atomically, returns, or is abandoned |
| `CdPipe` | `ch13/app`: `server.c`, `pipe_imp.c`, `clientif.c` | one action per blocking or externally visible system call, with the code up to the next one; `spc` and `cpc[p]` are the places in server and client; `sfd`, `cfd`, `csfd`, `crd`, `cwr` are the descriptors; `sname`, `cname` the names in `/tmp`; `sbuf`, `cbuf` what the pipes hold |
| `CdQueue` | `ch14/app`: `ipc_imp.c` with the same `server.c` and `clientif.c` | as above, with two queues `sq`, `cq` and their identifiers `sqid`, `cqid`; the identifiers a client got from `msgget` are `csid`, `ccid` |
| `CdUi` | `app_ui.c` and the caller's side of `search_cdc_entry` in `clientif.c` | one action per call of an access function with the user's decision after it; `team` are the users that there are; `cur`, `track_no`, `there` are the variables of the menu and its functions; `work_file` and `matching` the static state of `clientif.c` |
| `RingBuf` | `ring2/ringbuf.c` | `rb[r]`, the struct with indices for pointers; one action per function |
| `ByteFifo` | nothing in the code: the promise of `ringbuf.h` | `content`, `taken` |
| `RingTest` | `ring2/ringbuf-test.c` | `step`, the next of its tests; each runs the operators of `RingBuf` on the rings the test before it left, and compares what the asserts compare |
| `SmallRings`, `ItemQueue` | `ring3/ringbuffer.c`, `ring1/ringbuffer.c`; the queue ring3 promises | head, tail, slots; one action per function |
| `SList`, `ItemList` | `slist.c` as its `main.c` uses it; the pair of sequences | allocated cells with their links, two lists; one action per function |
| `SigSlot` | `sigslot.h` | connections, senders, life of each signal and object, holder of each mutex, what each thread is inside of; a step ends where the next lock is taken |
| `UnaryCalc` | `number.c`, `stack.c`, `calculator.c` | the heap of cells, the stack; one action per token |
| `CursesApp` | `curses_app.c` | three files on the disk, the current CD, one action per menu entry or call on the files; `unwritten` is a history of the lines that `insert_title` could not write |
| `CdMySql` | `ch08/app/app_mysql.c`, `app_test.c`, `chap16_src/app/callbacks.c` | three tables; one action per SQL statement, which may fail |
| `CdLocal` | `ch07/app` | files, search position, one action per access function |
| `JobQueue`, `JobDrain` | `job-queue3.c`; `job-queue2.c` (`job-queue1.c`, which has no mutex, is the mutant `NoLock`) | list, semaphore, mutex, place of each thread; one action per call or memory access |
| `ThreadFlag` | `condvar.c`, `spin-condvar.c` | flag, mutex, who waits |
| `Cancellation` | `critical-section.c`, `cleanup.c`, `cxx-exit.cpp`, `ch12/thread7.c` | the cancellation state and type of the thread, accounts, buffer; one action per statement of the transfer, so that a cancellation that was held back is acted on after `pthread_setcancelstate` and before `return 0` |
| `WorkArea` | `ch12/thread3.c`, `thread3a.c`, `thread4.c` | the text, semaphore or mutex, places of typist and counter |
| `ThreadBasics` | `thread1/2/5/6/6a/8a.c`, `thread-create2.c`, `tsd.c`, `primes.c` | main, its threads, what each leaves behind |
| `Handoff`, `SemExclusion` | `shm1.c`/`shm2.c` and `msg1.c`/`msg2.c`; `sem1.c` | segment or queue; semaphore with undo values |
| `FileLocks` | `lock2.c`, `lock3.c`, `lock5.c` | the lock file and the tries, the lock of each process on each byte (the rule which locks conflict is the kernel's) |
| `WebServer`, `WebPages` | `server.c`, `module.c`, `diskfree.c` and their main; `processes.c`, `issue.c`, `time.c` | processes, signals, connections, what of a request the first read returned, resets and SIGPIPE; one page with its heap |
| `SocketServers` | `server3.c`, `server4.c`, `server5.c`, `client3.c` | connections, descriptors, children |
| `Rings`, `Servers` | the programs with ring buffers; those that serve | no state of their own: `RingBuf` and `SmallRings`, `WebServer` and `SocketServers` side by side, and what is checked and proved of both |
| `CdDbmProofs`, `CdPipeProofs`, `CdQueueProofs`, `AppProofs`, `DataProofs`, `SigSlotProofs`, `ThreadProofs`, `ProcessProofs` | - | the theorems and their proofs, section 4 |
| `MCData`, `MCConcurrent` | - | compositions: `program` is chosen in the initial state, one of the stand-alone programs moves, the others keep their first state |
| `MC...` | - | the other instances for TLC |

How they compose. `CdDbm` is extended by `CdService`, `CdPipe`, `CdQueue` and
`CdUi`: the same operators say what a request does to the database everywhere.
`CdPipe` and `CdQueue` instantiate `CdService` under a refinement mapping
(`callOf`: a call is *pending* while its request is in the server's pipe or queue
or in service, *executed* from `process_command` until the client has read the
last message). Because both implement `CdService`, `CdUi` may take an access
function as one atomic step. `RingBuf` instantiates `ByteFifo`,
`SmallRings` `ItemQueue` and `SList` `ItemList`; `RingTest` extends `RingBuf`.

What the abstraction keeps and drops.

- A message is smaller than `PIPE_BUF` and so is written and read whole; its
  content is the request, the catalogue, title, track or search string, each a
  model value. Whether a search string occurs in a name is the constant `Occurs`;
  names that do not fit are `TooLong`; the empty name is `Empty`.
- A search is executed as a whole in `ServerExec`, and its matches are then sent
  one by one (`ServerSendMatch`) in any order: nothing but the server touches
  the database in between. The order of the keys is ndbm's own.
- The FIFOs have the semantics of POSIX and Linux: an open registers at once and
  waits for the other side; end of file is "empty and no writer"; a write without
  a reader raises SIGPIPE, which neither program handles. Descriptors are
  identified by inode, so a client that still holds the pipe of an earlier server
  is not connected to the new one.
- A signal handler clears `server_running`. If the server is blocked in a system
  call, that call fails with EINTR (`sa_flags` is 0); otherwise only the flag
  changes, and a signal between the test and the call is lost, as in the code.
- `answer` and `got` are history variables, for the refinement and for `OwnAnswers`.
- In `RingBuf` the chunked copy loops are one assignment to the array that says
  which byte ends up where, for any number of laps.
- In the programs on threads a step is one call or one access to shared memory; in
  those on files or a database one call that changes them, which may fail where
  the code handles that, and after which the program may be killed.
- Text that is typed or printed is a value or a small set; widgets, windows,
  formats and sleeps are left out (a sleep only makes one order likelier).

## 3. Runs

| run | module, bounds | what it checks |
|---|---|---|
| `pipe_calls` | `CdPipe`: 2 clients, one may die anywhere, one start, all requests on catalogue entries, one of the names empty | `NoStaleAnswer`, `ServiceSpec` (refinement), liveness `WaitingIsAnsweredUnlessStuck` |
| `pipe_faults` | `CdPipe`: 2 clients, one may die, 2 starts with or without `-i`, signals at any moment | the inductive invariant `IInv`, `KilledByDeadCall`, `ServiceSpec` |
| `pipe_detect` | 3 clients, no faults at all | violates `ClientsDetectTheEnd` |
| `pipe_empty` | 1 client, a name that is empty | violates `SearchEnds` |
| `queue_calls` | `CdQueue`: 2 clients, one may die, the server may be killed and started again | `OneAnswerPerCall`, `ServiceSpec`, `OwnAnswers`, `RequestIsAnsweredUnlessStuck` |
| `queue_signals` | 2 clients, 2 starts, signals | `QueueInv` (types, `EndRemovesQueues`), `EndReachesClients` |
| `queue_reuse` | 2 pids that are given out again | violates `OwnAnswers` |
| `ui_orphan` | `CdUi`: 1 user, 1 name | violates `NoOrphanTracks` |
| `data` | `MCData` | see below |
| `concurrent` | `MCConcurrent` | see below |
| `page_free` | `WebPages`: a process that vanishes | violates `FreesWhatItAllocated` |
| `curses_prefix` | `CursesApp`: numbers 1 and 12 | violates `RemovesOnlyCurrent` |

An invariant that is a conjunction of named parts says one thing about one program;
its parts, with what each is about, stand before it in the module, and `mutants`
has a broken definition for each of them.

`data`, 0.9 million states:

| property | program | parts |
|---|---|---|
| `RingsInv` | ring2, ring1 | positions and searches of ring2; what ring1 holds unread is not overwritten |
| `FifoSpec`, `TestsPass` | ring2 and its unit test | refinement of `ByteFifo`; all asserts of the test |
| `Ring3IsQueue` | ring3 | refinement of `ItemQueue` |
| `EveryCellInOneList`, `ListIsSequence` | slist.c | heap; refinement of `ItemList` |
| `CalculatorInv` | unary calculator | `NoCellLeaks`, `CalculatesPostfix` |
| `SigInv` | sigslot.h | `EmissionKeepsItsPlace`, `NoConnectionToFreed`, `SidesAgree`, `StuckOnlyByObject`: less than the header promises, see section 5 |
| `CursesInv` | ch06 | `ScreenInRange`, `SelectedIsOnFile`, `KeptOnDisk`, `TracksNumbered`, `TracksHaveTitle` |
| `SqlInv` | MySQL | `ArtistsAreKept`, `TracksHaveCd`, `TreeIsOfResult` |
| `PagesInv` | pages of the web server | `VecFits`, `RowPerProcess`, `HeapIsThePage`, `RowShowsKilobytes` |
| `LocalInv` | ch07 | `LocalTracksHaveNoGap`, `ScanReturnsEachOnce`, `LocalCountIsExact` |
| `UiInv`, `DeleteIsComplete` | app_ui.c of ch13 and ch14, one user or two | types, `EveryMatchIsOffered`, `CountAloneIsExact`, `TracksHaveNoGap`; deletion leaves no track |

`concurrent`, 96 thousand states:

| property | program | parts |
|---|---|---|
| `JobInv`, `QueueNotEmptyAfterWait` | job-queue3.c | the inductive invariant of section 4; the comment of line 54 |
| `EachJobOnce` | job-queue2.c | |
| `NoLostWakeup` | condvar.c | a worker that waits while the flag is set has a signal on its way |
| `WorkerFollowsFlag` (liveness) | condvar.c, spin-condvar.c | `WorksWhileSet`, `StopsWhileClear` |
| `ShownInOrder` | shm1/shm2, msg1/msg2 | |
| `SectionIsFreeOrOneInside` | sem1.c | |
| `NothingHalfDone` | cancellation | `MoneyMovesWhole` (all or nothing; a result of 0 or 1 says which, PTHREAD_CANCELED does not), `BufferFreedOnce` |
| `EachLineCountedOnce` | thread4.c | |
| `ExamplesInv` | thread examples | `MainEndsLast`, `NumbersAreOwn`, `TurnsAlternate`, `PrimeIsNth` |
| `ServersInv` | web server, socket servers | `HandlerFindsZombie`, `AnswerFits`, `AnswerIsOwn` |
| `LockFileIsOfOne` | lock2.c | the lock file has one owner, who is inside or died there |
| `EverybodyEnds` (liveness) | jobs, texts, semaphore, locks, work area | `EveryJobIsDone`, `DrainersEnd`, `EndReachesReader`, `UsersOfTheSemaphoreEnd`, `LockersEnd`, `EndEndsBoth` |
| `ClientsAreServed` (liveness) | web server, socket servers | `WholeRequestIsAnswered`, `ClientsEnd` |

The six violations are disagreements between a comment in the code and what the
code does; `PROJECT.json` quotes them under `findings`:

1. `pipe_imp.c:39` says the name of the server's pipe is removed so that clients
   can detect that no server runs. `server_ending` closes first and unlinks
   second, and a server that saw end of file still has the pipe open until then;
   a client that opens it in this window waits for ever.
2. `cd_dbm.c:249-251` says how a search for the empty string starts a scan. With
   an entry whose name is empty (`app_ui.c:220-223` stores one) the loop at
   278-295 neither returns nor moves on.
3. `ipc_imp.c:147-148` says a client receives only what is addressed to it. The
   address is a pid; what a killed client left is read by its successor.
4. `app_ui.c:324-325` says tracks of a missing entry never exist. The deleted
   entry remains the current one, and its tracks may be entered again.
5. `processes.c:314-315` says the first and the last row are static and must not
   be freed. The row of a process that vanished is a string literal, too, and is.
6. `curses_app.c:534` says `remove_cd` deletes the current CD. Numbers are compared
   over the length of the current one: CD 12 goes with CD 1, tracks included.

### Bounds

- *Clients*: two are enough for one to be served while the other calls, dies or
  leaves; `pipe_detect` needs three, one to cause each of the two ends of file and
  one to come too late. Each pid starts once, except in `queue_reuse`.
- *Starts* (`MaxStarts`): with two, clients of the first server meet the second
  one, and old queues are found again. A third adds no new kind of meeting.
- *Client pipe* (`CliCap` = 1) and *queues* (`QCap` = 2): small, so that a search
  with two matches and its end marker blocks the server; Linux has room for more,
  and every behaviour of a larger pipe with less in it is one of the smaller when
  the reader is quick. The queue holds two so that messages for two clients
  are in it together. The server's pipe needs no bound: `OneOutstanding` says that
  it never holds more than one request per client (and is proved).
- *Names*: two, and a search string that occurs in both, so that a search has
  more than one match; one more string is too long for the message.
- *Tracks* (`MaxTrack` = 2): a gap needs a track after the missing one; the
  number after the last is where the loops stop. *`MaxMatching`* bounds
  `entries_matching`, which grows with every search that is given up.
- *Ring*: capacity 2 has every relation of head, tail and the end of the array;
  capacity 1 makes the two buffers wrap at different places; data of up to 3 bytes
  goes round an array of 2 more than once. The unit test has its own size (37 for
  4096: all its sizes are multiples or neighbours of the size of the ring).
- *List*: 3 cells on 2 lists, indices from -1 to 2: first, middle, last, none.
- *Signals and slots*: 2 threads; one signal with two objects or two signals with
  one, one of the two to be made by a copy; 2 connections per signal, which may be
  of one object. Two threads are enough for two lock orders to meet, two
  connections for one to be the next of the other.
- *Calculator*: numbers up to 4, two on the stack. *Curses*: numbers 1 and 12, so
  that one begins with the other; 2 titles, 2 tracks, one line that could not be
  written. *MySQL*: one user, whose
  statements may fail; tracks of one CD and one of another; a result of one row, so
  that it is cut. *Pages*: 3
  processes, integers of 16 bits instead of 32 (`IntSize`).
- *Users of `CdUi`*: one with two names, or two with one between them.
- *Job queue*: 2 workers, 2 enqueuers, 3 jobs; *drain*: up to 3 threads, 3 jobs.
- *Flag*: 2 setters, 3 changes. *Hand-over*: 4 texts, a queue of 2. *Semaphore*: 3
  processes, 2 rounds. *Cancellation*: 3 accounts, amounts from 0 to more than
  there is. *Web server*: 2 connections; the first client asks for a page, for one
  whose module forks a child, or with a protocol that is not understood, cuts its
  request after the first piece (the first read then has no protocol), before the
  last, or nowhere, and leaves when it likes; the second sends a request with a
  wrong method as a whole and stays (`SecondClientStays`), which is enough for two
  children to end together; a buffer of 4 pieces. *Sockets*: 2 clients. *Locks*: 3
  processes, bytes at both
  ends of each region of `lock5.c` and one beyond.

`CHECK_DEADLOCK FALSE` is in the runs because the programs may stop: users have
quit, threads and processes have ended, or are blocked for ever by the findings
above, by a killed owner of the lock file, or, in `SigSlot`, by one another. The
progress that must happen is stated as liveness.

### Fairness

`FairSpec` gives weak fairness to the steps of the server and to the steps of
each client inside a call: the operating system runs a process that can run.
There is none on a user's choices (starting, calling, quitting), on signals, on
deaths, on starts of the server. Under it, `WaitingIsAnsweredUnlessStuck` and
`RequestIsAnsweredUnlessStuck` say that a call ends, unless the client dies, the
server ends or one of two named states is reached: the server opens the pipe of a
dead client (or its response queue is full of messages for dead clients), or it
loops over the empty name. So there is no third way to hang: in particular the
crossed blocking opens of client and server, the reopening after end of file and
two full queues never make both sides wait. `EndReachesClients` says that
removing the queues frees every waiting client.

The server's steps are one fairness condition: exactly one place of the server is
current, and a step enabled there stays enabled until it is taken, or until a
signal or death, so the condition is the same as one per action.

`ConcurrentFairness` gives weak fairness to the steps of each thread and process
of the program that runs: a mutex, semaphore or queue of these programs is waited
for in a call that the system wakes. The two threads of the work area poll (unlock,
sleep, lock again), so that one of them may find the mutex free only now and
then: their steps have strong fairness, which says that the scheduler and the
sleep of a second do not favour one for ever. There is none on users, clients of
the web server, cancellation, deaths and signals. A client of the socket servers is
a program that runs by itself, from its `connect` on (`ClientRuns` includes
`ConnectTo`); `ClientsEnd` is about those that have connected, so that nothing
depends on this part.

## 4. Proofs

Every safety property of a passing run is proved for all values of the constants,
except `TestsPass`, named at the end of this section. TLC checks each of them on
the instances of section 3, and also the inductive invariants `IInv` of `CdPipe` and
`JobInv`; the other inductive invariants are only proved. `PROJECT.json` lists the
theorems.

| module | proves about | theorems |
|---|---|---|
| `CdDbmProofs` | `CdDbm` | lemmas only: `OutcomesType` (each operation maps databases to databases and gives a well-formed result), facts on queues and sequences that both transports need |
| `CdPipeProofs` | `CdPipe` | `Invariance` (`IInv`), `TypeCorrect`, `AtMostOneRequest`, `AnswersAreFresh`, `ReplyPipeExists`, `ServerIsKilledByDeadCall`, `PipesImplementService` (refinement) |
| `CdQueueProofs` | `CdQueue` | `Invariance` (`IInv`), `QueuesFollowTheServer`, `PidIdentifiesCall`, `QueuesImplementService` (refinement), `CallsReturnOwnResult` (action property) |
| `AppProofs` | `CdLocal`, `CdUi`, `CdMySql`, `CursesApp` | `OneProcessAgrees`, `UsersSeeWhatIsStored`, `DeletionLeavesNoTrack` (action property), `TreesShowTheirResult`, `TablesReferToOneAnother`, `TracksKeptWithOneTest`, `TitlesAndTracksAgree` |
| `DataProofs` | `RingBuf`, `SmallRings`, `SList`, `UnaryCalc` | `ListsAlwaysChains`, `CellsNeverLost`, `ListImplementsSequence` (refinement), `CalculatorIsCorrect`, `RingPositions`, `RingImplementsFifo`, `Ring3ImplementsQueue` (refinements), `Ring1Keeps`, `SearchFindsFirst`, `RingsKeepWhatTheyHold` |
| `SigSlotProofs` | `SigSlot` | `SignalsBetweenThreads` |
| `ThreadProofs` | `JobQueue`, `JobDrain`, `ThreadFlag`, `Cancellation`, `ThreadBasics`, `WorkArea` | `JobInvariance` and its parts, `QueueIsNotEmpty`, `JobsProcessedOnce`, `FlagWakesWorker`, `CancelLeavesNothingHalfDone`, `ThreadsServeMain`, `LinesAreCounted` |
| `ProcessProofs` | `SemExclusion`, `Handoff`, `FileLocks`, `WebServer`, `SocketServers`, `WebPages` | `OneProcessInside`, `TextsArriveInOrder`, `LocksExclude`, `ServersAnswerTheirClients`, `PageOfProcessesIsRight` |

### Hypotheses

The assumptions on the constants say what the constants are and no more; TLC
evaluates them on every run. Five theorems have a hypothesis of their own:

- `PidIdentifiesCall`: no pid is used twice (`~MayReuse`).
- `QueuesImplementService` and `CallsReturnOwnResult`: besides, no signal
  (`~MaySignal`). Both are needed: `queue_reuse` shows what a pid that is used
  again does, and section 5 what a signal does to a search.
- `TablesReferToOneAnother`: one user. No transaction joins the statements of
  `delete_cd`, so that with two users a CD may lose its artist (section 5).
  `TreesShowTheirResult` is the part that holds for any number.
- `TracksKeptWithOneTest`: any number of users, but at any moment at most one that
  runs `app_test` (`[]OneTest`), the only program that deletes. The tracks then stay
  in order; the artists do not, as `delete_cd` may delete one whose id
  `get_artist_id` has just given to another user.

`Invariance` and `QueuesFollowTheServer` of `CdQueue` hold with both.

### The arguments

Each theorem is proved with an inductive invariant: a lemma that `Init` implies it, a
lemma per action (or group of actions) that it is kept, and one temporal step.

**Pipes.** None of the safety properties of `CdPipe` is inductive alone.
`NoStaleAnswer` says that a client between two calls has an empty pipe; to see
that the call just ended has left nothing behind one must know that the message
that ended it was the last the server sent for it, hence that the server has no
other request of that client and is not in the middle of answering one. `IInv`
is the conjunction of `ProtocolInv` and three parts on top:

- `TypeOK`; `ServerInv`: the server's variables follow its place; `ClientInv`: a
  client's descriptors and pipe follow its place, and its name exists from its
  `mkfifo` to its end, even when it was killed; `OneOutstanding`: at most one request
  per client, only while it waits or after it was killed; `AnswerInv`: a message
  that ends a call is the last in its pipe, and after it the server has nothing
  more for that client;
- `HistoryInv`: the server's history of the answer it is giving is that of the
  call its client is in; `ResultInv`: what was read, what the pipe holds and what is
  still to be sent make up exactly one result; `KilledByDeadCall`: SIGPIPE comes
  only from a client that died in its call.

With these, each step is a step of `CdService` under `callOf` or changes nothing
that it sees: the request is executed in `ServerExec`, and the last read returns it.

**Queues.** The same idea, with messages of all clients in one queue. `IInv` is
`QueueInv` (types, places, identifiers) and, as far as the constants allow,
`CallInv` (without reuse: a pid has one request at most, the answers for it are
those of its call, the one that ends it is the last) and `HistoryInv` and `ResultInv`
(without signals, too). `msgrcv` takes a message out of the middle of the queue:
`RemoveFacts` of `CdQueueProofs` says what is left.

**Programs on the database.** `LocalIInv` is `LocalTypeOK` with, for each place
of the program, which tracks the entry has (`TracksInPlace`), what the scan has
returned and has left (`ScanIsOver`, `ScanCounts`) and what has been counted
(`CountSoFar`); `UiIInv` the same per user (`UiTracks`, `UiSearches`, `UiCount`), where a user
who changes an entry that another one changes is in `torn` and out of the claim. In
`CdMySql` the invariant says before each statement what the rows read before it
still mean (`AtStatement`), which only one user can keep; `TestsInPlace` is the part that
an `app_test` keeps while other users only add and search. `CursesIInv` follows
the files through the rewrite: what has been copied has no line of the current
number (`KeptLines`), what is being rewritten is whole in one of two places
(`KeptOnDisk`), the titles go first and the tracks of the same numbers after them
(`TracksTitled`), and the selection stays on file, or among the lines that could
not be written (`SelectionStays`). The loops that
copy lines are the recursive function `Among`; what it keeps, and that it keeps the
numbering, is proved from the least index at which it would not.

**Rings.** The refinement mapping of ring2 reads the content from tail to head
around the array; the invariant (`AreBuffers`) is that both are in the array. The
work is in the lemmas: the three pieces of a copy that wraps are the bytes that
`ByteFifo` appends, and the oldest are dropped exactly when `head` has passed
`tail` (`DivMod`, `ModOnce` say what an index is after any number of laps). ring3
needs that the count, head and tail agree, ring1 that what is appended is not read.
`SearchFindsFirst` takes the least place where the search could stop.

**Lists.** `ListsAreChains` says that for each list there is a sequence of distinct
cells, each linked to the next and the last to NULL, that no two of the lists have
a cell in common and that together they hold every cell that was allocated and not
freed. The
loops of `slist.c` along the links are recursive functions of a cell: a chain that
ends is what makes such a function exist (`LoopExists`, `BoundedLoop`), and what
a loop computes is proved from the least number of passes after which it would
not (`AllNats`). Each function of `slist.c` has a lemma on chains: what it returns,
which links it changes, and that the sequence after it is the one that `ItemList`
promises (`CallDone`). `slist_sort` exchanges items, not cells: the inner loop
shuffles the items (`Shuffles`) and leaves the least of them in front (`LeastFrom`),
so that each pass of the outer one puts one more place in order. The refinement
mapping reads the items from the head on (`slist_work`).

**Calculator.** A number is a chain as long as its value. `CalcState` says that
the numbers on the stack are chains of the lengths that the calculation with
naturals gives, that no two of them share a cell, and that there is no other cell.
A function of `number.c` returns a new number (`NewNumber`): its cells were
free, the rest of the heap is as it was. Destroying a number frees its cells and no
other, so that after each token the heap is what is on the stack. Nothing is said
once a token misses an operand: the program returns 1 and leaves its cells.

**Signals and slots.** `SigInd` is the types, who has which mutex (`Locking`), that
a connection is in one list once (`NoTwins`), what the life of objects and signals
allows (`Living`), and `Sides`: for each step of an operation, which of the two sides
of a connection knows of the other. A thread between the change of one side and
that of the other still has a mutex, so each disagreement has a thread that will
end it, or the pair is in `doubled` (the object was told of the end too early).

**Threads.** The comment of `job-queue3.c:54-55` says that because of the
semaphore the queue is not empty. That is not inductive: another worker may take
a job between `sem_wait` and the lock. One needs that the list is at least as long
as there are workers that passed `sem_wait` and have not taken a job; that in turn
needs the exact count (`CountIsOfJobs`), that nobody else changes the list meanwhile
(`QueueMutex`), and that a thread has a job exactly where the code says
(`HeldMatchesPc`), so that what is linked is one new job (`EachJobInOnePlace`).
`DrainInv` adds to the mutex that the jobs out of the list have one owner or were
processed once (`JobsOutOfList`); `FlagInv` that the worker waits only after it saw
the flag clear under the mutex; `CancelInv` what the accounts and the buffer hold at
each place (`TransferInv`, `BufferInv`); `WorkInv` that the text in the area is the
last line typed and the only one not counted, with "end" in it until it is seen
(`TextInPlace`). `BasicsInv` says what main has joined and, for `compute_prime`, that
the candidate is above all primes found; that its search ends is Euclid's
theorem, proved with a common multiple of the numbers up to the candidate.

**Processes.** For the semaphore, what the kernel will undo is the process that is
inside (`UndoInv`), and the value is set once (`SetOnce`); this is why a death
inside frees the section. `HandoffInv` says where each text is between the two
programs. `FileLocksInv` has one owner of the lock file, alive or dead in its
region. In the web
server each child was forked for one connection and each signal that is pending
has a child that ended (`ForkedOnce`); `PagesIInv` counts the rows, the room in the
vector and what is on the heap together (`RowsInPlace`, `RoomInVec`, `HeapInUse`), and
no two rows are of one process (`RowsDiffer`), so that each is freed once.

### Only model-checked

- Liveness: `WaitingIsAnsweredUnlessStuck`, `RequestIsAnsweredUnlessStuck`,
  `EndReachesClients`, `EverybodyEnds`, `WorkerFollowsFlag`, `ClientsAreServed` (liveness
  under fairness is out of the prover's reach).
- `RingTest` (`TestsPass`) is one fixed run of the unit test on rings of fixed
  size: there is nothing to generalise.
- The six violations of section 3.

## 5. Observed besides the six findings

### Against a comment

The runs check what is left of these two claims; that the claims themselves do not
hold is in the models, and no property says otherwise.

- `sigslot.h:57-59` says of threads: "Objects using signals and slots can be safely
  created and destroyed from any thread, even when connections exist", and 65-66
  that `multi_threaded_local` is "essentially the same". It is not so, in two ways.
  An object that is destroyed locks itself first and the signals second
  (602-610), everything else the other way round, so that a thread that destroys
  an object and one that clears a signal may wait for each other for ever. And
  `disconnect` (503-505) and `disconnect_all` (453) tell an object of the end when
  other connections to it remain; when the object is destroyed then, the signal
  goes on to call it. What `SigInv` says, and `SignalsBetweenThreads` proves, is that
  there is no other way to either: `StuckOnlyByObject` excepts the first and
  `doubled` in `NoConnectionToFreed` and `SidesAgree` the second.
- `ipc_imp.c:93-95` says that a client does not start when no server runs. Starting
  a client over message queues succeeds on the queues of a killed server, and its
  first call waits for ever, or until a server starts again.

### Not claimed by any comment

- A second end of file in a row (a client that came and left) ends the server.
- A signal during the server's first open leaves the name of the pipe behind.
- A signal between the test of `server_running` and a blocking call is lost.
- Reopening its pipe after an end of file, the server has no reader for a moment:
  a client that was in between is killed by SIGPIPE when it makes its call.
- A search over queues that is cut short by a signal and the removal of the
  queues returns some matches and then "no more", without an error; this is why
  `queue_signals` does not check `ServiceSpec`.
- With two users, counts are of no single moment.
- In `sigslot.h`: an emission may call a slot of an object whose destructor
  has begun; the constructors that copy read the other's list or set without its
  lock; with `multi_threaded_global` and POSIX threads `connect` locks the one
  mutex, which is not recursive, twice; so does a slot that calls back.
- A thread of `critical-section.c` that is cancelled while it moves money ends as
  PTHREAD_CANCELED like one that has not begun: whoever joins it cannot tell
  whether the money was moved.
- The web server parses the first read only (`server.c:145`). When the protocol is
  not in it, `protocol` was never set, and what happens to be there is compared. Of
  the answer to a protocol that is not understood it writes as many bytes as a
  pointer has (`server.c:164-165`). A child whose client has closed the connection is
  killed by SIGPIPE at the second write, in the middle of the page.
- Two users who change the tracks of one entry at a time, or a program of ch13 that
  is killed while it deletes, leave gaps (`torn` in `CdUi`).
- In the curses application a title that could not be written (`insert_title`) is
  selected all the same; its tracks may be entered, and `remove_cd` without a titles
  file reads a stream that was never opened.
- `job-queue1.c` with more than one thread processes jobs twice; `job-queue2.c` is its correction.
- In the web server the loop that reads to the end of the headers (`server.c:152`)
  does not end when the connection is closed before; a blank line that the end of
  the buffer cuts is never seen; a process of 2 GiB and more shows a wrong size;
  `writev` is given more than IOV_MAX pieces when there are very many processes.
- The temporary file of the curses application is shared by everybody in the
  directory, as its comment says. An empty catalogue name makes ch07's search loop
  go on for ever, like ch13's (`access.c:291-293`).
- MySQL: after an `add_cd` that failed, or returned 0 without an id, the caller
  adds tracks under whatever `cd_id` held; `find_cds` leaves its count unset on
  failure; a SELECT that fails makes a second row for the same artist; two users
  may leave a CD without an artist. `delete_cd` of chap16 and chap17 asks for
  `WHERE id=`, so that it always finds one CD and would delete the artist of
  others; nothing calls it there. chap16 passes a pointer that was never set.
- `shm1.c` clears the flag when it starts and so may lose the first text.

## 6. Not modelled, and why

`s_create_new_database` is never sent by `clientif.c`. Failing `dbm_open`,
`malloc` or a disk that is full, two servers at the same time, and a server over
pipes that is killed by SIGKILL are left out. Printing and layout change no state.

The other programs are listed with their reasons in `PROJECT.json`. Four groups
remain. Copies: chap16's and chap17's `app_mysql`, `ch13`'s first client and
server, `server1`/`server2`, `lock1.c`/`lock4.c` do what a modelled program does,
or less. Windows: GTK, GNOME, KDE and curses examples whose state is in the
toolkit. Single calls: the examples of `chapter11`, `ALP/chapter-3`, `-5`, `-7`,
`-8`, `-10` show one system call each. Exercises: `C`, `C++`, shell and terminal
programs are sequential and print what they compute; patches, build files and
copies of foreign sources have no behaviour of this repository's own. These make
up about two thirds of the lines.

## 7. Plan

1. done: `CdDbm`, `CdService`, `CdPipe` with its invariant proved, `CdQueue`, `CdUi`,
   `RingBuf` over `ByteFifo`.
2. done: the other data structures, the other CD applications, the programs of
   threads and processes, the web and socket servers, locks; `JobQueue` with its
   invariant proved; the compositions `MCData` and `MCConcurrent`.
3. done: the safety invariants, action properties and refinements that the runs check,
   as theorems for all constants (section 4); `SList` and `UnaryCalc` with recursive
   functions for their loops, and their properties among the theorems.
4. done: for `CdMySql` with several users, which references survive
   (`TracksKeptWithOneTest`). What is left is outside the prover's reach (section 4)
   or outside the model (section 6).
