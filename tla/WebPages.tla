-------------------------------- MODULE WebPages --------------------------------
(***************************************************************************)
(* The pages that modules of the web server generate in a child process:   *)
(* processes.so lists /proc, one row for each process, while processes     *)
(* come to an end; issue.so copies a file; time.so prints the time.        *)
(* What the pages consist of is a sequence of buffers, each of them static *)
(* or on the heap.                                                        *)
(***************************************************************************)
EXTENDS Integers, Sequences, FiniteSets

CONSTANTS
  Pids,          \* process ids: the names of digits only in /proc
  Listing,       \* what readdir returns for /proc, names that are no pid included
  PageCounts,    \* sizes of a process, in pages
  PageSize,      \* getpagesize()
  IntSize,       \* the number of values of an int
  FirstSize      \* vec_size at first, 16 in the code

\* Buffers that are no row, and what format_process_info allocates for its use.
StaticTexts == {"none", "ERROR", "start", "end", "time", "file", "part of file", "error_page",
                "error_message"}
OwnBuffers  == {"vec", "program_name", "user_name", "group_name"}

ASSUME PagesAssumption ==
  /\ Pids \cap (StaticTexts \cup OwnBuffers) = {} /\ Listing \in Seq(STRING)
  /\ PageCounts \subseteq Nat /\ {PageSize, IntSize} \subseteq Nat \ {0}
  /\ FirstSize \in Nat /\ FirstSize >= 2
  \* /proc has one directory for each process.
  /\ \A i, j \in DOMAIN Listing : Listing[i] = Listing[j] /\ Listing[i] \in Pids => i = j

VARIABLES
  module,           \* which page
  pagePc,
  alive, rssPages,  \* the processes, and their size
  entry,            \* the entries of the listing that were read
  vec, vec_size,    \* the iovec array: its buffers, its allocated size
  pageHeap,         \* what is allocated and not freed
  row,              \* the row that format_process_info works on
  freed,            \* the index i of the last loop
  pageSent          \* what was written to the client

pageVars == <<module, pagePc, alive, rssPages, entry, vec, vec_size, pageHeap, row, freed,
              pageSent>>

Static(text) == [of |-> text, kilobytes |-> 0]
NoRow        == Static("none")
Placeholder  == Static("ERROR")

PagesInit ==
  /\ module \in {"processes", "issue", "time"} /\ pagePc = "read"
  /\ alive = Pids /\ rssPages \in [Pids -> PageCounts]
  /\ entry = 0 /\ vec = <<Static("start")>> /\ vec_size = FirstSize
  /\ pageHeap = {"vec"} /\ row = NoRow /\ freed = 0 /\ pageSent = <<>>

PageAt(m, pc) == module = m /\ pagePc = pc
PageTo(pc)    == pagePc' = pc

UnchangedSetting == UNCHANGED <<module, rssPages>>
UnchangedVec     == UNCHANGED <<vec, vec_size, freed, pageSent>>

\* xmalloc, xrealloc and xstrdup abort when there is no memory.
Allocate(buffers) == pageHeap' = pageHeap \cup buffers

\* The same ends the child when /proc cannot be opened (system_error).
NoMemoryForPage ==
  /\ module = "processes" /\ PageTo("aborted")
  /\ \/ pagePc = "read" /\ entry = 0
     \/ pagePc = "program" /\ row.of \in alive
     \/ pagePc \in {"names", "format"}
     \/ pagePc = "store" /\ Len(vec) = vec_size - 1
  /\ UnchangedSetting /\ UnchangedVec /\ UNCHANGED <<alive, entry, pageHeap, row>>

\* A process ends.
Vanish ==
  /\ module = "processes" /\ pagePc \notin {"done", "aborted"}
  /\ \E pid \in alive : alive' = alive \ {pid}
  /\ UnchangedSetting /\ UnchangedVec /\ UNCHANGED <<pagePc, entry, pageHeap, row>>

Wrap(n) == ((n + (IntSize \div 2)) % IntSize) - (IntSize \div 2)

\* Mutant of KilobytesOf: the division comes first.
KilobytesRounded(pages) == Wrap((pages \div 1024) * PageSize)

\* rss * getpagesize () / 1024, in an int.
KilobytesOf(pages) ==
  LET bytes == Wrap(pages * PageSize) IN
  IF bytes >= 0 THEN bytes \div 1024 ELSE -((-bytes) \div 1024)

-----------------------------------------------------------------------------
\* processes.c

NextEntry ==
  /\ PageAt("processes", "read") /\ entry < Len(Listing)
  /\ LET name == Listing[entry + 1] IN
       IF name \in Pids THEN PageTo("uid") /\ row' = [NoRow EXCEPT !.of = name]
                        ELSE PageTo("read") /\ UNCHANGED row
  /\ entry' = entry + 1 /\ UnchangedSetting /\ UnchangedVec /\ UNCHANGED <<alive, pageHeap>>

\* format_process_info looks into /proc three times; NULL when the process is gone.
LookAt(pc, next) ==
  /\ PageAt("processes", pc) /\ UnchangedSetting /\ UnchangedVec /\ UNCHANGED <<alive, entry>>
  /\ IF row.of \in alive THEN PageTo(next) ELSE PageTo("store")

get_uid_gid ==
  LookAt("uid", "rss") /\ UNCHANGED pageHeap /\ row' = IF row.of \in alive THEN row ELSE Placeholder

get_rss ==
  /\ LookAt("rss", "program") /\ UNCHANGED pageHeap
  /\ row' = IF row.of \in alive THEN [row EXCEPT !.kilobytes = KilobytesOf(rssPages[row.of])]
                                ELSE Placeholder

\* Mutant of get_program_name: the buffer is allocated before the look at the process.
get_program_name_first ==
  /\ LookAt("program", "names") /\ row' = IF row.of \in alive THEN row ELSE Placeholder
  /\ Allocate({"program_name"})

get_program_name ==
  /\ LookAt("program", "names") /\ row' = IF row.of \in alive THEN row ELSE Placeholder
  /\ IF row.of \in alive THEN Allocate({"program_name"}) ELSE UNCHANGED pageHeap

\* A user or group without a name ends the child (system_error).
ShowNames ==
  /\ PageAt("processes", "names")
  /\ UnchangedSetting /\ UnchangedVec /\ UNCHANGED <<alive, entry, row>>
  /\ \/ PageTo("format") /\ Allocate({"user_name", "group_name"})
     \/ PageTo("aborted") /\ UNCHANGED pageHeap

FormatRow ==
  /\ PageAt("processes", "format") /\ PageTo("store")
  /\ pageHeap' = (pageHeap \ {"program_name", "user_name", "group_name"}) \cup {row.of}
  /\ UnchangedSetting /\ UnchangedVec /\ UNCHANGED <<alive, entry, row>>

\* Mutant of StoreRow: no room is kept for the end of the page.
StoreWhenFull ==
  /\ PageAt("processes", "store") /\ PageTo("read") /\ row' = NoRow
  /\ vec_size' = IF Len(vec) = vec_size THEN 2 * vec_size ELSE vec_size
  /\ vec' = Append(vec, row)
  /\ UnchangedSetting /\ UNCHANGED <<alive, entry, pageHeap, freed, pageSent>>

\* Mutant of StoreRow: a process that vanished has no row.
StoreIfAlive ==
  /\ PageAt("processes", "store") /\ PageTo("read") /\ row' = NoRow
  /\ vec_size' = IF Len(vec) = vec_size - 1 THEN 2 * vec_size ELSE vec_size
  /\ vec' = IF row = Placeholder THEN vec ELSE Append(vec, row)
  /\ UnchangedSetting /\ UNCHANGED <<alive, entry, pageHeap, freed, pageSent>>

\* One element more than the row needs, for the end of the page.
StoreRow ==
  /\ PageAt("processes", "store") /\ PageTo("read") /\ row' = NoRow
  /\ vec_size' = IF Len(vec) = vec_size - 1 THEN 2 * vec_size ELSE vec_size
  /\ vec' = Append(vec, row)
  /\ UnchangedSetting /\ UNCHANGED <<alive, entry, pageHeap, freed, pageSent>>

\* The end of the page, and writev: all of it, or an error nobody looks at.
WritePage ==
  /\ PageAt("processes", "read") /\ entry = Len(Listing) /\ PageTo("free") /\ freed' = 1
  /\ vec' = Append(vec, Static("end")) /\ pageSent' \in {vec', <<>>}
  /\ UnchangedSetting /\ UNCHANGED <<alive, entry, pageHeap, row, vec_size>>

\* free of what is not on the heap is the end of the child, at best.
FreeRow ==
  /\ PageAt("processes", "free") /\ UnchangedSetting
  /\ UNCHANGED <<alive, entry, row, vec, vec_size, pageSent>>
  /\ IF freed < Len(vec) - 1
     THEN LET buffer == vec[freed + 1].of IN
          /\ PageTo(IF buffer \in pageHeap THEN "free" ELSE "aborted")
          /\ freed' = freed + 1 /\ pageHeap' = pageHeap \ {buffer}
     ELSE PageTo("done") /\ pageHeap' = pageHeap \ {"vec"} /\ UNCHANGED freed

-----------------------------------------------------------------------------
\* issue.c and time.c.  Each write may be cut off by the client that goes away.

issue_generate ==
  /\ PageAt("issue", "read") /\ UnchangedSetting
  /\ \/ PageTo("aborted") /\ UNCHANGED pageSent                      \* no such file
     \/ PageTo("done") /\ pageSent' = <<Static("error_page")>>       \* fstat fails
     \/ \E body \in {"file", "part of file", "error_message"} :
          PageTo("done") /\ pageSent' = <<Static("start"), Static(body), Static("end")>>
  /\ UNCHANGED <<alive, entry, pageHeap, row, vec, vec_size, freed>>

time_generate ==
  /\ PageAt("time", "read") /\ UnchangedSetting /\ PageTo("done")
  /\ pageSent' = <<Static("start"), Static("time"), Static("end")>>
  /\ UNCHANGED <<alive, entry, pageHeap, row, vec, vec_size, freed>>

PagesNext ==
  \/ Vanish \/ NoMemoryForPage \/ NextEntry \/ get_uid_gid \/ get_rss \/ get_program_name
  \/ ShowNames \/ FormatRow \/ StoreRow \/ WritePage \/ FreeRow
  \/ issue_generate \/ time_generate

PagesSpec == PagesInit /\ [][PagesNext]_pageVars

-----------------------------------------------------------------------------

\* The iovec array is never shorter than what is in it, at any number of
\* processes: the test before a row keeps one element for the end (290-307).
VecFits == Len(vec) <= vec_size

\* The processes among the first n entries of the listing.
Rows(n) == Cardinality({i \in 1 .. n : Listing[i] \in Pids})

\* The page has a row for each process of the listing, in its order: the
\* process, or the placeholder when it vanished while it was looked at (264-301).
RowPerProcess ==
  pagePc = "free" =>
    /\ Len(vec) = Rows(Len(Listing)) + 2
    /\ \A i \in DOMAIN Listing : Listing[i] \in Pids =>
         vec[Rows(i) + 1].of \in {Listing[i], Placeholder.of}

\* The buffers of processes among elements K of the array.
RowBuffers(K) == {vec[k].of : k \in K} \cap Pids

\* At every moment the heap holds what the page is made of and nothing else: a process
\* that vanishes at any of the three looks of format_process_info leaves nothing behind
\* (177-189), a finished row leaves only itself (204-207), the last loop has given back
\* the rows it has passed and no other (316-317), whatever placeholders are among them,
\* and a page that comes to its end has given back everything (319).  One with a
\* placeholder is not freed: the child ends when the loop meets it (FreesWhatItAllocated).
HeapIsThePage ==
  module = "processes" =>
    /\ pagePc \in {"read", "uid", "rss", "program"} =>
         pageHeap = {"vec"} \cup RowBuffers(1 .. Len(vec))
    /\ pagePc = "store" =>
         pageHeap = {"vec"} \cup RowBuffers(1 .. Len(vec)) \cup ({row.of} \cap Pids)
    /\ pagePc = "free" => pageHeap = {"vec"} \cup RowBuffers(freed + 1 .. Len(vec))
    /\ pagePc = "done" => pageHeap = {}

\* A row shows the size in kilobytes of a process whose size in bytes is an int;
\* a larger one wraps around (157-159).
RowShowsKilobytes ==
  \A i \in DOMAIN vec : vec[i].of \in Pids =>
    LET bytes == rssPages[vec[i].of] * PageSize IN
    bytes < IntSize \div 2 => vec[i].kilobytes = bytes \div 1024

\* "Deallocate the buffers we created.  The first and last are static, and should
\* not be deallocated" (314): the others were allocated.
FreesWhatItAllocated ==
  pagePc = "free" /\ freed < Len(vec) - 1 => vec[freed + 1].of \in pageHeap

\* The page of processes has its rows, their sizes and no other memory than it needs,
\* whatever vanishes while it is made.
PagesInv == VecFits /\ RowPerProcess /\ HeapIsThePage /\ RowShowsKilobytes
================================================================================
