------------------------------ MODULE BookReads ------------------------------
(***************************************************************************)
(* The reads of BookService.  A read takes items from DynamoDB, logs a     *)
(* READ of each of them in Postgres, publishes an event, and answers; the  *)
(* logs of a book are read in pages, from the newest to the oldest, while  *)
(* reads and writes keep adding to them.                                   *)
(*                                                                         *)
(* One action is one awaited call.  A call may be rejected, which draws on *)
(* the fault budget.  The writes of BookService are here only for what     *)
(* they do to the items and to the logs; BookStores has them in full.      *)
(***************************************************************************)
EXTENDS Integers, FiniteSets

CONSTANTS
  Books,
  Reads,      \* the requests that read books, each made once
  Methods,    \* the methods they call
  ScanLimit,  \* items that fit the one page of a Scan the code reads
  Limit,      \* the `limit` of the client that reads the logs of a book
  Skew,       \* how far a log can be older than one that was there before it
  MaxRows,    \* writes stop when that many rows are kept
  MaxFaults   \* bound on the calls that are rejected in one behaviour

AllMethods == {"findAll", "findOne", "findByAuthorAndYear", "batchRead"}

ASSUME ReadsAssumption ==
  /\ Methods \subseteq AllMethods
  /\ ScanLimit \in Nat /\ Skew \in Nat /\ MaxRows \in Nat /\ MaxFaults \in Nat
  /\ Limit \in Nat /\ Limit > 0

VARIABLES
  items,    \* the books that have an item
  whose,    \* the book whose logs are read in pages
  rows,     \* the rows of book_logs of that book
  logged,   \* the READs that were logged, of any book: <<request, book>>
  clock,    \* the latest time a row was given
  method,   \* of a request: the method
  pc,       \* of a request: the call it awaits, or how it was answered
  found,    \* of a request: the books of the items it has read
  todo,     \* of a request: those it has still to log
  page,     \* the client that pages: the call it awaits
  offset,   \* the `offset` of its next page
  seen,     \* the logs it was answered
  start,    \* history: the logs that were there at its first page
  faults    \* the part of the budget that is spent

request == <<method, pc, found, todo>>
pager   == <<page, offset, seen, start>>
logs    == <<whose, rows, logged, clock>>
vars    == <<items, logs, request, pager, faults>>

-----------------------------------------------------------------------------
(* The table book_logs.                                                    *)

\* A row's time is that of the database when its insert starts: rows may have
\* the same time, or show up after younger ones.  Only the rows of the book
\* that is paged are kept.
Insert(b) ==
  IF b # whose THEN UNCHANGED <<rows, clock>>
  ELSE \E t \in (clock - Skew)..(clock + 1) :
         /\ rows' = rows \cup {[id |-> Cardinality(rows) + 1, time |-> t]}
         /\ clock' = IF t > clock THEN t ELSE clock

AtMost(n, m) == IF n < m THEN n ELSE m

NotOlder(A, B) == \A x \in A, y \in B : x.time >= y.time

\* find with order: timestamp DESC, skip and take.  Rows of the same time
\* come in any order, and in another one the next time.
IsPage(P, R, skip, take) ==
  \E K \in SUBSET R :
    /\ Cardinality(K) = AtMost(skip, Cardinality(R))
    /\ NotOlder(K, R \ K)
    /\ P \subseteq R \ K
    /\ Cardinality(P) = AtMost(take, Cardinality(R \ K))
    /\ NotOlder(P, (R \ K) \ P)

-----------------------------------------------------------------------------
(* The requests that read books.                                           *)

Goto(r, label) == pc' = [pc EXCEPT ![r] = label]

Fault == faults < MaxFaults /\ faults' = faults + 1

\* The call answers, and the request goes on, or rejects, and the catch block
\* of the method answers with an error.
Await(r, next) ==
  \/ Goto(r, next) /\ UNCHANGED faults
  \/ Goto(r, "error") /\ Fault

\* A method begins with the one call that reads the items.
Begin(r, m, B) ==
  /\ pc[r] = "idle"
  /\ m \in Methods
  /\ method' = [method EXCEPT ![r] = m]
  /\ found' = [found EXCEPT ![r] = B]
  /\ todo' = [todo EXCEPT ![r] = B]
  /\ UNCHANGED <<items, logs, pager>>

\* Nothing read, nothing to log and nothing to publish.
AfterFetch(B) == IF B = {} THEN "ok" ELSE "logNext"

\* findAll: client.scan, its first page only; the event of the listing goes
\* out before the reads are logged.
Scan(r) ==
  \E B \in SUBSET items :
    /\ B = items \/ Cardinality(B) = ScanLimit
    /\ Cardinality(B) <= ScanLimit
    /\ Begin(r, "findAll", B)
    /\ Await(r, IF B = {} THEN "ok" ELSE "publishListed")

\* findByAuthorAndYear: client.query on the index; the books of an author and
\* a year can be any.  The controller hands on the year as the string it is in
\* the URL, where the index has a number, and that is rejected: only a caller
\* that has a number gets books.
Query(r) ==
  \/ \E B \in SUBSET items : Begin(r, "findByAuthorAndYear", B) /\ Await(r, AfterFetch(B))
  \/ Begin(r, "findByAuthorAndYear", {}) /\ Goto(r, "error") /\ UNCHANGED faults

\* batchRead: client.batchGet, of any books; a throttled table leaves out some
\* of them, and the UnprocessedKeys are not looked at.
BatchGet(r) ==
  \E B \in SUBSET items : Begin(r, "batchRead", B) /\ Await(r, AfterFetch(B))

\* findOne: client.get; without an item it answers with an error.
Get(r) ==
  \E b \in Books :
    IF b \in items
      THEN Begin(r, "findOne", {b}) /\ Await(r, "logNext")
      ELSE Begin(r, "findOne", {}) /\ Goto(r, "error") /\ UNCHANGED faults

\* A bug the properties must catch: the loop ends with its first item.
LogFirst(r) ==
  /\ pc[r] = "logNext"
  /\ \E b \in todo[r] :
       /\ todo' = [todo EXCEPT ![r] = {}]
       /\ Insert(b) /\ UNCHANGED faults
       /\ logged' = logged \cup {<<r, b>>}
  /\ UNCHANGED <<items, whose, method, pc, found, pager>>

\* logOperation, for the next of the items; it swallows what rejects.
LogNext(r) ==
  /\ pc[r] = "logNext"
  /\ \E b \in todo[r] :
       /\ todo' = [todo EXCEPT ![r] = @ \ {b}]
       /\ \/ Insert(b) /\ logged' = logged \cup {<<r, b>>} /\ UNCHANGED faults
          \/ Fault /\ UNCHANGED <<rows, clock, logged>>
  /\ UNCHANGED <<items, whose, method, pc, found, pager>>

AllLogged(r) == pc[r] = "logNext" /\ todo[r] = {}

\* publishBooksListed and publishAuthorSearched publish on the general
\* channel, and swallow what rejects; findAll just answers after its loop.
PublishSwallowed(r) ==
  /\ \/ pc[r] = "publishListed" /\ Goto(r, "logNext")
     \/ AllLogged(r) /\ method[r] = "findByAuthorAndYear" /\ Goto(r, "ok")
  /\ UNCHANGED faults \/ Fault
  /\ UNCHANGED <<items, logs, method, found, todo, pager>>

\* A bug the properties must catch: the loop is not awaited.
ListedUnlogged(r) ==
  /\ pc[r] = "logNext" /\ method[r] = "findAll"
  /\ Goto(r, "ok")
  /\ UNCHANGED <<items, logs, method, found, todo, pager, faults>>

Listed(r) ==
  /\ AllLogged(r) /\ method[r] = "findAll"
  /\ Goto(r, "ok")
  /\ UNCHANGED <<items, logs, method, found, todo, pager, faults>>

\* publishBookViewed and publishBatchViewed publish on a second channel too,
\* and what that rejects is not swallowed.
PublishTwice(r) ==
  /\ AllLogged(r)
  /\ \/ method[r] = "findOne" /\ Await(r, "findLogs")
     \/ method[r] = "batchRead" /\ Await(r, "ok")
  /\ UNCHANGED <<items, logs, method, found, todo, pager>>

\* findOne: bookLogRepository.find; what it answers with is not kept.
FindLogs(r) ==
  /\ pc[r] = "findLogs"
  /\ Await(r, "ok")
  /\ UNCHANGED <<items, logs, method, found, todo, pager>>

Call(r) ==
  \/ Scan(r) \/ Query(r) \/ BatchGet(r) \/ Get(r) \/ LogNext(r)
  \/ Listed(r) \/ PublishSwallowed(r) \/ PublishTwice(r) \/ FindLogs(r)

-----------------------------------------------------------------------------
(* getLogsForBook, and the client that asks for one page after the other:  *)
(* it goes on while pages are full, and asks again for one that failed.    *)

\* client.get; without an item the answer is Not Found.
GetForLogs ==
  /\ page = "idle" \/ page = "get"
  /\ \/ page' = (IF whose \in items THEN "find" ELSE "notFound") /\ UNCHANGED faults
     \/ page' = "get" /\ Fault
  /\ UNCHANGED <<items, logs, request, offset, seen, start>>

\* A bug the properties must catch: the offset taken for a number of pages.
FindPageOfPages ==
  /\ page = "find"
  /\ \E P \in SUBSET rows :
       /\ IsPage(P, rows, offset * Limit, Limit)
       /\ seen' = seen \cup P
       /\ page' = IF Cardinality(P) = Limit THEN "get" ELSE "done"
       /\ offset' = IF Cardinality(P) = Limit THEN offset + Limit ELSE offset
  /\ start' = IF offset = 0 THEN rows ELSE start
  /\ UNCHANGED <<items, logs, request, faults>>

\* bookLogRepository.find with skip: offset and take: limit.
FindPage ==
  /\ page = "find"
  /\ \E P \in SUBSET rows :
       /\ IsPage(P, rows, offset, Limit)
       /\ seen' = seen \cup P
       /\ page' = IF Cardinality(P) = Limit THEN "get" ELSE "done"
       /\ offset' = IF Cardinality(P) = Limit THEN offset + Limit ELSE offset
  /\ start' = IF offset = 0 THEN rows ELSE start
  /\ UNCHANGED <<items, logs, request, faults>>

FindPageRejects ==
  /\ page = "find"
  /\ page' = "get"
  /\ Fault
  /\ UNCHANGED <<items, logs, request, offset, seen, start>>

Pager == GetForLogs \/ FindPage \/ FindPageRejects

-----------------------------------------------------------------------------
\* What the writes of BookService do to the items, and the log each of them
\* leaves of it; the cron job may put back a book that was removed.
Write ==
  /\ Cardinality(rows) < MaxRows
  /\ \E b \in Books :
       /\ items' \in {items \cup {b}, items \ {b}}
       /\ Insert(b)
  /\ UNCHANGED <<whose, logged, request, pager, faults>>

Init ==
  /\ items = Books
  /\ whose \in Books
  /\ rows = {}
  /\ logged = {}
  /\ clock = 1
  /\ method = [r \in Reads |-> "none"]
  /\ pc = [r \in Reads |-> "idle"]
  /\ found = [r \in Reads |-> {}]
  /\ todo = [r \in Reads |-> {}]
  /\ page = "idle"
  /\ offset = 0
  /\ seen = {}
  /\ start = {}
  /\ faults = 0

Next ==
  \/ \E r \in Reads : Call(r)
  \/ Pager
  \/ Write

Spec == Init /\ [][Next]_vars

-----------------------------------------------------------------------------
(* Properties.                                                             *)

Labels == {"idle", "publishListed", "logNext", "findLogs", "ok", "error"}

Row == [id : Nat, time : Int]

\* The types of the variables; ids are not given twice, and a request is not
\* answered before it is done with what it read.
TypeOK ==
  /\ items \subseteq Books
  /\ whose \in Books
  /\ rows \subseteq Row
  /\ \A x, y \in rows : x.id = y.id => x = y
  /\ logged \subseteq Reads \X Books
  /\ clock \in Int
  /\ method \in [Reads -> Methods \cup {"none"}]
  /\ pc \in [Reads -> Labels]
  /\ found \in [Reads -> SUBSET Books]
  /\ todo \in [Reads -> SUBSET Books]
  /\ \A r \in Reads : pc[r] \in {"findLogs", "ok"} => todo[r] = {}
  /\ page \in {"idle", "get", "find", "notFound", "done"}
  /\ offset \in Nat
  /\ seen \subseteq rows /\ start \subseteq rows
  /\ faults \in 0..MaxFaults

NoTies == \A x, y \in rows : x.time = y.time => x = y

\* A client that reads the logs of a book page by page, until a page is not
\* full, has seen every log that was there when it began, as long as no two
\* logs of the book have the same time: what is logged meanwhile only moves
\* the others to later pages.
PagesMissNothing == page = "done" /\ NoTies => start \subseteq seen

Unlogged == {rb \in Reads \X Books : /\ pc[rb[1]] = "ok"
                                    /\ rb[2] \in found[rb[1]]} \ logged

LoggedInVain == {r \in Reads : pc[r] = "error" /\ \E b \in Books : <<r, b>> \in logged}

\* The READ logs tell the books the reads were answered with, one log for
\* each (book.service.ts:100, "Log individual por cada libro leido"), but for
\* calls that were rejected: each of them costs one log at most, or makes one
\* read fail after it was logged.
ReadsAreCounted ==
  Cardinality(Unlogged) + Cardinality(LoggedInVain) <= faults
=============================================================================
