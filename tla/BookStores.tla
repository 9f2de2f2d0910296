----------------------------- MODULE BookStores -----------------------------
(***************************************************************************)
(* The books of the service, kept twice: as items of a DynamoDB table and  *)
(* as rows of a Postgres table.  BookService writes both, one awaited call *)
(* after the other and with no transaction around them, and a cron job     *)
(* copies each store into the other.  A request is one call of a method of *)
(* BookService; requests, the cron job and each other's awaits interleave. *)
(*                                                                         *)
(* One action is one awaited call.  A call may be rejected, with or        *)
(* without having taken effect, and the process may crash: both draw on    *)
(* the fault budget MaxFaults.  Title, author and publicationYear travel   *)
(* together everywhere and are one value of Contents, or None when one of  *)
(* them is missing: nothing checks what a client sends.  A missing `views` *)
(* attribute is 0, as every reader of it makes it (`?? 0`, if_not_exists). *)
(*                                                                         *)
(* Of the reads, what they write matters here: a READ log of every item    *)
(* they have read, when it may be gone.  A findOne stands for each of the  *)
(* books that findAll, findByAuthorAndYear and batchRead log in a row.     *)
(***************************************************************************)
EXTENDS Naturals, FiniteSets

CONSTANTS
  BookIds,    \* the ids uuid() can draw
  Seeded,     \* the books that init.sql puts into Postgres
  Contents,   \* the contents a client can ask for
  None,       \* no value: an attribute that is not there, no book
  Requests,   \* the calls clients make, each of them once
  Ops,        \* the methods they call; "sync" stands for the cron job
  ScanLimit,  \* items that fit the one page of a Scan the code reads
  MaxFaults   \* bound on rejected calls and crashes in one behaviour

AllOps == {"create", "update", "updateViewsCount", "remove", "batchWrite",
           "findOne", "sync"}

ASSUME ConstantsAssumption ==
  /\ Seeded \subseteq BookIds
  /\ None \notin BookIds
  /\ None \notin Contents
  /\ Ops \subseteq AllOps
  /\ ScanLimit \in Nat
  /\ MaxFaults \in Nat

VARIABLES
  dynamo,   \* the DynamoDB table: book -> item
  pg,       \* the Postgres table `books`: book -> row
  logs,     \* the Postgres table `book_logs`: the operations logged of a book
  used,     \* the ids drawn so far
  op, pc,   \* of a request: the method, and the call it awaits
  book,     \* of a request: the bookId
  row,      \* of a request: what it writes, or has read
  batch,    \* of a batchWrite: the items gathered so far
  cron,     \* the call the cron job awaits
  todo,     \* its loop: the rows, or items, it has still to copy
  cur,      \* the book of the row it is at
  faults,   \* the part of the budget that is spent
  touched,  \* history: books the requests wrote since the cron job's read
  missed    \* history: items outside the page its Scan returned

stores  == <<dynamo, pg, logs>>
request == <<op, pc, book, row, batch>>
sync    == <<cron, todo, cur, missed>>
vars    == <<stores, used, request, sync, faults, touched>>

-----------------------------------------------------------------------------
(* Rows, and partial functions from books to rows.                         *)

Row == [content : Contents \cup {None}, views : Nat]

Blank == [content |-> None, views |-> 0]

IsTable(t) == DOMAIN t \subseteq BookIds /\ t \in [DOMAIN t -> Row]

NoRows == [b \in {} |-> Blank]

Put(table, b, r) ==
  [x \in DOMAIN table \cup {b} |-> IF x = b THEN r ELSE table[x]]

Keep(table, B) == [x \in DOMAIN table \cap B |-> table[x]]

Drop(table, b) == Keep(table, DOMAIN table \ {b})

\* BatchWriteItem: the items of the books in B replace what was there.
PutAll(table, items, B) ==
  [x \in DOMAIN table \cup B |-> IF x \in B THEN items[x] ELSE table[x]]

\* repository.save: an upsert that leaves alone the columns it is given no
\* value for, so that it cannot insert a row without content (the columns
\* are NOT NULL).
CanSave(b, r) == r.content # None \/ b \in DOMAIN pg

\* Mutated: a save that writes NULL for the attributes the item has not got.
SavedWithNulls(b, r) == Put(pg, b, r)

Saved(b, r) ==
  Put(pg, b, IF r.content = None THEN [pg[b] EXCEPT !.views = r.views] ELSE r)

SameItemContent(b) ==  \* mutated: the views are forgotten
  b \in DOMAIN dynamo /\ dynamo[b].content = todo[b].content

SameItemThere(b) == b \in DOMAIN dynamo  \* mutated: any item will do

\* What the cron job compares, and what it calls a change: an item with a
\* row read at pgFind, and a row with an item scanned, whose views it leaves
\* out.
SameItem(b) == b \in DOMAIN dynamo /\ dynamo[b] = todo[b]

SameRow(b) == b \in DOMAIN pg /\ pg[b].content = todo[b].content

ViewsOf(table, b) == IF b \in DOMAIN table THEN table[b].views ELSE 0

-----------------------------------------------------------------------------
(* Awaited calls.                                                          *)

Fault == faults < MaxFaults /\ faults' = faults + 1

Goto(r, label) == pc' = [pc EXCEPT ![r] = label]

\* The cron job reads the rows at "pgFind": what is written before that is
\* in what it reads.
Touch(B) ==
  touched' = IF cron \in {"idle", "pgFind"} THEN touched ELSE touched \cup B

\* A call answers, and the request goes on, or rejects, and its handler's
\* catch block answers with an error.
Await(r, next) ==
  \/ Goto(r, next) /\ UNCHANGED faults
  \/ Goto(r, "error") /\ Fault

\* A write that rejects may have taken effect all the same.
WriteDynamo(r, new, next) ==
  /\ \/ dynamo' = new /\ Goto(r, next) /\ UNCHANGED faults
     \/ dynamo' \in {dynamo, new} /\ Goto(r, "error") /\ Fault
  /\ Touch({book[r]})
  /\ UNCHANGED <<pg, logs, sync>>

\* Mutated: a catch block around the save lets the request go on.
WritePgSwallowed(r, b, new, next) ==
  /\ \/ pg' = new /\ UNCHANGED faults
     \/ pg' \in {pg, new} /\ Fault
  /\ Goto(r, next)
  /\ Touch({b})
  /\ UNCHANGED <<dynamo, logs, sync>>

WritePg(r, b, new, next) ==
  /\ \/ pg' = new /\ Goto(r, next) /\ UNCHANGED faults
     \/ pg' \in {pg, new} /\ Goto(r, "error") /\ Fault
  /\ Touch({b})
  /\ UNCHANGED <<dynamo, logs, sync>>

\* logOperation swallows the failure of its save.
LogOperation(b, type) ==
  /\ \/ logs' = [logs EXCEPT ![b] = @ \cup {type}] /\ UNCHANGED faults
     \/ logs' = logs /\ Fault
  /\ UNCHANGED <<dynamo, pg, touched>>

-----------------------------------------------------------------------------
(* The requests.                                                           *)

\* What a client sends: no pipe validates it, so attributes may be missing.
Dtos == Contents \cup {None}

\* A client calls a method: create draws a fresh id, batchWrite draws its
\* ids as it goes, the others name a book that was once handed out.
StartCreate(r) ==
  \E b \in BookIds \ used, c \in Dtos :
    /\ used' = used \cup {b}
    /\ op' = [op EXCEPT ![r] = "create"]
    /\ book' = [book EXCEPT ![r] = b]
    /\ row' = [row EXCEPT ![r] = [content |-> c, views |-> 0]]
    /\ Goto(r, "put")

StartBatchWrite(r) ==
  /\ op' = [op EXCEPT ![r] = "batchWrite"]
  /\ Goto(r, "saveNext")
  /\ UNCHANGED <<used, book, row>>

StartOn(r) ==
  \E o \in Ops \cap {"update", "updateViewsCount", "remove", "findOne"}, b \in used :
    /\ op' = [op EXCEPT ![r] = o]
    /\ book' = [book EXCEPT ![r] = b]
    /\ IF o = "update"
         THEN \E c \in Contents : row' = [row EXCEPT ![r].content = c]
         ELSE UNCHANGED row
    /\ Goto(r, "get")
    /\ UNCHANGED used

Start(r) ==
  /\ pc[r] = "idle"
  /\ \/ "create" \in Ops /\ StartCreate(r)
     \/ "batchWrite" \in Ops /\ StartBatchWrite(r)
     \/ StartOn(r)
  /\ UNCHANGED <<stores, batch, sync, faults, touched>>

\* create: client.put
PutItem(r) ==
  /\ pc[r] = "put"
  /\ WriteDynamo(r, Put(dynamo, book[r], row[r]), "save")
  /\ UNCHANGED <<used, op, book, row, batch>>

\* update, updateViewsCount, findOne, remove: client.get.  The first three
\* answer with an error when there is no item; remove goes on.
AfterGet(r) ==
  CASE op[r] = "update" -> "updateItem"
    [] op[r] = "updateViewsCount" -> "increment"
    [] op[r] = "findOne" -> "log"
    [] OTHER -> "deleteItem"

\* Mutated: nobody looks whether the item is there.
GetUnchecked(r) ==
  /\ pc[r] = "get"
  /\ Await(r, AfterGet(r))
  /\ UNCHANGED <<stores, used, op, book, row, batch, sync, touched>>

Get(r) ==
  /\ pc[r] = "get"
  /\ IF book[r] \in DOMAIN dynamo \/ op[r] = "remove"
       THEN Await(r, AfterGet(r))
       ELSE Goto(r, "error") /\ UNCHANGED faults
  /\ row' = IF op[r] = "updateViewsCount" /\ book[r] \in DOMAIN dynamo
              THEN [row EXCEPT ![r] = dynamo[book[r]]] ELSE row
  /\ UNCHANGED <<stores, used, op, book, batch, sync, touched>>

\* update: client.update, which creates the item when it is gone by now; the
\* request goes on with the attributes the table answers with.  When the dto
\* lacks one, the expression names a value it is not given, and is rejected.
UpdateItem(r) ==
  LET new == [content |-> row[r].content, views |-> ViewsOf(dynamo, book[r])]
  IN  /\ pc[r] = "updateItem"
      /\ \/ /\ WriteDynamo(r, Put(dynamo, book[r], new), "save")
            /\ row' = [row EXCEPT ![r] = new]
         \/ /\ Goto(r, "error")
            /\ UNCHANGED <<stores, row, sync, faults, touched>>
      /\ UNCHANGED <<used, op, book, batch>>

\* Mutated: the new count is computed from the item read before.
IncrementRead(r) ==
  LET new == [row[r] EXCEPT !.views = @ + 1]
  IN  /\ pc[r] = "increment"
      /\ WriteDynamo(r, Put(dynamo, book[r], new), "save")
      /\ row' = [row EXCEPT ![r] = new]
      /\ UNCHANGED <<used, op, book, batch>>

\* updateViewsCount: client.update again, which creates an item of nothing
\* but a count when the book is gone by now.  The request goes on with the
\* new count and the content it read before.
Increment(r) ==
  LET b   == book[r]
      old == IF b \in DOMAIN dynamo THEN dynamo[b] ELSE Blank
      new == [old EXCEPT !.views = @ + 1]
  IN  /\ pc[r] = "increment"
      /\ WriteDynamo(r, Put(dynamo, b, new), "save")
      /\ row' = [row EXCEPT ![r].views = new.views]
      /\ UNCHANGED <<used, op, book, batch>>

\* remove: client.delete, whether or not there is an item.
DeleteItem(r) ==
  /\ pc[r] = "deleteItem"
  /\ WriteDynamo(r, Drop(dynamo, book[r]), "deleteRow")
  /\ UNCHANGED <<used, op, book, row, batch>>

\* remove: bookRepository.delete
DeleteRow(r) ==
  /\ pc[r] = "deleteRow"
  /\ WritePg(r, book[r], Drop(pg, book[r]), "log")
  /\ UNCHANGED <<used, op, book, row, batch>>

\* create, update, updateViewsCount: bookRepository.save
SaveRow(r) ==
  /\ pc[r] = "save"
  /\ IF CanSave(book[r], row[r])
       THEN WritePg(r, book[r], Saved(book[r], row[r]),
                    IF op[r] = "updateViewsCount" THEN "publish" ELSE "log")
       ELSE Goto(r, "error") /\ UNCHANGED <<stores, sync, faults, touched>>
  /\ UNCHANGED <<used, op, book, row, batch>>

LogType(r) ==
  CASE op[r] = "update" -> "UPDATE"
    [] op[r] = "remove" -> "DELETE"
    [] op[r] = "findOne" -> "READ"
    [] OTHER -> "CREATE"

Log(r) ==
  /\ pc[r] = "log"
  /\ LogOperation(book[r], LogType(r))
  /\ Goto(r, "publish")
  /\ UNCHANGED <<used, op, book, row, batch, sync>>

\* The publisher swallows what the general channel rejects;
\* publishViewsUpdated and publishBookViewed publish on a second channel too,
\* outside of that catch block.  (A findOne then finds the logs, and answers.)
Publish(r) ==
  /\ pc[r] = "publish"
  /\ IF op[r] \in {"updateViewsCount", "findOne"}
       THEN Await(r, "ok")
       ELSE Goto(r, "ok") /\ (UNCHANGED faults \/ Fault)
  /\ UNCHANGED <<stores, used, op, book, row, batch, sync, touched>>

\* batchWrite, in its loop: a fresh id for the next dto, its item gathered,
\* its row saved, which an attribute that is missing makes fail.
BatchSave(r) ==
  /\ pc[r] = "saveNext"
  /\ \E b \in BookIds \ used, c \in Dtos :
       LET new == [content |-> c, views |-> 0]
       IN  /\ used' = used \cup {b}
           /\ book' = [book EXCEPT ![r] = b]
           /\ batch' = [batch EXCEPT ![r] = Put(@, b, new)]
           /\ IF c = None
                THEN Goto(r, "error") /\ UNCHANGED <<stores, sync, faults, touched>>
                ELSE WritePg(r, b, Put(pg, b, new), "logNext")
  /\ UNCHANGED <<op, row>>

BatchLog(r) ==
  /\ pc[r] = "logNext"
  /\ LogOperation(book[r], "CREATE")
  /\ Goto(r, "saveNext")
  /\ UNCHANGED <<used, op, book, row, batch, sync>>

\* batchWrite, after the loop: the table takes all the items or, throttled,
\* some of them; UnprocessedItems is a warning and the answer a success.
BatchPut(r) ==
  LET items == DOMAIN batch[r]
  IN  /\ pc[r] = "saveNext"
      /\ items # {}
      /\ \E done \in SUBSET items :
           /\ dynamo' = PutAll(dynamo, batch[r], done)
           /\ \/ done = items /\ Goto(r, "publish") /\ UNCHANGED faults
              \/ Goto(r, "publish") /\ Fault
              \/ Goto(r, "error") /\ Fault
      /\ Touch(items)
      /\ UNCHANGED <<pg, logs, used, op, book, row, batch, sync>>

Call(r) ==
  \/ PutItem(r) \/ Get(r) \/ UpdateItem(r) \/ Increment(r)
  \/ DeleteItem(r) \/ DeleteRow(r) \/ SaveRow(r) \/ Log(r) \/ Publish(r)
  \/ BatchSave(r) \/ BatchLog(r) \/ BatchPut(r)

-----------------------------------------------------------------------------
(* The cron job: syncAllFromPostgresToDynamo ("pg..."), then               *)
(* syncAllFromDynamoToPostgres ("dyn...").                                 *)

\* Mutated: a timeout where the interval should be.
SyncStartOnce ==
  /\ "sync" \in Ops
  /\ cron = "idle"
  /\ cron' = "pgFind"
  /\ touched' = {}
  /\ missed' = {}
  /\ UNCHANGED <<stores, used, request, todo, cur, faults>>

\* publishSyncStarted("postgres")
SyncStart ==
  /\ "sync" \in Ops
  /\ cron \in {"idle", "done"}
  /\ cron' = "pgFind"
  /\ touched' = {}
  /\ missed' = {}
  /\ UNCHANGED <<stores, used, request, todo, cur, faults>>

\* bookRepository.find: one read of the whole table.
PgFind ==
  /\ cron = "pgFind"
  /\ todo' = pg
  /\ cron' = "pgNext"
  /\ UNCHANGED <<stores, used, request, cur, missed, faults, touched>>

\* The loop's client.get, and the comparison of the item with the row read
\* at pgFind, views included.
PgCompare ==
  /\ cron = "pgNext"
  /\ \E b \in DOMAIN todo :
       /\ cur' = b
       /\ cron' = IF SameItem(b) THEN "pgHasLog" ELSE "pgPut"
  /\ UNCHANGED <<stores, used, request, todo, missed, faults, touched>>

PgPut ==
  /\ cron = "pgPut"
  /\ dynamo' = Put(dynamo, cur, todo[cur])
  /\ cron' = "pgLog"
  /\ UNCHANGED <<pg, logs, used, request, todo, cur, missed, faults, touched>>

\* To the loop's next row, or item.
NextRow(label) ==
  /\ todo' = Drop(todo, cur)
  /\ cur' = None
  /\ cron' = label
  /\ UNCHANGED missed

PgLog ==
  /\ cron \in {"pgLog", "pgSkipLog"}
  /\ LogOperation(cur, "SYNC")
  /\ NextRow("pgNext")
  /\ UNCHANGED <<used, request>>

\* An unchanged book is logged only if nothing was ever logged of it.
PgHasLog ==
  /\ cron = "pgHasLog"
  /\ IF logs[cur] = {}
       THEN cron' = "pgSkipLog" /\ UNCHANGED <<todo, cur, missed>>
       ELSE NextRow("pgNext")
  /\ UNCHANGED <<stores, used, request, faults, touched>>

\* publishSyncCompleted, and publishSyncStarted("dynamodb")
PgDone ==
  /\ cron = "pgNext"
  /\ DOMAIN todo = {}
  /\ cron' = "dynScan"
  /\ UNCHANGED <<stores, used, request, todo, cur, missed, faults, touched>>

\* client.scan, without asking for the pages after the first one.
DynScan ==
  /\ cron = "dynScan"
  /\ \E page \in SUBSET DOMAIN dynamo :
       /\ page = DOMAIN dynamo \/ Cardinality(page) = ScanLimit
       /\ Cardinality(page) <= ScanLimit
       /\ todo' = Keep(dynamo, page)
       /\ missed' = DOMAIN dynamo \ page
  /\ cron' = "dynNext"
  /\ UNCHANGED <<stores, used, request, cur, faults, touched>>

\* The loop's bookRepository.findOne, and the comparison of the row with the
\* item scanned, views left out.
DynCompare ==
  /\ cron = "dynNext"
  /\ \E b \in DOMAIN todo :
       IF SameRow(b)
         THEN todo' = Drop(todo, b) /\ UNCHANGED <<cron, cur>>
         ELSE cron' = "dynSave" /\ cur' = b /\ UNCHANGED todo
  /\ UNCHANGED <<stores, used, request, missed, faults, touched>>

\* What a rejected call or a crash leaves of a run.
Abandoned ==
  /\ cron' = "idle"
  /\ todo' = NoRows
  /\ cur' = None
  /\ missed' = {}
  /\ touched' = {}

DynSave ==
  /\ cron = "dynSave"
  /\ IF CanSave(cur, todo[cur])
       THEN pg' = Saved(cur, todo[cur]) /\ NextRow("dynNext") /\ UNCHANGED touched
       ELSE Abandoned /\ UNCHANGED pg
  /\ UNCHANGED <<dynamo, logs, used, request, faults>>

\* publishSyncCompleted
DynDone ==
  /\ cron = "dynNext"
  /\ DOMAIN todo = {}
  /\ cron' = "done"
  /\ UNCHANGED <<stores, used, request, todo, cur, missed, faults, touched>>

\* A call of the job rejects and nothing catches it: the run ends there.  It
\* is the call the job awaits, with no effect, or the one before, whose
\* effect was real and whose answer was lost.
SyncReject ==
  /\ cron \notin {"idle", "done"}
  /\ Fault
  /\ Abandoned
  /\ UNCHANGED <<stores, used, request>>

Sync ==
  \/ SyncStart \/ PgFind \/ PgCompare \/ PgPut \/ PgLog \/ PgHasLog \/ PgDone
  \/ DynScan \/ DynCompare \/ DynSave \/ DynDone

-----------------------------------------------------------------------------
Answered == {"ok", "error", "lost"}

\* The process dies: what it awaited was done or was not, nobody is told,
\* and the stores keep what they hold.
Crash ==
  /\ Fault
  /\ pc' = [r \in Requests |->
              IF pc[r] \in Answered \cup {"idle"} THEN pc[r] ELSE "lost"]
  /\ Abandoned
  /\ UNCHANGED <<stores, used, op, book, row, batch>>

\* init.sql fills Postgres; DynamoDB has the table of the seeding script, with
\* items of the same contents, or the empty one of the service.
Init ==
  /\ pg \in [Seeded -> [content : Contents, views : {0}]]
  /\ \E S \in SUBSET Seeded : dynamo = Keep(pg, S)
  /\ logs = [b \in BookIds |-> IF b \in Seeded THEN {"CREATE"} ELSE {}]
  /\ used = Seeded
  /\ op = [r \in Requests |-> None]
  /\ pc = [r \in Requests |-> "idle"]
  /\ book = [r \in Requests |-> None]
  /\ row = [r \in Requests |-> Blank]
  /\ batch = [r \in Requests |-> NoRows]
  /\ cron = "idle"
  /\ todo = NoRows
  /\ cur = None
  /\ faults = 0
  /\ touched = {}
  /\ missed = {}

Next ==
  \/ \E r \in Requests : Start(r) \/ Call(r)
  \/ Sync
  \/ SyncReject
  \/ Crash

Spec == Init /\ [][Next]_vars

\* Every awaited call settles, and the cron job's timer keeps firing.
\* Clients owe nothing: no request has to be made.
Fairness ==
  /\ \A r \in Requests : WF_vars(Call(r))
  /\ WF_vars(Sync)

FairSpec == Spec /\ Fairness
-----------------------------------------------------------------------------
(* Properties.                                                             *)

Labels == {"idle", "put", "get", "updateItem", "increment", "deleteItem",
           "deleteRow", "save", "log", "publish", "saveNext", "logNext"}
             \cup Answered

CronLabels == {"idle", "pgFind", "pgNext", "pgPut", "pgLog", "pgHasLog",
               "pgSkipLog", "dynScan", "dynNext", "dynSave", "done"}

LogTypes == {"CREATE", "UPDATE", "DELETE", "SYNC", "READ"}

\* The types of the variables.  Beyond the shapes: a row of Postgres has
\* content (its columns are NOT NULL), whatever the requests and the cron job
\* pass to repository.save.
TypeOK ==
  /\ IsTable(dynamo)
  /\ IsTable(pg)
  /\ \A b \in DOMAIN pg : pg[b].content # None
  /\ logs \in [BookIds -> SUBSET LogTypes]
  /\ used \subseteq BookIds
  /\ op \in [Requests -> AllOps \cup {None}]
  /\ pc \in [Requests -> Labels]
  /\ book \in [Requests -> BookIds \cup {None}]
  /\ row \in [Requests -> Row]
  /\ batch = [r \in Requests |-> batch[r]]
  /\ \A r \in Requests : IsTable(batch[r])
  /\ cron \in CronLabels
  /\ IsTable(todo)
  /\ cur \in BookIds \cup {None}
  /\ faults \in 0..MaxFaults
  /\ touched \subseteq BookIds
  /\ missed \subseteq BookIds

\* What the program counters say of the rest: a request that was not made
\* holds nothing, one that awaits a call on a book names that book, and the
\* cron job is at a row it has still to copy.
Bookkeeping ==
  /\ \A r \in Requests :
       /\ pc[r] = "idle" => book[r] = None /\ batch[r] = NoRows
       /\ pc[r] \notin {"idle", "saveNext", "lost", "publish", "ok", "error"}
            => book[r] \in BookIds
  /\ cron \in {"pgPut", "pgLog", "pgHasLog", "pgSkipLog", "dynSave"}
       => cur \in DOMAIN todo

\* A run of the cron job that gets to its end leaves the two stores equal on
\* every book no request wrote while it ran: every row has an item equal to
\* it, and every item that was on the page the scan returned has a row.
\* Each half of the run compares with what it read at its start, writes
\* after an await, and looks at other columns than the other half does.
SyncConverges ==
  cron = "done" =>
    \A b \in BookIds \ touched :
      /\ b \in DOMAIN pg => b \in DOMAIN dynamo /\ dynamo[b] = pg[b]
      /\ b \in DOMAIN dynamo \ missed => b \in DOMAIN pg

\* While a run goes on, the row of a book changes only if a request changes
\* it: after its first half the second one finds no difference to copy back
\* over a row that was there all along.
SyncKeepsRows ==
  [][\A b \in DOMAIN pg :
        cron \notin {"idle", "pgFind"} /\ b \notin touched' =>
          b \in DOMAIN pg' /\ pg'[b] = pg[b]]_vars

\* A book is gone: in neither store, and neither a request past its check
\* nor the cron job holds a copy it has yet to write.
Writing(r, b) ==
  \/ pc[r] \in {"put", "updateItem", "increment", "save"} /\ book[r] = b
  \/ pc[r] \in {"saveNext", "logNext"} /\ b \in DOMAIN batch[r]

Gone(b) ==
  /\ b \in used
  /\ b \notin DOMAIN dynamo
  /\ b \notin DOMAIN pg
  /\ b \notin DOMAIN todo
  /\ \A r \in Requests : ~Writing(r, b)

\* A book that is gone stays gone: updates and view counts look for the
\* item first, ids are never drawn twice, and the cron job only copies what
\* it has read.
GoneIsForever == [][\A b \in BookIds : Gone(b) => Gone(b)']_vars

RemoveAsked(b) == \E r \in Requests : op[r] = "remove" /\ book[r] = b

Batched(b) == \E r \in Requests : b \in DOMAIN batch[r]

Acknowledged(b) ==
  \E r \in Requests : pc[r] = "ok" /\ op[r] \in {"create", "update"} /\ book[r] = b

\* The logs that tell of a write of the book: reads do not, nor do the logs
\* that init.sql inserts.
WriteLogs(b) == logs[b] \ (IF b \in Seeded THEN {"READ", "CREATE"} ELSE {"READ"})

\* A book with a log of a write, or whose create or update was answered with a
\* success, is in both stores unless its removal was asked for, whatever
\* failed or crashed on the way; one with a log of a read is in the table it
\* was read from, and in that only as long as its create is under way or has
\* failed.  (batchWrite vouches for the row only: it takes no notice of
\* unprocessed items.)
RecordedBooksExist ==
  \A b \in BookIds : ~RemoveAsked(b) =>
    /\ WriteLogs(b) # {} \/ Acknowledged(b) =>
         b \in DOMAIN pg /\ (Batched(b) \/ b \in DOMAIN dynamo)
    /\ "READ" \in logs[b] => b \in DOMAIN dynamo

\* Concurrent updates of the views count are all counted by the table, as
\* long as the book is not removed and no cron job runs: the increments are
\* atomic although each request checks first and saves last.
Increments(b) ==
  {r \in Requests : /\ op[r] = "updateViewsCount" /\ book[r] = b
                    /\ pc[r] \in {"save", "publish", "ok"}}

NoLostIncrement ==
  \A b \in BookIds :
    ~RemoveAsked(b) => ViewsOf(dynamo, b) >= Cardinality(Increments(b))

\* Once requests and faults stop, every row of Postgres gets to the table, with
\* its content and views, and they stay so.  No item without content and no
\* scan of one page only keeps the job's first half from that.
RowsReachItems == <>[](\A b \in DOMAIN pg : b \in DOMAIN dynamo /\ dynamo[b] = pg[b])

\* What the way back takes: a table that fits one page of a Scan, and no item
\* that lacks an attribute.  One such item, which a POST of a book without a
\* title leaves behind, ends every run of the job at its save.
Copyable ==
  /\ \A b \in DOMAIN dynamo : dynamo[b].content # None
  /\ Cardinality(DOMAIN dynamo) <= ScanLimit

\* If the table is so in the end, the cron job brings the two stores to hold
\* the same books with the same content and views for good, whatever the
\* requests left half done.
EventuallyConsistent == <>[]Copyable => <>[](dynamo = pg)

\* book-event.publisher.ts:265 says that a failing publication does not
\* affect the main operation: no request fails because of it.
PublishFailureIsSwallowed ==
  [][\A r \in Requests : pc[r] = "publish" => pc'[r] # "error"]_vars

\* book.service.ts:510 says that the cron job does not log an unchanged book
\* that has a log already.
SyncLogsOnlyUnlogged ==
  [][cron = "pgSkipLog" /\ logs' # logs /\ cron' # cron => logs[cur] = {}]_vars
=============================================================================
