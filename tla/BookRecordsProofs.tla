-------------------------- MODULE BookRecordsProofs --------------------------
(***************************************************************************)
(* Theorems about what BookStores promises of a single book: that what was *)
(* recorded of it is in the stores, and that its views are all counted.    *)
(***************************************************************************)
EXTENDS BookStoresProofs, FiniteSetTheorems

-----------------------------------------------------------------------------
(* The method a request is in, by the call it awaits.                      *)

OpInv ==
  \A r \in Requests :
    /\ pc[r] = "put" => op[r] = "create"
    /\ pc[r] = "get" => op[r] \in {"update", "updateViewsCount", "findOne", "remove"}
    /\ pc[r] = "updateItem" => op[r] = "update"
    /\ pc[r] = "increment" => op[r] = "updateViewsCount"
    /\ pc[r] \in {"deleteItem", "deleteRow"} => op[r] = "remove"
    /\ pc[r] = "save" => op[r] \in {"create", "update", "updateViewsCount"}
    /\ pc[r] = "log" => op[r] \in {"create", "update", "findOne", "remove"}
    /\ pc[r] \in {"saveNext", "logNext"} => op[r] = "batchWrite"

\* The functions that a step of a request changes at that request.
LEMMA RequestTypes ==
  ASSUME IInv
  PROVE  /\ op \in [Requests -> AllOps \cup {None}]
         /\ pc \in [Requests -> Labels]
         /\ book \in [Requests -> BookIds \cup {None}]
         /\ batch = [r \in Requests |-> batch[r]]
         /\ \A r \in Requests : pc[r] = "idle" => book[r] = None /\ batch[r] = NoRows
  BY DEF IInv, TypeOK, Bookkeeping

\* A call is one of these, by the label it is made at, and leads to one of
\* those.
LEMMA CallMoves ==
  ASSUME IInv, OpInv, NEW r \in Requests, Call(r)
  PROVE  \E l \in Labels :
           /\ Goto(r, l)
           /\ \/ l = "error"
              \/ pc[r] = "put" /\ l = "save"
              \/ pc[r] = "get" /\ l = AfterGet(r)
              \/ pc[r] \in {"updateItem", "increment"} /\ l = "save"
              \/ pc[r] = "deleteItem" /\ l = "deleteRow"
              \/ pc[r] = "deleteRow" /\ l = "log"
              \/ pc[r] = "save" /\ l = (IF op[r] = "updateViewsCount" THEN "publish" ELSE "log")
              \/ pc[r] = "log" /\ l = "publish"
              \/ pc[r] = "publish" /\ l = "ok"
              \/ pc[r] = "saveNext" /\ l \in {"logNext", "publish"}
              \/ pc[r] = "logNext" /\ l = "saveNext"
<1>1. AfterGet(r) \in Labels
  BY DEF AfterGet, Labels
<1>2. CASE PutItem(r) \/ UpdateItem(r) \/ Increment(r) \/ DeleteItem(r)
  BY <1>2 DEF PutItem, UpdateItem, Increment, DeleteItem, WriteDynamo, Labels, Answered
<1>3. CASE Get(r)
  BY <1>1, <1>3 DEF Get, Await, Labels, Answered
<1>4. CASE DeleteRow(r) \/ Log(r)
  BY <1>4 DEF DeleteRow, WritePg, Log, Labels, Answered
<1>5. CASE SaveRow(r)
  BY <1>5 DEF SaveRow, WritePg, Labels, Answered
<1>6. CASE Publish(r)
  BY <1>6 DEF Publish, Await, Labels, Answered
<1>7. CASE BatchSave(r) \/ BatchLog(r) \/ BatchPut(r)
  BY <1>7 DEF BatchSave, WritePg, BatchLog, BatchPut, Labels, Answered
<1> QED
  BY <1>2, <1>3, <1>4, <1>5, <1>6, <1>7 DEF Call

\* What a call leaves alone: the method, the other requests, and the book but
\* in a batchWrite.
LEMMA CallKeeps ==
  ASSUME IInv, OpInv, NEW r \in Requests, Call(r)
  PROVE  /\ UNCHANGED <<op, sync>>
         /\ \A q \in Requests \ {r} : pc'[q] = pc[q] /\ book'[q] = book[q] /\ batch'[q] = batch[q]
         /\ op[r] # "batchWrite" => UNCHANGED <<used, book, batch>>
         /\ pc[r] # "saveNext" => UNCHANGED <<used, book, batch>>
         /\ used \subseteq used'
<1>1. \A q \in Requests \ {r} : pc'[q] = pc[q]
  BY CallMoves, RequestTypes DEF Goto
<1>2. UNCHANGED <<op, sync>> /\ used \subseteq used'
  BY DEF Call, PutItem, Get, UpdateItem, Increment, DeleteItem, DeleteRow, SaveRow, Log,
         Publish, BatchSave, BatchLog, BatchPut, WriteDynamo, WritePg
<1>3. CASE BatchSave(r)
  <2>1. op[r] = "batchWrite" /\ pc[r] = "saveNext"
    BY <1>3 DEF BatchSave, OpInv
  <2>2. \A q \in Requests \ {r} : book'[q] = book[q] /\ batch'[q] = batch[q]
    BY <1>3, RequestTypes DEF BatchSave
  <2> QED
    BY <1>1, <1>2, <2>1, <2>2
<1>4. CASE ~BatchSave(r)
  <2>1. UNCHANGED <<used, book, batch>>
    BY <1>4 DEF Call, PutItem, Get, UpdateItem, Increment, DeleteItem, DeleteRow, SaveRow,
                Log, Publish, BatchLog, BatchPut
  <2> QED
    BY <1>1, <1>2, <2>1
<1> QED
  BY <1>3, <1>4

\* A request is started at the first call of its method.
LEMMA StartKeeps ==
  ASSUME IInv, NEW r \in Requests, Start(r)
  PROVE  /\ pc[r] = "idle" /\ book[r] = None /\ batch[r] = NoRows
         /\ UNCHANGED <<stores, batch, sync>> /\ used \subseteq used'
         /\ \A q \in Requests \ {r} : pc'[q] = pc[q] /\ book'[q] = book[q] /\ op'[q] = op[q]
         /\ \/ /\ pc'[r] = "put" /\ op'[r] = "create"
               /\ book'[r] \in BookIds \ used /\ used' = used \cup {book'[r]}
            \/ pc'[r] = "saveNext" /\ op'[r] = "batchWrite" /\ UNCHANGED <<used, book>>
            \/ /\ pc'[r] = "get" /\ op'[r] \in {"update", "updateViewsCount", "findOne", "remove"}
               /\ book'[r] \in used /\ UNCHANGED used
<1>1. pc[r] = "idle" /\ book[r] = None /\ batch[r] = NoRows /\ UNCHANGED <<stores, batch, sync>>
  BY RequestTypes DEF Start
<1>2. CASE StartCreate(r)
  BY <1>1, <1>2, RequestTypes DEF StartCreate, Goto
<1>3. CASE StartBatchWrite(r)
  BY <1>1, <1>3, RequestTypes DEF StartBatchWrite, Goto
<1>4. CASE StartOn(r)
  BY <1>1, <1>4, RequestTypes DEF StartOn, Goto
<1> QED
  BY <1>2, <1>3, <1>4 DEF Start

LEMMA OpNext == ASSUME IInv, OpInv, [Next]_vars PROVE OpInv'
<1>1. ASSUME NEW r \in Requests, Start(r) PROVE OpInv'
  BY <1>1, StartKeeps DEF OpInv
<1>2. ASSUME NEW r \in Requests, Call(r) PROVE OpInv'
  <2>1. pc \in [Requests -> Labels] /\ UNCHANGED op
        /\ \A q \in Requests \ {r} : pc'[q] = pc[q]
    BY <1>2, CallKeeps, RequestTypes
  <2>2. pc'[r] = "error" \/ pc'[r] \in {"save", "deleteRow", "log", "publish", "ok", "logNext",
                                       "saveNext", AfterGet(r)}
    BY <1>2, <2>1, CallMoves DEF Goto
  <2>3. /\ pc'[r] = "put" => op[r] = "create"
        /\ pc'[r] = "get" => op[r] \in {"update", "updateViewsCount", "findOne", "remove"}
        /\ pc'[r] = "updateItem" => op[r] = "update"
        /\ pc'[r] = "increment" => op[r] = "updateViewsCount"
        /\ pc'[r] \in {"deleteItem", "deleteRow"} => op[r] = "remove"
        /\ pc'[r] = "save" => op[r] \in {"create", "update", "updateViewsCount"}
        /\ pc'[r] = "log" => op[r] \in {"create", "update", "findOne", "remove"}
        /\ pc'[r] \in {"saveNext", "logNext"} => op[r] = "batchWrite"
    BY <1>2, <2>1, CallMoves DEF Goto, AfterGet, OpInv
  <2> QED
    BY <2>1, <2>3 DEF OpInv
<1>3. CASE Sync \/ SyncReject \/ UNCHANGED vars
  <2>1. UNCHANGED <<pc, op>>
    BY <1>3 DEF Sync, SyncReject, SyncStart, PgFind, PgCompare, PgPut, PgLog, PgHasLog, PgDone,
                DynScan, DynCompare, DynSave, DynDone, request, vars
  <2> QED
    BY <2>1 DEF OpInv
<1>4. CASE Crash
  <2>1. UNCHANGED op /\ \A q \in Requests : pc'[q] = pc[q] \/ pc'[q] = "lost"
    BY <1>4 DEF Crash
  <2> QED
    BY <2>1 DEF OpInv
<1> QED
  BY <1>1, <1>2, <1>3, <1>4 DEF Next

LEMMA OpInvariant == Spec => []OpInv
<1>1. Init => OpInv
  BY DEF Init, OpInv
<1>2. IInv /\ OpInv /\ [Next]_vars => OpInv'
  BY OpNext
<1> QED
  BY <1>1, <1>2, InductiveInvariant, PTL DEF Spec

-----------------------------------------------------------------------------
(***************************************************************************)
(* RecordedBooksExist.  It is not inductive: that a log is written of a    *)
(* book that is in both stores was established calls before, by the write  *)
(* and the save that the request, or the cron job, has behind it.          *)
(***************************************************************************)

\* The table has the item, or a batchWrite vouches for the row only.
Held(b) == Batched(b) \/ b \in DOMAIN dynamo

\* What a request has behind it when it awaits its call.
RequestRecord(r, b) ==
  /\ book[r] = b /\ op[r] \in {"create", "update"} =>
       /\ pc[r] \in {"save", "log", "publish", "ok"} => Held(b)
       /\ pc[r] \in {"log", "publish", "ok"} => b \in DOMAIN pg
  /\ book[r] = b /\ pc[r] = "logNext" => b \in DOMAIN pg /\ b \in DOMAIN batch[r]
  /\ book[r] = b /\ op[r] = "findOne" /\ pc[r] = "log" => b \in DOMAIN dynamo

\* And the cron job.
SyncRecord(b) ==
  /\ cron \in FirstHalf /\ b \in DOMAIN todo => b \in DOMAIN pg
  /\ cron \in {"pgLog", "pgHasLog", "pgSkipLog"} /\ cur = b => Held(b)

Recorded(b) ==
  /\ WriteLogs(b) # {} => b \in DOMAIN pg /\ Held(b)
  /\ "READ" \in logs[b] => b \in DOMAIN dynamo

RecordInv ==
  \A b \in BookIds :
    ~RemoveAsked(b) =>
      Recorded(b) /\ SyncRecord(b) /\ \A r \in Requests : RequestRecord(r, b)

\* That the removal of a book was asked for is never forgotten.
LEMMA RemovalStaysAsked ==
  ASSUME IInv, OpInv, [Next]_vars, NEW b \in BookIds, RemoveAsked(b)
  PROVE  RemoveAsked(b)'
<1>1. PICK r \in Requests : op[r] = "remove" /\ book[r] = b
  BY DEF RemoveAsked
<1>2. op'[r] = "remove" /\ book'[r] = b
  <2>1. ASSUME NEW q \in Requests, Start(q) PROVE op'[r] = op[r] /\ book'[r] = book[r]
    BY <1>1, <2>1, StartKeeps, ConstantsAssumption
  <2>2. ASSUME NEW q \in Requests, Call(q) PROVE op'[r] = op[r] /\ book'[r] = book[r]
    BY <1>1, <2>2, CallKeeps
  <2>3. CASE Sync \/ SyncReject \/ Crash \/ UNCHANGED vars
    BY <1>1, <2>3 DEF Sync, SyncReject, Crash, SyncStart, PgFind, PgCompare, PgPut, PgLog,
       PgHasLog, PgDone, DynScan, DynCompare, DynSave, DynDone, request, vars
  <2> QED
    BY <1>1, <2>1, <2>2, <2>3 DEF Next
<1> QED
  BY <1>2 DEF RemoveAsked

\* Who writes a table, and what.
LEMMA RowsStay ==
  ASSUME IInv, OpInv, [Next]_vars, NEW b \in BookIds, ~RemoveAsked(b)
  PROVE  /\ b \in DOMAIN pg => b \in DOMAIN pg'
         /\ b \in DOMAIN dynamo => b \in DOMAIN dynamo'
<1>1. ASSUME NEW r \in Requests, Start(r) PROVE UNCHANGED stores
  BY <1>1 DEF Start
<1>2. ASSUME NEW r \in Requests, Call(r)
      PROVE  /\ b \in DOMAIN pg => b \in DOMAIN pg'
             /\ b \in DOMAIN dynamo => b \in DOMAIN dynamo'
  <2>1. CASE DeleteItem(r) \/ DeleteRow(r)
    <3>1. op[r] = "remove" /\ book[r] # b
      BY <2>1 DEF DeleteItem, DeleteRow, OpInv, RemoveAsked
    <3> QED
      BY <2>1, <3>1 DEF DeleteItem, DeleteRow, WriteDynamo, WritePg, Drop, Keep
  <2>2. CASE PutItem(r) \/ UpdateItem(r) \/ Increment(r)
    BY <2>2 DEF PutItem, UpdateItem, Increment, WriteDynamo, Put, stores
  <2>3. CASE SaveRow(r)
    BY <2>3 DEF SaveRow, WritePg, Saved, Put, stores
  <2>4. CASE Log(r) \/ BatchLog(r)
    BY <2>4 DEF Log, BatchLog, LogOperation
  <2>5. CASE Get(r) \/ Publish(r)
    BY <2>5 DEF Get, Publish, stores
  <2>6. CASE BatchSave(r)
    <3>1. PICK c \in BookIds, new \in Row : pg' \in {pg, Put(pg, c, new)} /\ UNCHANGED dynamo
      BY <2>6 DEF BatchSave, WritePg, stores, Dtos, Row
    <3> QED
      BY <3>1 DEF Put
  <2>7. CASE BatchPut(r)
    BY <2>7 DEF BatchPut, PutAll
  <2> QED
    BY <1>2, <2>1, <2>2, <2>3, <2>4, <2>5, <2>6, <2>7 DEF Call
<1>3. CASE Sync \/ SyncReject \/ Crash \/ UNCHANGED vars
  <2>1. CASE PgPut \/ DynSave
    BY <2>1 DEF PgPut, DynSave, Saved, Put
  <2>2. CASE PgLog \/ PgHasLog
    BY <2>2 DEF PgLog, PgHasLog, LogOperation, stores
  <2>3. CASE SyncStart \/ PgFind \/ PgCompare \/ PgDone \/ DynScan \/ DynCompare \/ DynDone
             \/ SyncReject \/ Crash \/ UNCHANGED vars
    BY <2>3 DEF SyncStart, PgFind, PgCompare, PgDone, DynScan, DynCompare, DynDone,
       SyncReject, Crash, stores, vars
  <2> QED
    BY <1>3, <2>1, <2>2, <2>3 DEF Sync
<1> QED
  BY <1>1, <1>2, <1>3 DEF Next, stores

\* What a batchWrite has gathered it keeps, whatever becomes of it.
LEMMA BatchesStay ==
  ASSUME IInv, OpInv, [Next]_vars, NEW r \in Requests
  PROVE  DOMAIN batch[r] \subseteq DOMAIN batch'[r]
<1>1. ASSUME NEW q \in Requests, Start(q) PROVE UNCHANGED batch
  BY <1>1 DEF Start
<1>2. ASSUME NEW q \in Requests, Call(q) PROVE DOMAIN batch[r] \subseteq DOMAIN batch'[r]
  <2>1. CASE BatchSave(q)
    BY <2>1, RequestTypes DEF BatchSave, Put
  <2>2. CASE ~BatchSave(q)
    BY <1>2, <2>2 DEF Call, PutItem, Get, UpdateItem, Increment, DeleteItem, DeleteRow, SaveRow,
                      Log, Publish, BatchLog, BatchPut
  <2> QED
    BY <2>1, <2>2
<1>3. CASE Sync \/ SyncReject \/ Crash \/ UNCHANGED vars
  BY <1>3 DEF Sync, SyncReject, Crash, SyncStart, PgFind, PgCompare, PgPut, PgLog,
     PgHasLog, PgDone, DynScan, DynCompare, DynSave, DynDone, request, vars
<1> QED
  BY <1>1, <1>2, <1>3 DEF Next

LEMMA HeldStays ==
  ASSUME IInv, OpInv, [Next]_vars, NEW b \in BookIds, ~RemoveAsked(b), Held(b)
  PROVE  Held(b)'
  BY RowsStay, BatchesStay DEF Held, Batched

\* Of a request that a step leaves where it was, or stops.
LEMMA RequestRecordStays ==
  ASSUME IInv, OpInv, [Next]_vars, NEW b \in BookIds, ~RemoveAsked(b),
         NEW r \in Requests, RequestRecord(r, b),
         pc'[r] = pc[r] \/ pc'[r] \in {"lost", "error"}, book'[r] = book[r], op'[r] = op[r]
  PROVE  RequestRecord(r, b)'
  BY RowsStay, HeldStays, BatchesStay DEF RequestRecord

\* A request that goes on has its call behind it.
LEMMA RequestRecordNext ==
  ASSUME IInv, OpInv, [Next]_vars, NEW b \in BookIds, ~RemoveAsked(b),
         NEW r \in Requests, RequestRecord(r, b), Call(r)
  PROVE  RequestRecord(r, b)'
<1>1. UNCHANGED op /\ pc \in [Requests -> Labels]
  BY CallKeeps, RequestTypes
<1>2. CASE op[r] \in {"create", "update"}
  <2>1. UNCHANGED book
    BY <1>2, CallKeeps
  <2>2. CASE book[r] # b
    BY <2>1, <2>2 DEF RequestRecord
  <2>3. CASE book[r] = b
    <3>1. PICK l \in Labels : /\ pc' = [pc EXCEPT ![r] = l]
                              /\ \/ l \in {"error", "updateItem"}
                                 \/ pc[r] = "put" /\ l = "save"
                                 \/ pc[r] = "updateItem" /\ l = "save"
                                 \/ pc[r] = "save" /\ l = "log"
                                 \/ pc[r] = "log" /\ l = "publish"
                                 \/ pc[r] = "publish" /\ l = "ok"
      BY <1>2, CallMoves DEF Goto, AfterGet, OpInv
    <3>2. CASE l \in {"error", "updateItem"}
      BY <1>1, <3>1, <3>2 DEF RequestRecord
    <3>3. CASE pc[r] \in {"put", "updateItem"} /\ l = "save"
      <4>1. PutItem(r) \/ UpdateItem(r)
        BY <1>1, <3>1, <3>3 DEF Call, PutItem, Get, UpdateItem, Increment, DeleteItem,
           DeleteRow, SaveRow, Log, Publish, BatchSave, BatchLog, BatchPut
      <4>2. b \in DOMAIN dynamo'
        BY <1>1, <2>3, <3>1, <3>3, <4>1
           DEF PutItem, UpdateItem, WriteDynamo, Goto, Put
      <4> QED
        BY <1>1, <3>1, <3>3, <4>2 DEF RequestRecord, Held
    <3>4. CASE pc[r] = "save" /\ l = "log"
      <4>1. SaveRow(r)
        BY <3>4 DEF Call, PutItem, Get, UpdateItem, Increment, DeleteItem,
           DeleteRow, SaveRow, Log, Publish, BatchSave, BatchLog, BatchPut
      <4>2. b \in DOMAIN pg'
        BY <1>1, <2>3, <3>1, <3>4, <4>1 DEF SaveRow, WritePg, Goto, Saved, Put
      <4>3. Held(b)'
        BY <1>2, <2>3, <3>4, HeldStays DEF RequestRecord
      <4>4. op'[r] # "findOne"
        BY <1>1, <1>2
      <4>5. pc'[r] = "log"
        BY <1>1, <3>1, <3>4
      <4> QED
        BY <4>2, <4>3, <4>4, <4>5 DEF RequestRecord
    <3>5. CASE pc[r] \in {"log", "publish"}
      <4>1. b \in DOMAIN pg' /\ Held(b)'
        BY <1>2, <2>3, <3>5, HeldStays, RowsStay DEF RequestRecord
      <4> QED
        BY <1>1, <3>1, <3>5, <4>1 DEF RequestRecord
    <3> QED
      BY <3>1, <3>2, <3>3, <3>4, <3>5
  <2> QED
    BY <2>2, <2>3
<1>3. CASE op[r] = "findOne"
  <2>1. UNCHANGED book /\ op'[r] = "findOne"
    BY <1>1, <1>3, CallKeeps
  <2>2. CASE Get(r)
    <3>1. book[r] = b /\ pc'[r] = "log" => b \in DOMAIN dynamo'
      BY <1>1, <1>3, <2>2 DEF Get, Goto, stores
    <3>2. pc'[r] \in {"log", "error"}
      BY <1>1, <1>3, <2>2 DEF Get, Await, AfterGet, Goto
    <3> QED
      BY <2>1, <3>1, <3>2 DEF RequestRecord
  <2>3. CASE ~Get(r)
    <3>1. pc[r] \in {"log", "publish"}
      BY <1>3, <2>3 DEF Call, PutItem, Get, UpdateItem, Increment, DeleteItem, DeleteRow,
         SaveRow, Log, Publish, BatchSave, BatchLog, BatchPut, OpInv
    <3>2. pc'[r] \notin {"log", "logNext"}
      BY <1>1, <3>1, CallMoves DEF Goto
    <3> QED
      BY <2>1, <3>2 DEF RequestRecord
  <2> QED
    BY <2>2, <2>3
<1>4. CASE op[r] \notin {"create", "update", "findOne"}
  <2>1. CASE BatchSave(r)
    BY <1>1, <1>4, <2>1, RequestTypes DEF BatchSave, WritePg, Goto, Put, RequestRecord
  <2>2. CASE ~BatchSave(r)
    <3>1. pc'[r] # "logNext"
      <4>1. CASE pc[r] # "saveNext"
        BY <1>1, <4>1, CallMoves DEF Goto, AfterGet
      <4>2. CASE pc[r] = "saveNext"
        <5>1. BatchPut(r)
          BY <2>2, <4>2 DEF Call, PutItem, Get, UpdateItem, Increment, DeleteItem,
             DeleteRow, SaveRow, Log, Publish, BatchLog, BatchPut
        <5> QED
          BY <1>1, <5>1 DEF BatchPut, Goto
      <4> QED
        BY <4>1, <4>2
    <3> QED
      BY <1>1, <1>4, <3>1 DEF RequestRecord
  <2> QED
    BY <2>1, <2>2
<1> QED
  BY <1>2, <1>3, <1>4

\* Logs are written of what is in both stores, or was read from one.
LEMMA RecordRequest ==
  ASSUME IInv, OpInv, RecordInv, NEW q \in Requests, Start(q) \/ Call(q),
         NEW b \in BookIds, ~RemoveAsked(b)
  PROVE  /\ Recorded(b)' /\ SyncRecord(b)'
         /\ \A r \in Requests : RequestRecord(r, b)'
<1> USE DEF RecordInv
<1>1. [Next]_vars
  BY DEF Next
<1>2. CASE Start(q)
  <2>1. UNCHANGED <<logs, sync>>
    BY <1>2, StartKeeps DEF stores
  <2>2. Recorded(b)' /\ SyncRecord(b)'
    BY <1>1, <2>1, RowsStay, HeldStays DEF Recorded, WriteLogs, SyncRecord, sync
  <2>3. \A r \in Requests \ {q} : RequestRecord(r, b)'
    BY <1>1, <1>2, StartKeeps, RequestRecordStays
  <2>4. RequestRecord(q, b)'
    BY <1>2, StartKeeps DEF RequestRecord
  <2> QED
    BY <2>2, <2>3, <2>4
<1>3. CASE Call(q)
  <2>1. SyncRecord(b)'
    BY <1>1, <1>3, CallKeeps, RowsStay, HeldStays DEF SyncRecord, sync
  <2>2. \A r \in Requests \ {q} : RequestRecord(r, b)'
    BY <1>1, <1>3, CallKeeps, RequestRecordStays
  <2>3. RequestRecord(q, b)'
    BY <1>1, <1>3, RequestRecordNext
  <2>4. Recorded(b)'
    <3>1. CASE logs'[b] = logs[b]
      BY <1>1, <3>1, RowsStay, HeldStays DEF Recorded, WriteLogs
    <3>2. CASE logs'[b] # logs[b]
      <4>1. logs \in [BookIds -> SUBSET LogTypes]
        BY DEF IInv, TypeOK
      <4>2. (Log(q) \/ BatchLog(q)) /\ book[q] = b
        BY <1>3, <3>2, <4>1 DEF Call, PutItem, Get, UpdateItem, Increment, DeleteItem, DeleteRow,
           SaveRow, Log, Publish, BatchSave, BatchLog, BatchPut, WriteDynamo, WritePg,
           LogOperation, stores
      <4>3. CASE Log(q) /\ op[q] = "findOne"
        <5>1. logs'[b] = logs[b] \cup {"READ"} /\ b \in DOMAIN dynamo
          BY <3>2, <4>1, <4>2, <4>3 DEF Log, LogOperation, LogType, RequestRecord
        <5> QED
          BY <1>1, <5>1, RowsStay, HeldStays DEF Recorded, WriteLogs
      <4>4. CASE ~(Log(q) /\ op[q] = "findOne")
        <5>1. b \in DOMAIN pg /\ Held(b)
          <6>1. CASE Log(q)
            BY <4>2, <4>4, <6>1 DEF Log, OpInv, RemoveAsked, RequestRecord
          <6>2. CASE BatchLog(q)
            BY <4>2, <6>2 DEF BatchLog, RequestRecord, Held, Batched
          <6> QED
            BY <4>2, <6>1, <6>2
        <5>2. "READ" \in logs'[b] => "READ" \in logs[b]
          BY <4>1, <4>2, <4>4 DEF Log, BatchLog, LogOperation, LogType
        <5> QED
          BY <1>1, <5>1, <5>2, RowsStay, HeldStays DEF Recorded
      <4> QED
        BY <4>3, <4>4
    <3> QED
      BY <3>1, <3>2
  <2> QED
    BY <2>1, <2>2, <2>3, <2>4
<1> QED
  BY <1>2, <1>3

\* The cron job logs the books it has just written, or found equal.
LEMMA RecordSync ==
  ASSUME IInv, OpInv, RecordInv, Sync, NEW b \in BookIds, ~RemoveAsked(b)
  PROVE  /\ Recorded(b)' /\ SyncRecord(b)'
         /\ \A r \in Requests : RequestRecord(r, b)'
<1> USE DEF RecordInv, FirstHalf
<1>1. [Next]_vars /\ UNCHANGED request
  BY DEF Next, Sync, SyncStart, PgFind, PgCompare, PgPut, PgLog, PgHasLog, PgDone,
         DynScan, DynCompare, DynSave, DynDone
<1>2. \A r \in Requests : RequestRecord(r, b)'
  BY <1>1, RequestRecordStays DEF request
<1>3. logs \in [BookIds -> SUBSET LogTypes]
      /\ (cron \in {"pgPut", "pgLog", "pgHasLog", "pgSkipLog", "dynSave"} => cur \in DOMAIN todo)
  BY DEF IInv, TypeOK, Bookkeeping
<1>4. CASE PgLog
  <2>1. Recorded(b)'
    <3>1. CASE cur = b
      <4>1. "READ" \in logs'[b] => "READ" \in logs[b]
        BY <1>3, <1>4, <3>1 DEF PgLog, LogOperation
      <4> QED
        BY <1>1, <1>3, <1>4, <3>1, <4>1, RowsStay, HeldStays DEF PgLog, SyncRecord, Recorded
    <3>2. CASE cur # b
      BY <1>1, <1>3, <1>4, <3>2, RowsStay, HeldStays DEF PgLog, LogOperation, Recorded, WriteLogs
    <3> QED
      BY <3>1, <3>2
  <2>2. SyncRecord(b)'
    BY <1>1, <1>4, RowsStay DEF PgLog, NextRow, Drop, Keep, SyncRecord
  <2> QED
    BY <1>2, <2>1, <2>2
<1>5. CASE ~PgLog
  <2>1. UNCHANGED logs
    BY <1>5 DEF Sync, SyncStart, PgFind, PgCompare, PgPut, PgHasLog, PgDone,
            DynScan, DynCompare, DynSave, DynDone, stores
  <2>2. Recorded(b)'
    BY <1>1, <2>1, RowsStay, HeldStays DEF Recorded, WriteLogs
  <2>3. SyncRecord(b)'
    <3>1. CASE SyncStart \/ PgDone \/ DynScan \/ DynCompare \/ DynSave \/ DynDone
      BY <3>1 DEF SyncStart, PgDone, DynScan, DynCompare, DynSave, DynDone, NextRow, Abandoned,
                  SyncRecord
    <3>2. CASE PgFind
      BY <3>2 DEF PgFind, SyncRecord, stores
    <3>3. CASE PgCompare
      BY <1>1, <3>3, RowsStay DEF PgCompare, SyncRecord, SameItem, stores, Held, Batched, request
    <3>4. CASE PgPut
      BY <1>1, <3>4, RowsStay DEF PgPut, SyncRecord, Put, Held
    <3>5. CASE PgHasLog
      BY <1>1, <3>5, RowsStay, HeldStays DEF PgHasLog, NextRow, Drop, Keep, SyncRecord
    <3> QED
      BY <1>5, <3>1, <3>2, <3>3, <3>4, <3>5 DEF Sync
  <2> QED
    BY <1>2, <2>2, <2>3
<1> QED
  BY <1>4, <1>5

LEMMA RecordInvariant == Spec => []RecordInv
<1>1. Init => RecordInv
  <2> SUFFICES ASSUME Init, NEW b \in BookIds PROVE Recorded(b) /\ SyncRecord(b)
                 /\ \A r \in Requests : RequestRecord(r, b)
    BY DEF RecordInv
  <2>1. Recorded(b)
    BY DEF Init, Recorded, WriteLogs, Held
  <2>2. SyncRecord(b)
    BY DEF Init, SyncRecord, FirstHalf
  <2>3. \A r \in Requests : RequestRecord(r, b)
    BY DEF Init, RequestRecord
  <2> QED
    BY <2>1, <2>2, <2>3
<1>2. IInv /\ OpInv /\ RecordInv /\ [Next]_vars => RecordInv'
  <2> SUFFICES ASSUME IInv, OpInv, RecordInv, [Next]_vars, NEW b \in BookIds, ~RemoveAsked(b)'
               PROVE  /\ Recorded(b)' /\ SyncRecord(b)'
                      /\ \A r \in Requests : RequestRecord(r, b)'
    BY DEF RecordInv
  <2>1. ~RemoveAsked(b)
    BY RemovalStaysAsked
  <2>2. CASE \E r \in Requests : Start(r) \/ Call(r)
    BY <2>1, <2>2, RecordRequest
  <2>3. CASE Sync
    BY <2>1, <2>3, RecordSync
  <2>4. CASE SyncReject \/ Crash \/ UNCHANGED vars
    <3>1. UNCHANGED logs /\ (UNCHANGED sync \/ cron' = "idle")
      BY <2>4 DEF SyncReject, Crash, Abandoned, stores, vars
    <3>2. UNCHANGED <<op, book>> /\ \A r \in Requests : pc'[r] = pc[r] \/ pc'[r] = "lost"
      BY <2>4 DEF SyncReject, Crash, request, vars
    <3>3. Recorded(b)' /\ SyncRecord(b)'
      BY <2>1, <3>1, RowsStay, HeldStays DEF RecordInv, Recorded, WriteLogs, SyncRecord, FirstHalf, sync
    <3>4. \A r \in Requests : RequestRecord(r, b)'
      BY <2>1, <3>2, RequestRecordStays DEF RecordInv
    <3> QED
      BY <3>3, <3>4
  <2> QED
    BY <2>2, <2>3, <2>4 DEF Next
<1> QED
  BY <1>1, <1>2, InductiveInvariant, OpInvariant, PTL DEF Spec

\* A book with a log of a write, or whose create or update was answered with a
\* success, is in both stores unless its removal was asked for: a log is
\* written, and a success answered, with both writes behind it, and neither a
\* failure of what follows nor a crash nor the cron job takes them back.  A
\* book with a log of a read is in the table it was read from.
THEOREM RecordsHold == Spec => []RecordedBooksExist
<1>1. RecordInv => RecordedBooksExist
  <2> SUFFICES ASSUME RecordInv, NEW b \in BookIds, ~RemoveAsked(b)
               PROVE  /\ WriteLogs(b) # {} \/ Acknowledged(b) => b \in DOMAIN pg /\ Held(b)
                      /\ "READ" \in logs[b] => b \in DOMAIN dynamo
    BY DEF RecordedBooksExist, Held
  <2>1. Recorded(b)
    BY DEF RecordInv
  <2>2. CASE Acknowledged(b)
    BY <2>1, <2>2 DEF RecordInv, RequestRecord, Acknowledged, Recorded
  <2> QED
    BY <2>1, <2>2 DEF Recorded
<1> QED
  BY <1>1, RecordInvariant, PTL

-----------------------------------------------------------------------------
(***************************************************************************)
(* NoLostIncrement, where no cron job runs: the job puts a row it has read *)
(* before back over an item, and the views counted since are lost.         *)
(* It is not inductive: a create, and the put of a batchWrite, write a     *)
(* count of 0 over whatever is there, which loses nothing because nobody   *)
(* has counted a view of a book whose item is not written yet.             *)
(***************************************************************************)

Creating(r, b) ==
  \/ pc[r] = "put" /\ book[r] = b
  \/ pc[r] \in {"saveNext", "logNext"} /\ b \in DOMAIN batch[r]

\* A book has no item while it is created, by one request, and the requests
\* that look for its item first have not found it.
Unborn(b) ==
  /\ b \notin DOMAIN dynamo
  /\ \A q \in Requests :
       book[q] = b /\ op[q] \in {"update", "updateViewsCount"} =>
         pc[q] \in {"get", "error", "lost"}

CreateInv ==
  /\ cron = "idle"
  /\ DOMAIN dynamo \subseteq used
  /\ \A r \in Requests : book[r] \in used \cup {None} /\ DOMAIN batch[r] \subseteq used
  /\ \A r \in Requests, b \in BookIds :
       Creating(r, b) => Unborn(b) /\ \A q \in Requests : Creating(q, b) => q = r

\* A request starts with a book nobody has, with none, or by looking for one.
LEMMA CreateStart ==
  ASSUME IInv, OpInv, CreateInv, NEW r \in Requests, Start(r)
  PROVE  CreateInv'
<1> USE DEF CreateInv
<1>1. /\ batch[r] = NoRows /\ UNCHANGED <<stores, batch, sync>> /\ used \subseteq used'
      /\ used \subseteq BookIds
      /\ \A q \in Requests \ {r} : pc'[q] = pc[q] /\ book'[q] = book[q] /\ op'[q] = op[q]
  BY StartKeeps DEF IInv, TypeOK
<1>2. DOMAIN dynamo' \subseteq used' /\ cron' = "idle"
      /\ \A q \in Requests : DOMAIN batch'[q] \subseteq used'
  BY <1>1 DEF stores, sync
<1>3. ASSUME NEW n \in BookIds \ used, book'[r] = n, used' = used \cup {n},
             pc'[r] = "put", op'[r] = "create"
      PROVE  CreateInv'
  <2>1. \A q \in Requests, b \in BookIds : Creating(q, b)' => (q = r /\ b = n) \/ Creating(q, b)
    <3>1. \A b \in BookIds : Creating(r, b)' => b = n
      BY <1>3 DEF Creating
    <3>2. \A q \in Requests \ {r}, b \in BookIds : Creating(q, b)' => Creating(q, b)
      BY <1>1 DEF Creating
    <3> QED
      BY <3>1, <3>2
  <2>2. \A q \in Requests : ~Creating(q, n)
    BY ConstantsAssumption DEF Creating
  <2>3. Unborn(n)'
    BY <1>1, <1>3, ConstantsAssumption DEF Unborn, stores
  <2>4. \A b \in BookIds : b # n /\ Unborn(b) => Unborn(b)'
    BY <1>1, <1>3 DEF Unborn, stores
  <2>5. ASSUME NEW q \in Requests, NEW b \in BookIds, Creating(q, b)'
        PROVE  Unborn(b)' /\ \A p \in Requests : Creating(p, b)' => p = q
    <3>1. CASE b = n
      BY <2>1, <2>2, <2>3, <2>5, <3>1
    <3>2. CASE b # n
      BY <2>1, <2>4, <2>5, <3>2
    <3> QED
      BY <3>1, <3>2
  <2> QED
    BY <1>1, <1>2, <1>3, <2>5
<1>4. CASE /\ pc'[r] \in {"get", "saveNext"} /\ book'[r] \in used \cup {None}
           /\ pc'[r] = "saveNext" => op'[r] = "batchWrite"
  <2>1. \A q \in Requests, b \in BookIds : Creating(q, b)' => Creating(q, b)
    BY <1>1, <1>4, NoRowsTable DEF Creating
  <2>2. \A b \in BookIds : Unborn(b) => Unborn(b)'
    BY <1>1, <1>4 DEF Unborn, stores
  <2> QED
    BY <1>1, <1>2, <1>4, <2>1, <2>2
<1> QED
  BY <1>3, <1>4, StartKeeps

\* A call creates nothing new but in a batchWrite.
LEMMA CreatesNoMore ==
  ASSUME IInv, OpInv, NEW r \in Requests, Call(r), ~BatchSave(r),
         NEW q \in Requests, NEW b \in BookIds, Creating(q, b)'
  PROVE  Creating(q, b) /\ (q = r => pc[r] = "logNext")
<1>1. UNCHANGED <<book, batch>>
  BY DEF Call, PutItem, Get, UpdateItem, Increment, DeleteItem, DeleteRow, SaveRow, Log,
         Publish, BatchLog, BatchPut
<1>2. CASE q # r
  BY <1>1, <1>2, CallKeeps DEF Creating
<1>3. CASE q = r
  <2>1. pc \in [Requests -> Labels]
    BY RequestTypes
  <2>2. pc[r] \in {"saveNext", "logNext"}
    BY <1>3, <2>1, CallMoves DEF Goto, AfterGet, Creating
  <2>3. pc[r] # "saveNext"
    <3>1. ASSUME pc[r] = "saveNext" PROVE BatchPut(r)
      BY <3>1 DEF Call, PutItem, Get, UpdateItem, Increment, DeleteItem,
         DeleteRow, SaveRow, Log, Publish, BatchSave, BatchLog, BatchPut
    <3>2. ASSUME BatchPut(r) PROVE pc'[r] \in {"publish", "error"}
      BY <2>1, <3>2 DEF BatchPut, Goto
    <3> QED
      BY <1>3, <3>1, <3>2 DEF Creating
  <2>4. BatchLog(r) /\ pc[r] = "logNext"
    BY <2>2, <2>3 DEF Call, PutItem, Get, UpdateItem, Increment, DeleteItem,
       DeleteRow, SaveRow, Log, Publish, BatchSave, BatchLog, BatchPut
  <2>5. pc'[r] = "saveNext"
    BY <2>1, <2>4 DEF BatchLog, Goto
  <2> QED
    BY <1>1, <1>3, <2>4, <2>5 DEF Creating
<1> QED
  BY <1>2, <1>3

\* What a call adds to the table: the item of its book, or of its batch.
LEMMA ItemsAdded ==
  ASSUME NEW r \in Requests, Call(r)
  PROVE  \A b \in DOMAIN dynamo' \ DOMAIN dynamo :
           \/ pc[r] \in {"put", "updateItem", "increment"} /\ b = book[r]
           \/ pc[r] = "saveNext" /\ b \in DOMAIN batch[r] /\ ~BatchSave(r)
<1>1. CASE PutItem(r) \/ UpdateItem(r) \/ Increment(r)
  BY <1>1 DEF PutItem, UpdateItem, Increment, WriteDynamo, Put, stores
<1>2. CASE DeleteItem(r)
  BY <1>2 DEF DeleteItem, WriteDynamo, Drop, Keep
<1>3. CASE BatchPut(r)
  <2>1. \A b \in DOMAIN dynamo' \ DOMAIN dynamo : b \in DOMAIN batch[r]
    BY <1>3 DEF BatchPut, PutAll
  <2>2. pc[r] = "saveNext"
    BY <1>3 DEF BatchPut
  <2>3. BatchSave(r) => UNCHANGED dynamo
    BY DEF BatchSave, WritePg, stores
  <2> QED
    BY <2>1, <2>2, <2>3
<1>4. CASE DeleteRow(r) \/ SaveRow(r) \/ Log(r) \/ BatchLog(r) \/ Get(r) \/ Publish(r) \/ BatchSave(r)
  BY <1>4 DEF DeleteRow, SaveRow, WritePg, Log, BatchLog, LogOperation, Get, Publish, BatchSave, stores
<1> QED
  BY <1>1, <1>2, <1>3, <1>4 DEF Call

\* A book that is still created by somebody after a call has no item.
LEMMA UnbornNext ==
  ASSUME IInv, OpInv, CreateInv, NEW r \in Requests, Call(r), ~BatchSave(r),
         NEW q \in Requests, NEW b \in BookIds, Creating(q, b)'
  PROVE  Unborn(b)'
<1>1. Creating(q, b) /\ (q = r => pc[r] = "logNext")
  BY CreatesNoMore
<1>2. Unborn(b) /\ \A p \in Requests : Creating(p, b) => p = q
  BY <1>1 DEF CreateInv
<1>3. b \notin DOMAIN dynamo'
  <2>1. ASSUME pc[r] = "put", b = book[r] PROVE FALSE
    BY <1>1, <1>2, <2>1 DEF Creating
  <2>2. ASSUME pc[r] = "saveNext", b \in DOMAIN batch[r] PROVE FALSE
    BY <1>1, <1>2, <2>2 DEF Creating
  <2>3. ASSUME pc[r] \in {"updateItem", "increment"}, b = book[r] PROVE FALSE
    BY <1>2, <2>3 DEF Unborn, OpInv
  <2> QED
    BY <1>2, <2>1, <2>2, <2>3, ItemsAdded DEF Unborn
<1>4. UNCHANGED <<book, op>>
  BY DEF Call, PutItem, Get, UpdateItem, Increment, DeleteItem, DeleteRow, SaveRow, Log,
         Publish, BatchLog, BatchPut
<1>5. ASSUME book[r] = b, op[r] \in {"update", "updateViewsCount"}
      PROVE  pc'[r] \in {"get", "error", "lost"}
  <2>1. pc[r] \in {"get", "error", "lost"}
    BY <1>2, <1>5 DEF Unborn
  <2>2. Get(r)
    BY <2>1 DEF Call, PutItem, Get, UpdateItem, Increment, DeleteItem,
       DeleteRow, SaveRow, Log, Publish, BatchSave, BatchLog, BatchPut
  <2>3. Goto(r, "error")
    BY <1>2, <1>5, <2>2 DEF Get, Unborn
  <2> QED
    BY <2>3, RequestTypes DEF Goto
<1> QED
  BY <1>2, <1>3, <1>4, <1>5, CallKeeps DEF Unborn

LEMMA CreateCall ==
  ASSUME IInv, OpInv, CreateInv, NEW r \in Requests, Call(r)
  PROVE  CreateInv'
<1>0. /\ used \subseteq BookIds /\ pc \in [Requests -> Labels]
      /\ book \in [Requests -> BookIds \cup {None}] /\ batch = [q \in Requests |-> batch[q]]
  BY DEF IInv, TypeOK
<1>1. cron' = "idle" /\ used \subseteq used'
  BY CallKeeps DEF CreateInv, sync
<1>2. CASE BatchSave(r)
  <2>1. PICK b \in BookIds \ used :
          /\ used' = used \cup {b} /\ book' = [book EXCEPT ![r] = b]
          /\ \E new : batch' = [batch EXCEPT ![r] = Put(@, b, new)]
          /\ Goto(r, "logNext") \/ Goto(r, "error")
    BY <1>2 DEF BatchSave, WritePg
  <2>2. UNCHANGED <<dynamo, op>> /\ pc[r] = "saveNext" /\ op[r] = "batchWrite"
    BY <1>2 DEF BatchSave, WritePg, stores, OpInv
  <2>3. DOMAIN batch'[r] = DOMAIN batch[r] \cup {b}
    BY <1>0, <2>1 DEF Put
  <2>4. \A q \in Requests \ {r} : pc'[q] = pc[q] /\ book'[q] = book[q] /\ batch'[q] = batch[q]
    BY CallKeeps
  <2>5. pc'[r] \in {"logNext", "error"} /\ book'[r] = b
    BY <1>0, <2>1 DEF Goto
  <2>6. \A q \in Requests, x \in BookIds : Creating(q, x)' => Creating(q, x) \/ (q = r /\ x = b)
    <3>1. \A x \in BookIds : Creating(r, x)' => Creating(r, x) \/ x = b
      BY <2>2, <2>3, <2>5 DEF Creating
    <3>2. \A q \in Requests \ {r}, x \in BookIds : Creating(q, x)' => Creating(q, x)
      BY <2>4 DEF Creating
    <3> QED
      BY <3>1, <3>2
  <2>7. \A q \in Requests : ~Creating(q, b)
    BY <2>1, ConstantsAssumption DEF CreateInv, Creating
  <2>8. Unborn(b)'
    BY <2>1, <2>2, <2>4, <2>5, ConstantsAssumption DEF Unborn, CreateInv
  <2>9. \A x \in BookIds : Unborn(x) => Unborn(x)'
    BY <2>2, <2>4 DEF Unborn
  <2>10. \A q \in Requests, x \in BookIds :
           Creating(q, x)' => Unborn(x)' /\ \A p \in Requests : Creating(p, x)' => p = q
    BY <2>6, <2>7, <2>8, <2>9 DEF CreateInv
  <2>11. \A q \in Requests : book'[q] \in used' \cup {None} /\ DOMAIN batch'[q] \subseteq used'
    BY <2>1, <2>3, <2>4, <2>5 DEF CreateInv
  <2> QED
    BY <1>1, <2>2, <2>10, <2>11 DEF CreateInv
<1>3. CASE ~BatchSave(r)
  <2>1. UNCHANGED <<book, batch>>
    BY <1>3 DEF Call, PutItem, Get, UpdateItem, Increment, DeleteItem, DeleteRow, SaveRow, Log,
                Publish, BatchLog, BatchPut
  <2>2. DOMAIN dynamo' \subseteq used'
    <3>1. pc[r] \in {"put", "updateItem", "increment"} => book[r] \in used
      BY ConstantsAssumption DEF CreateInv, IInv, Bookkeeping
    <3> QED
      BY <1>1, <3>1, ItemsAdded DEF CreateInv
  <2>3. \A q \in Requests, x \in BookIds :
          Creating(q, x)' => Unborn(x)' /\ \A p \in Requests : Creating(p, x)' => p = q
    BY <1>3, CreatesNoMore, UnbornNext DEF CreateInv
  <2> QED
    BY <1>1, <2>1, <2>2, <2>3 DEF CreateInv
<1> QED
  BY <1>2, <1>3

\* Without a cron job there are only requests, and crashes.
LEMMA CreateNext ==
  ASSUME "sync" \notin Ops, IInv, OpInv, CreateInv, [Next]_vars
  PROVE  CreateInv'
<1>1. CASE \E r \in Requests : Start(r) \/ Call(r)
  BY <1>1, CreateStart, CreateCall
<1>2. ~Sync /\ ~SyncReject
  BY DEF CreateInv, Sync, SyncReject, SyncStart, PgFind, PgCompare, PgPut, PgLog, PgHasLog,
         PgDone, DynScan, DynCompare, DynSave, DynDone
<1>3. CASE Crash \/ UNCHANGED vars
  <2>1. /\ UNCHANGED <<dynamo, used, op, book, batch>> /\ cron' = "idle"
        /\ \A r \in Requests : pc'[r] = pc[r] \/ pc'[r] = "lost"
    BY <1>3 DEF Crash, Abandoned, vars, stores, request, sync, CreateInv
  <2>2. \A q \in Requests, x \in BookIds : Creating(q, x)' => Creating(q, x)
    BY <2>1 DEF Creating
  <2>3. \A x \in BookIds : Unborn(x) => Unborn(x)'
    BY <2>1 DEF Unborn
  <2> QED
    BY <2>1, <2>2, <2>3 DEF CreateInv
<1> QED
  BY <1>1, <1>2, <1>3 DEF Next

\* The count of the item, and the requests that have added to it.
CountInv ==
  \A b \in BookIds :
    /\ IsFiniteSet(Increments(b))
    /\ ~RemoveAsked(b) => ViewsOf(dynamo, b) >= Cardinality(Increments(b))

LEMMA ViewsNat == ASSUME IInv, NEW b PROVE ViewsOf(dynamo, b) \in Nat
  BY DEF IInv, TypeOK, IsTable, Row, ViewsOf

\* Fewer increments, and no smaller count.
LEMMA CountStays ==
  ASSUME IInv, IInv', NEW b \in BookIds, IsFiniteSet(Increments(b)),
         Increments(b)' \subseteq Increments(b),
         \/ RemoveAsked(b)'
         \/ Increments(b)' = {}
         \/ /\ ViewsOf(dynamo, b)' >= ViewsOf(dynamo, b)
            /\ ViewsOf(dynamo, b) >= Cardinality(Increments(b))
  PROVE  /\ IsFiniteSet(Increments(b)')
         /\ ~RemoveAsked(b)' => ViewsOf(dynamo, b)' >= Cardinality(Increments(b)')
<1> DEFINE I == Increments(b)
           J == Increments(b)'
           v == ViewsOf(dynamo, b)
           w == ViewsOf(dynamo, b)'
<1>1. IsFiniteSet(J) /\ Cardinality(J) <= Cardinality(I)
  BY FS_Subset
<1>2. Cardinality(I) \in Nat /\ Cardinality(J) \in Nat
  BY <1>1, FS_CardinalityType
<1>3. v \in Nat /\ w \in Nat
  <2>1. \A x : ViewsOf(dynamo', x) \in Nat
    BY DEF IInv, TypeOK, IsTable, Row, ViewsOf
  <2> QED
    BY <2>1, ViewsNat DEF ViewsOf
<1>4. CASE J = {}
  BY <1>1, <1>3, <1>4, FS_EmptySet
<1>5. CASE w >= v /\ v >= Cardinality(I)
  <2> HIDE DEF I, J, v, w
  <2>1. w >= Cardinality(J)
    BY <1>1, <1>2, <1>3, <1>5
  <2> QED
    BY <1>1, <2>1 DEF J, w
<1> QED
  BY <1>1, <1>4, <1>5

\* Only an increment that is answered adds to the requests that have counted.
LEMMA IncrementsOf ==
  ASSUME IInv, OpInv, NEW r \in Requests, Call(r), NEW b \in BookIds
  PROVE  /\ Increments(b)' \subseteq Increments(b) \cup {r}
         /\ r \in Increments(b)' => r \in Increments(b) \/ (pc[r] = "increment" /\ book[r] = b)
<1>1. UNCHANGED op /\ pc \in [Requests -> Labels]
  BY CallKeeps, RequestTypes
<1>2. \A q \in Requests \ {r} : q \in Increments(b)' <=> q \in Increments(b)
  BY <1>1, CallKeeps DEF Increments
<1>3. ASSUME r \in Increments(b)' PROVE r \in Increments(b) \/ (pc[r] = "increment" /\ book[r] = b)
  <2>1. op[r] = "updateViewsCount" /\ pc'[r] \in {"save", "publish", "ok"} /\ book[r] = b
    BY <1>1, <1>3, CallKeeps DEF Increments
  <2>2. pc[r] \in {"increment", "save", "publish"}
    BY <1>1, <2>1, CallMoves DEF Goto, AfterGet, OpInv
  <2> QED
    BY <2>1, <2>2 DEF Increments
<1>4. Increments(b)' \subseteq Requests
  BY DEF Increments
<1> QED
  BY <1>2, <1>3, <1>4

\* The count of a book that was not asked to be removed goes down only when
\* it is written for the first time.
LEMMA ViewsStay ==
  ASSUME IInv, OpInv, CreateInv, NEW r \in Requests, Call(r), NEW b \in BookIds, ~RemoveAsked(b)
  PROVE  \/ ViewsOf(dynamo, b)' >= ViewsOf(dynamo, b)
         \/ pc[r] # "increment" /\ Increments(b) = {}
<1>1. /\ IsTable(dynamo) /\ ViewsOf(dynamo, b) \in Nat
  BY ViewsNat DEF IInv, TypeOK
<1>2. ASSUME NEW q \in Requests, Creating(q, b) PROVE Increments(b) = {}
  BY <1>2 DEF CreateInv, Unborn, Increments
<1>3. CASE PutItem(r)
  <2>1. CASE book[r] = b
    BY <1>2, <1>3, <2>1 DEF PutItem, Creating
  <2>2. CASE book[r] # b
    BY <1>1, <1>3, <2>2 DEF PutItem, WriteDynamo, Put, ViewsOf
  <2> QED
    BY <2>1, <2>2
<1>4. CASE UpdateItem(r)
  <2>1. CASE UNCHANGED dynamo
    BY <1>1, <2>1 DEF ViewsOf
  <2>2. CASE ~UNCHANGED dynamo
    BY <1>1, <1>4, <2>2 DEF UpdateItem, WriteDynamo, Put, ViewsOf, stores
  <2> QED
    BY <2>1, <2>2
<1>5. CASE Increment(r)
  <2> DEFINE old == IF book[r] \in DOMAIN dynamo THEN dynamo[book[r]] ELSE Blank
             new == [old EXCEPT !.views = @ + 1]
  <2>1. dynamo' \in {dynamo, Put(dynamo, book[r], new)}
    BY <1>5 DEF Increment, WriteDynamo
  <2>2. old \in Row /\ old.views = ViewsOf(dynamo, book[r])
    BY <1>1, BlankRow DEF IsTable, ViewsOf, Blank
  <2>3. new.views = ViewsOf(dynamo, book[r]) + 1
    <3> HIDE DEF old
    <3> QED
      BY <2>2 DEF Row
  <2> HIDE DEF new
  <2> QED
    BY <1>1, <2>1, <2>3 DEF Put, ViewsOf
<1>6. CASE DeleteItem(r)
  <2>1. book[r] # b
    BY <1>6 DEF DeleteItem, OpInv, RemoveAsked
  <2> QED
    BY <1>1, <1>6, <2>1 DEF DeleteItem, WriteDynamo, Drop, Keep, ViewsOf
<1>7. CASE BatchPut(r)
  <2>1. CASE b \in DOMAIN batch[r]
    BY <1>2, <1>7, <2>1 DEF BatchPut, Creating
  <2>2. CASE b \notin DOMAIN batch[r]
    BY <1>1, <1>7, <2>2 DEF BatchPut, PutAll, ViewsOf
  <2> QED
    BY <2>1, <2>2
<1>8. CASE DeleteRow(r) \/ SaveRow(r) \/ Log(r) \/ BatchLog(r) \/ Get(r) \/ Publish(r) \/ BatchSave(r)
  <2>1. UNCHANGED dynamo
    BY <1>8 DEF DeleteRow, SaveRow, WritePg, Log, BatchLog, LogOperation, Get, Publish, BatchSave, stores
  <2> QED
    BY <1>1, <2>1 DEF ViewsOf
<1> QED
  BY <1>3, <1>4, <1>5, <1>6, <1>7, <1>8 DEF Call

\* An increment that is answered has been counted.
LEMMA IncrementCounts ==
  ASSUME IInv, NEW r \in Requests, Increment(r), pc'[r] # "error"
  PROVE  ViewsOf(dynamo, book[r])' = ViewsOf(dynamo, book[r]) + 1
<1> DEFINE old == IF book[r] \in DOMAIN dynamo THEN dynamo[book[r]] ELSE Blank
           new == [old EXCEPT !.views = @ + 1]
<1>1. dynamo' = Put(dynamo, book[r], new) /\ UNCHANGED book
  BY RequestTypes DEF Increment, WriteDynamo, Goto
<1>2. old \in Row /\ old.views = ViewsOf(dynamo, book[r])
  BY BlankRow DEF IInv, TypeOK, IsTable, ViewsOf, Blank
<1>3. new.views = ViewsOf(dynamo, book[r]) + 1
  <2> HIDE DEF old
  <2> QED
    BY <1>2 DEF Row
<1> HIDE DEF new
<1> QED
  BY <1>1, <1>3 DEF Put, ViewsOf

LEMMA CountCall ==
  ASSUME IInv, IInv', OpInv, CreateInv, CountInv, [Next]_vars, NEW r \in Requests, Call(r),
         NEW b \in BookIds
  PROVE  /\ IsFiniteSet(Increments(b)')
         /\ ~RemoveAsked(b)' => ViewsOf(dynamo, b)' >= Cardinality(Increments(b)')
<1>1. RemoveAsked(b) => RemoveAsked(b)'
  BY RemovalStaysAsked
<1>2. IsFiniteSet(Increments(b))
      /\ (~RemoveAsked(b) => ViewsOf(dynamo, b) >= Cardinality(Increments(b)))
  BY DEF CountInv
<1>3. CASE r \notin Increments(b)' \/ r \in Increments(b)
  <2>1. Increments(b)' \subseteq Increments(b)
    BY <1>3, IncrementsOf
  <2> QED
    BY <1>1, <1>2, <2>1, CountStays, ViewsStay
<1>4. CASE r \in Increments(b)' /\ r \notin Increments(b)
  <2>1. pc[r] = "increment" /\ book[r] = b /\ Increments(b)' \subseteq Increments(b) \cup {r}
    BY <1>4, IncrementsOf
  <2>2. Increment(r) /\ pc'[r] # "error"
    BY <1>4, <2>1 DEF Increments, Call, PutItem, Get, UpdateItem, Increment, DeleteItem,
       DeleteRow, SaveRow, Log, Publish, BatchSave, BatchLog, BatchPut
  <2>3. UNCHANGED book /\ ViewsOf(dynamo, b)' = ViewsOf(dynamo, b) + 1
    BY <2>1, <2>2, IncrementCounts DEF Increment, ViewsOf
  <2> DEFINE I == Increments(b)
             J == Increments(b)'
             v == ViewsOf(dynamo, b)
  <2>4. IsFiniteSet(I \cup {r}) /\ Cardinality(I \cup {r}) = Cardinality(I) + 1
    BY <1>2, <1>4, FS_AddElement
  <2>5. IsFiniteSet(J) /\ Cardinality(J) <= Cardinality(I) + 1
    BY <2>1, <2>4, FS_Subset
  <2>6. v \in Nat /\ Cardinality(I) \in Nat /\ Cardinality(J) \in Nat
    BY <1>2, <2>5, ViewsNat, FS_CardinalityType
  <2> HIDE DEF I, J, v
  <2>7. ~RemoveAsked(b) => v >= Cardinality(I)
    BY <1>2 DEF I, v
  <2>8. ~RemoveAsked(b) => v + 1 >= Cardinality(J)
    BY <2>5, <2>6, <2>7
  <2> QED
    BY <1>1, <2>3, <2>5, <2>8 DEF J, v
<1> QED
  BY <1>3, <1>4

LEMMA CountNext ==
  ASSUME "sync" \notin Ops, IInv, IInv', OpInv, CreateInv, CountInv, [Next]_vars
  PROVE  CountInv'
<1> SUFFICES ASSUME NEW b \in BookIds
             PROVE  /\ IsFiniteSet(Increments(b)')
                    /\ ~RemoveAsked(b)' => ViewsOf(dynamo, b)' >= Cardinality(Increments(b)')
  BY DEF CountInv
<1>1. RemoveAsked(b) => RemoveAsked(b)'
  BY RemovalStaysAsked
<1>2. CASE \E r \in Requests : Call(r)
  BY <1>2, CountCall
<1>3. ASSUME Increments(b)' \subseteq Increments(b), UNCHANGED dynamo
      PROVE  /\ IsFiniteSet(Increments(b)')
             /\ ~RemoveAsked(b)' => ViewsOf(dynamo, b)' >= Cardinality(Increments(b)')
  <2>1. ViewsOf(dynamo, b)' = ViewsOf(dynamo, b) /\ ViewsOf(dynamo, b) \in Nat
    BY <1>3, ViewsNat DEF ViewsOf
  <2>2. ViewsOf(dynamo, b)' >= ViewsOf(dynamo, b)
    BY <2>1
  <2> QED
    BY <1>1, <1>3, <2>2, CountStays DEF CountInv
<1>4. CASE \E r \in Requests : Start(r)
  <2>1. PICK r \in Requests : Start(r)
    BY <1>4
  <2>2. Increments(b)' \subseteq Increments(b)
    BY <2>1, StartKeeps DEF Increments
  <2> QED
    BY <1>3, <2>1, <2>2, StartKeeps DEF stores
<1>5. ~Sync /\ ~SyncReject
  BY DEF CreateInv, Sync, SyncReject, SyncStart, PgFind, PgCompare, PgPut, PgLog, PgHasLog,
         PgDone, DynScan, DynCompare, DynSave, DynDone
<1>6. CASE Crash \/ UNCHANGED vars
  <2>1. /\ UNCHANGED <<dynamo, op, book>>
        /\ \A r \in Requests : pc'[r] = pc[r] \/ pc'[r] = "lost"
    BY <1>6 DEF Crash, vars, stores, request
  <2> QED
    BY <1>3, <2>1 DEF Increments
<1> QED
  BY <1>2, <1>4, <1>5, <1>6 DEF Next

\* Concurrent updates of the views count are all counted by the table, as
\* long as the book is not removed and no cron job runs, whatever fails or
\* crashes on the way, and although the requests check first and save last.
THEOREM ViewsAllCounted ==
  ASSUME "sync" \notin Ops
  PROVE  Spec => []NoLostIncrement
<1>1. Init => CreateInv /\ CountInv
  <2> SUFFICES ASSUME Init PROVE CreateInv /\ CountInv
    OBVIOUS
  <2>1. CreateInv
    <3>1. \A r \in Requests, b \in BookIds : ~Creating(r, b)
      BY DEF Init, Creating, NoRows
    <3>2. DOMAIN dynamo \subseteq used /\ DOMAIN pg \subseteq used
      BY DEF Init, Keep
    <3>3. cron = "idle"
      BY DEF Init
    <3>4. \A r \in Requests : book[r] \in used \cup {None} /\ DOMAIN batch[r] \subseteq used
      BY DEF Init, NoRows
    <3> QED
      BY <3>1, <3>2, <3>3, <3>4 DEF CreateInv
  <2>2. \A b \in BookIds : Increments(b) = {} /\ ViewsOf(dynamo, b) \in Nat
    BY InitIInv, ViewsNat DEF Init, Increments
  <2>3. CountInv
    BY <2>2, FS_EmptySet DEF CountInv
  <2> QED
    BY <2>1, <2>3
<1>2. IInv /\ IInv' /\ OpInv /\ CreateInv /\ CountInv /\ [Next]_vars => CreateInv' /\ CountInv'
  BY CreateNext, CountNext
<1>3. CountInv => NoLostIncrement
  BY DEF CountInv, NoLostIncrement
<1> QED
  BY <1>1, <1>2, <1>3, InductiveInvariant, OpInvariant, PTL DEF Spec
=============================================================================
