-------------------------- MODULE BookStoresProofs --------------------------
(***************************************************************************)
(* Theorems about BookStores, for any number of books, contents, requests  *)
(* and faults.                                                             *)
(***************************************************************************)
EXTENDS BookStores, TLAPS

(***************************************************************************)
(* What the operations on tables return.                                   *)
(***************************************************************************)

\* Writing a row of a book into a table gives a table.
LEMMA PutTable ==
  ASSUME NEW t, IsTable(t), NEW b \in BookIds, NEW r \in Row
  PROVE  /\ IsTable(Put(t, b, r))
         /\ DOMAIN Put(t, b, r) = DOMAIN t \cup {b}
         /\ \A x \in DOMAIN t \cup {b} :
              Put(t, b, r)[x] = IF x = b THEN r ELSE t[x]
  BY DEF IsTable, Put

\* Keeping the rows of some books gives a table.
LEMMA KeepTable ==
  ASSUME NEW t, IsTable(t), NEW B
  PROVE  /\ IsTable(Keep(t, B))
         /\ DOMAIN Keep(t, B) = DOMAIN t \cap B
         /\ \A x \in DOMAIN t \cap B : Keep(t, B)[x] = t[x]
  BY DEF IsTable, Keep

\* So does leaving out the row of one book.
LEMMA DropTable ==
  ASSUME NEW t, IsTable(t), NEW b
  PROVE  /\ IsTable(Drop(t, b))
         /\ DOMAIN Drop(t, b) = DOMAIN t \ {b}
         /\ \A x \in DOMAIN t \ {b} : Drop(t, b)[x] = t[x]
  BY DEF IsTable, Keep, Drop

\* And writing some of the items of a batch.
LEMMA PutAllTable ==
  ASSUME NEW t, IsTable(t), NEW s, IsTable(s), NEW B \in SUBSET DOMAIN s
  PROVE  /\ IsTable(PutAll(t, s, B))
         /\ DOMAIN PutAll(t, s, B) = DOMAIN t \cup B
  BY DEF IsTable, PutAll

\* The empty table is one.
LEMMA NoRowsTable == IsTable(NoRows) /\ DOMAIN NoRows = {}
  BY DEF IsTable, NoRows

\* A row of nothing is a row.
LEMMA BlankRow == Blank \in Row
  BY DEF Blank, Row

\* repository.save never leaves a row without content, if there was none.
LEMMA SavedTable ==
  ASSUME IsTable(pg), \A x \in DOMAIN pg : pg[x].content # None,
         NEW b \in BookIds, NEW r \in Row, CanSave(b, r)
  PROVE  /\ IsTable(Saved(b, r))
         /\ DOMAIN Saved(b, r) = DOMAIN pg \cup {b}
         /\ \A x \in DOMAIN Saved(b, r) : Saved(b, r)[x].content # None
<1> DEFINE new == IF r.content = None THEN [pg[b] EXCEPT !.views = r.views] ELSE r
<1>1. new \in Row /\ new.content # None
  <2>1. CASE r.content = None
    <3>1. b \in DOMAIN pg /\ pg[b] \in Row
      BY <2>1 DEF CanSave, IsTable
    <3>2. new = [pg[b] EXCEPT !.views = r.views]
      BY <2>1
    <3> QED
      BY <3>1, <3>2 DEF Row
  <2>2. CASE r.content # None
    BY <2>2
  <2> QED
    BY <2>1, <2>2
<1>2. Saved(b, r) = Put(pg, b, new)
  BY DEF Saved
<1> HIDE DEF new
<1> QED
  BY <1>1, <1>2, PutTable

-----------------------------------------------------------------------------
(***************************************************************************)
(* Type correctness.  TypeOK is not inductive: a write of request r to the *)
(* table keeps it a table of books only because book[r] names a book by    *)
(* then, and a step of the cron job because the book it is at is one of    *)
(* those it has read.  Bookkeeping says both.                              *)
(***************************************************************************)
IInv == TypeOK /\ Bookkeeping

\* The same by the parts of the state a step may leave alone.
StoresOK ==
  /\ IsTable(dynamo)
  /\ IsTable(pg) /\ \A b \in DOMAIN pg : pg[b].content # None
  /\ logs \in [BookIds -> SUBSET LogTypes]

InFlight == Labels \ {"idle", "saveNext", "lost", "publish", "ok", "error"}

RequestsOK ==
  /\ used \subseteq BookIds
  /\ op \in [Requests -> AllOps \cup {None}]
  /\ pc \in [Requests -> Labels]
  /\ book \in [Requests -> BookIds \cup {None}]
  /\ row \in [Requests -> Row]
  /\ batch = [r \in Requests |-> batch[r]]
  /\ \A r \in Requests :
       /\ IsTable(batch[r])
       /\ pc[r] = "idle" => book[r] = None /\ batch[r] = NoRows
       /\ pc[r] \in InFlight => book[r] \in BookIds

AtRow == {"pgPut", "pgLog", "pgHasLog", "pgSkipLog", "dynSave"}

SyncOK ==
  /\ cron \in CronLabels
  /\ IsTable(todo)
  /\ cur \in BookIds \cup {None}
  /\ missed \subseteq BookIds
  /\ cron \in AtRow => cur \in DOMAIN todo

CountersOK == faults \in 0..MaxFaults /\ touched \subseteq BookIds

LEMMA IInvParts == IInv <=> StoresOK /\ RequestsOK /\ SyncOK /\ CountersOK
  BY DEF IInv, TypeOK, Bookkeeping, StoresOK, RequestsOK, SyncOK, CountersOK,
         InFlight, AtRow, Labels, Answered

LEMMA IInvPartsNext ==
  StoresOK' /\ RequestsOK' /\ SyncOK' /\ CountersOK' => IInv'
  BY IInvParts, PTL

\* The budget is never overdrawn, and only books are touched.
LEMMA CountersNext ==
  ASSUME CountersOK, Fault \/ UNCHANGED faults,
         (\E B \in SUBSET BookIds : Touch(B)) \/ touched' = {} \/ UNCHANGED touched
  PROVE  CountersOK'
  BY ConstantsAssumption DEF CountersOK, Fault, Touch

\* A request that only moves on, to a label that needs no book it has not got.
LEMMA MoveOn ==
  ASSUME RequestsOK, NEW r \in Requests, NEW l \in Labels \ {"idle"}, Goto(r, l),
         l \in InFlight => book[r] \in BookIds,
         row' \in [Requests -> Row], UNCHANGED <<used, op, book, batch>>
  PROVE  RequestsOK'
  BY DEF RequestsOK, Goto

\* The cron job is where it was.
LEMMA SyncSame == ASSUME SyncOK, UNCHANGED sync PROVE SyncOK'
  BY DEF SyncOK, sync

\* The stores hold what they held.
LEMMA StoresSame == ASSUME StoresOK, UNCHANGED stores PROVE StoresOK'
  BY DEF StoresOK, stores

\* A write to one store leaves it a table, whether it answers or rejects.
LEMMA WriteDynamoNext ==
  ASSUME IInv, NEW r \in Requests, book[r] \in BookIds, NEW new, IsTable(new),
         NEW l \in Labels \ {"idle"}, l \in InFlight => book[r] \in BookIds,
         WriteDynamo(r, new, l), row' \in [Requests -> Row],
         UNCHANGED <<used, op, book, batch>>
  PROVE  IInv'
<1>1. StoresOK /\ RequestsOK /\ SyncOK /\ CountersOK
  BY IInvParts
<1>2. StoresOK'
  BY <1>1 DEF StoresOK, WriteDynamo
<1>3. RequestsOK'
  <2>1. Goto(r, l) \/ Goto(r, "error")
    BY DEF WriteDynamo
  <2> QED
    BY <1>1, <2>1, MoveOn DEF Labels, Answered, InFlight
<1>4. SyncOK'
  BY <1>1, SyncSame DEF WriteDynamo
<1>5. CountersOK'
  BY <1>1, CountersNext DEF WriteDynamo
<1> QED
  BY <1>2, <1>3, <1>4, <1>5, IInvPartsNext

LEMMA WritePgNext ==
  ASSUME IInv, NEW r \in Requests, book[r] \in BookIds, NEW new, IsTable(new),
         \A b \in DOMAIN new : new[b].content # None,
         NEW l \in Labels \ {"idle"}, l \in InFlight => book[r] \in BookIds,
         WritePg(r, book[r], new, l), row' \in [Requests -> Row],
         UNCHANGED <<used, op, book, batch>>
  PROVE  IInv'
<1>1. StoresOK /\ RequestsOK /\ SyncOK /\ CountersOK
  BY IInvParts
<1>2. StoresOK'
  BY <1>1 DEF StoresOK, WritePg
<1>3. RequestsOK'
  <2>1. Goto(r, l) \/ Goto(r, "error")
    BY DEF WritePg
  <2> QED
    BY <1>1, <2>1, MoveOn DEF Labels, Answered, InFlight
<1>4. SyncOK'
  BY <1>1, SyncSame DEF WritePg
<1>5. CountersOK'
  BY <1>1, CountersNext DEF WritePg
<1> QED
  BY <1>2, <1>3, <1>4, <1>5, IInvPartsNext

LEMMA LogNext ==
  ASSUME StoresOK, NEW b \in BookIds, NEW type \in LogTypes, LogOperation(b, type)
  PROVE  StoresOK'
  BY DEF StoresOK, LogOperation

LEMMA InitIInv == Init => IInv
<1> SUFFICES ASSUME Init PROVE IInv
  OBVIOUS
<1>1. StoresOK
  <2>1. /\ IsTable(pg) /\ \A b \in DOMAIN pg : pg[b].content # None
        /\ \E S \in SUBSET Seeded : dynamo = Keep(pg, S)
    BY ConstantsAssumption DEF Init, IsTable, Row
  <2>2. PICK S \in SUBSET Seeded : dynamo = Keep(pg, S)
    BY <2>1
  <2>3. IsTable(pg) => IsTable(Keep(pg, S))
    BY KeepTable
  <2>4. IsTable(dynamo)
    BY <2>1, <2>2, <2>3
  <2>5. logs \in [BookIds -> SUBSET LogTypes]
    BY DEF Init, LogTypes
  <2> QED
    BY <2>1, <2>4, <2>5 DEF StoresOK
<1>2. RequestsOK
  BY NoRowsTable, BlankRow, ConstantsAssumption
     DEF Init, RequestsOK, Labels, InFlight
<1>3. SyncOK
  BY NoRowsTable DEF Init, SyncOK, CronLabels, AtRow
<1>4. CountersOK
  BY ConstantsAssumption DEF Init, CountersOK
<1> QED
  BY <1>1, <1>2, <1>3, <1>4, IInvParts

\* One step per action of a request.
LEMMA RequestIInv ==
  ASSUME IInv, NEW r \in Requests, Start(r) \/ Call(r)
  PROVE  IInv'
<1>1. StoresOK /\ RequestsOK /\ SyncOK /\ CountersOK
  BY IInvParts
<1>2. /\ row[r] \in Row
      /\ pc[r] \in InFlight => book[r] \in BookIds
      /\ IsTable(batch[r]) /\ IsTable(dynamo) /\ IsTable(pg)
  BY <1>1 DEF RequestsOK, StoresOK
<1>3. CASE Start(r)
  <2>1. StoresOK' /\ SyncOK' /\ CountersOK'
    BY <1>1, <1>3, StoresSame, SyncSame, CountersNext DEF Start, stores, sync
  <2>2. CASE StartCreate(r)
    <3>1. RequestsOK'
      BY <1>1, <1>3, <2>2, ConstantsAssumption
         DEF RequestsOK, Start, StartCreate, Dtos, Goto, Labels, Row, AllOps, InFlight
    <3> QED
      BY <2>1, <3>1, IInvPartsNext
  <2>3. CASE StartBatchWrite(r)
    <3>1. RequestsOK'
      BY <1>1, <1>3, <2>3
         DEF RequestsOK, Start, StartBatchWrite, Goto, Labels, AllOps, InFlight
    <3> QED
      BY <2>1, <3>1, IInvPartsNext
  <2>4. CASE StartOn(r)
    <3>1. row' \in [Requests -> Row]
      BY <1>1, <2>4 DEF RequestsOK, StartOn, Row
    <3>2. PICK o \in AllOps, b \in BookIds :
            /\ op' = [op EXCEPT ![r] = o] /\ book' = [book EXCEPT ![r] = b]
            /\ pc' = [pc EXCEPT ![r] = "get"]
      BY <1>1, <2>4 DEF RequestsOK, StartOn, Goto, AllOps
    <3>3. batch' = batch /\ used' = used
      BY <1>3, <2>4 DEF Start, StartOn
    <3>4. RequestsOK'
      BY <1>1, <3>1, <3>2, <3>3 DEF RequestsOK, Labels, InFlight
    <3> QED
      BY <2>1, <3>4, IInvPartsNext
  <2> QED
    BY <1>3, <2>2, <2>3, <2>4 DEF Start
<1>4. CASE PutItem(r)
  <2>1. pc[r] \in InFlight
    BY <1>4 DEF PutItem, InFlight, Labels
  <2>2. IsTable(Put(dynamo, book[r], row[r]))
    BY <1>2, <2>1, PutTable
  <2>3. row' \in [Requests -> Row]
    BY <1>1, <1>4 DEF PutItem, RequestsOK
  <2> QED
    BY <1>2, <1>4, <2>1, <2>2, <2>3, WriteDynamoNext DEF PutItem, Labels
<1>5. CASE Get(r)
  <2>1. pc[r] \in InFlight
    BY <1>5 DEF Get, InFlight, Labels
  <2>2. row' \in [Requests -> Row]
    BY <1>1, <1>2, <1>5 DEF Get, RequestsOK, IsTable
  <2>3. AfterGet(r) \in Labels \ {"idle"}
    BY DEF AfterGet, Labels
  <2>4. Goto(r, AfterGet(r)) \/ Goto(r, "error")
    BY <1>5 DEF Get, Await
  <2>5. RequestsOK'
    BY <1>1, <1>2, <1>5, <2>1, <2>2, <2>3, <2>4, MoveOn
       DEF Get, Labels, Answered
  <2>6. StoresOK' /\ SyncOK' /\ CountersOK'
    BY <1>1, <1>5, StoresSame, SyncSame, CountersNext DEF Get, Await
  <2> QED
    BY <2>5, <2>6, IInvPartsNext
<1>6. CASE UpdateItem(r)
  <2> DEFINE new == [content |-> row[r].content, views |-> ViewsOf(dynamo, book[r])]
  <2>1. pc[r] \in InFlight
    BY <1>6 DEF UpdateItem, InFlight, Labels
  <2>2. new \in Row
    BY <1>2 DEF Row, ViewsOf, IsTable
  <2>3. UNCHANGED <<used, op, book, batch>>
    BY <1>6 DEF UpdateItem
  <2>4. CASE WriteDynamo(r, Put(dynamo, book[r], new), "save") /\ row' = [row EXCEPT ![r] = new]
    <3> HIDE DEF new
    <3>1. IsTable(Put(dynamo, book[r], new))
      BY <1>2, <2>1, <2>2, PutTable
    <3>2. row' \in [Requests -> Row]
      BY <1>1, <2>2, <2>4 DEF RequestsOK
    <3> QED
      BY <1>2, <2>1, <2>3, <2>4, <3>1, <3>2, WriteDynamoNext DEF Labels
  <2>5. CASE Goto(r, "error") /\ UNCHANGED <<stores, row, sync, faults, touched>>
    <3>1. row' \in [Requests -> Row]
      BY <1>1, <2>5 DEF RequestsOK
    <3>2. RequestsOK'
      BY <1>1, <2>3, <2>5, <3>1, MoveOn DEF Labels, Answered, InFlight
    <3> QED
      BY <1>1, <2>5, <3>2, StoresSame, SyncSame, CountersNext, IInvPartsNext
  <2> QED
    BY <1>6, <2>4, <2>5 DEF UpdateItem
<1>7. CASE Increment(r)
  <2> DEFINE old == IF book[r] \in DOMAIN dynamo THEN dynamo[book[r]] ELSE Blank
             new == [old EXCEPT !.views = @ + 1]
  <2>1. pc[r] \in InFlight
    BY <1>7 DEF Increment, InFlight, Labels
  <2>2. old \in Row
    BY <1>2, BlankRow DEF IsTable
  <2>3. WriteDynamo(r, Put(dynamo, book[r], new), "save")
    BY <1>7 DEF Increment
  <2>4. row' = [row EXCEPT ![r].views = new.views] /\ UNCHANGED <<used, op, book, batch>>
    BY <1>7 DEF Increment
  <2>5. new \in Row
    <3> HIDE DEF old
    <3> QED
      BY <2>2 DEF Row
  <2> HIDE DEF new
  <2>6. IsTable(Put(dynamo, book[r], new))
    BY <1>2, <2>1, <2>5, PutTable
  <2>7. row' \in [Requests -> Row]
    BY <1>1, <2>5, <2>4 DEF RequestsOK, Row
  <2> QED
    BY <1>2, <2>1, <2>3, <2>4, <2>6, <2>7, WriteDynamoNext DEF Labels
<1>8. CASE DeleteItem(r)
  <2>1. pc[r] \in InFlight
    BY <1>8 DEF DeleteItem, InFlight, Labels
  <2>2. IsTable(Drop(dynamo, book[r]))
    BY <1>2, DropTable
  <2>3. row' \in [Requests -> Row]
    BY <1>1, <1>8 DEF DeleteItem, RequestsOK
  <2> QED
    BY <1>2, <1>8, <2>1, <2>2, <2>3, WriteDynamoNext DEF DeleteItem, Labels
<1>9. CASE DeleteRow(r)
  <2>1. pc[r] \in InFlight
    BY <1>9 DEF DeleteRow, InFlight, Labels
  <2>2. /\ IsTable(Drop(pg, book[r]))
        /\ \A b \in DOMAIN Drop(pg, book[r]) : Drop(pg, book[r])[b].content # None
    <3> DEFINE new == Drop(pg, book[r])
    <3>1. /\ IsTable(new)
          /\ DOMAIN new = DOMAIN pg \ {book[r]}
          /\ \A x \in DOMAIN pg \ {book[r]} : new[x] = pg[x]
      BY <1>2, DropTable
    <3> HIDE DEF new
    <3>2. \A b \in DOMAIN new : new[b].content # None
      BY <1>1, <3>1 DEF StoresOK
    <3> QED
      BY <3>1, <3>2 DEF new
  <2>3. row' \in [Requests -> Row]
    BY <1>1, <1>9 DEF DeleteRow, RequestsOK
  <2> QED
    BY <1>2, <1>9, <2>1, <2>2, <2>3, WritePgNext DEF DeleteRow, Labels
<1>10. CASE SaveRow(r)
  <2>1. pc[r] \in InFlight
    BY <1>10 DEF SaveRow, InFlight, Labels
  <2>2. row' \in [Requests -> Row] /\ UNCHANGED <<used, op, book, batch>>
    BY <1>1, <1>10 DEF SaveRow, RequestsOK
  <2>3. CASE CanSave(book[r], row[r])
    <3>1. /\ IsTable(Saved(book[r], row[r]))
          /\ \A b \in DOMAIN Saved(book[r], row[r]) :
               Saved(book[r], row[r])[b].content # None
      BY <1>1, <1>2, <2>1, <2>3, SavedTable DEF StoresOK
    <3>2. \E l \in {"publish", "log"} : WritePg(r, book[r], Saved(book[r], row[r]), l)
      BY <1>10, <2>3 DEF SaveRow
    <3> QED
      BY <1>2, <2>1, <2>2, <3>1, <3>2, WritePgNext DEF Labels
  <2>4. CASE ~CanSave(book[r], row[r])
    <3>1. Goto(r, "error") /\ UNCHANGED <<stores, sync, faults, touched>>
      BY <1>10, <2>4 DEF SaveRow
    <3>2. RequestsOK'
      BY <1>1, <2>2, <3>1, MoveOn DEF Labels, Answered, InFlight
    <3> QED
      BY <1>1, <3>1, <3>2, StoresSame, SyncSame, CountersNext, IInvPartsNext
  <2> QED
    BY <2>3, <2>4
<1>11. CASE Log(r)
  <2>1. pc[r] \in InFlight
    BY <1>11 DEF Log, InFlight, Labels
  <2>2. LogType(r) \in LogTypes
    BY DEF LogType, LogTypes
  <2>3. StoresOK'
    BY <1>1, <1>2, <1>11, <2>1, <2>2, LogNext DEF Log
  <2>4. RequestsOK'
    BY <1>1, <1>2, <1>11, <2>1, MoveOn DEF Log, Labels, InFlight, RequestsOK
  <2>5. SyncOK' /\ CountersOK'
    BY <1>1, <1>11, SyncSame, CountersNext DEF Log, LogOperation
  <2> QED
    BY <2>3, <2>4, <2>5, IInvPartsNext
<1>12. CASE Publish(r)
  <2>1. Goto(r, "ok") \/ Goto(r, "error")
    BY <1>12 DEF Publish, Await
  <2>2. RequestsOK'
    BY <1>1, <1>12, <2>1, MoveOn DEF Publish, Labels, Answered, InFlight, RequestsOK
  <2>3. StoresOK' /\ SyncOK' /\ CountersOK'
    BY <1>1, <1>12, StoresSame, SyncSame, CountersNext DEF Publish, Await
  <2> QED
    BY <2>2, <2>3, IInvPartsNext
<1>13. CASE BatchSave(r)
  <2>1. PICK b \in BookIds \ used, c \in Dtos :
          LET new == [content |-> c, views |-> 0]
          IN  /\ used' = used \cup {b}
              /\ book' = [book EXCEPT ![r] = b]
              /\ batch' = [batch EXCEPT ![r] = Put(@, b, new)]
              /\ IF c = None
                   THEN Goto(r, "error") /\ UNCHANGED <<stores, sync, faults, touched>>
                   ELSE WritePg(r, b, Put(pg, b, new), "logNext")
    BY <1>13 DEF BatchSave
  <2> DEFINE new == [content |-> c, views |-> 0]
  <2>2. new \in Row
    BY DEF Row, Dtos
  <2>3. /\ used' = used \cup {b}
        /\ book' = [book EXCEPT ![r] = b]
        /\ batch' = [batch EXCEPT ![r] = Put(@, b, new)]
        /\ pg' = pg \/ (c # None /\ pg' = Put(pg, b, new))
        /\ Goto(r, "logNext") \/ Goto(r, "error")
        /\ Fault \/ UNCHANGED faults
        /\ Touch({b}) \/ UNCHANGED touched
        /\ UNCHANGED <<dynamo, logs, sync>>
    BY <2>1 DEF WritePg, stores
  <2>4. c # None => new.content # None
    OBVIOUS
  <2> HIDE DEF new
  <2>5. IsTable(Put(batch[r], b, new))
    BY <1>2, <2>2, PutTable
  <2>6. IsTable(pg') /\ \A x \in DOMAIN pg' : pg'[x].content # None
    <3> DEFINE q == Put(pg, b, new)
    <3>1. IsTable(pg) /\ b \in BookIds
      BY <1>2
    <3>2. IsTable(q)
      BY ONLY <3>1, <2>2, PutTable
    <3>3. new.content # None => \A x \in DOMAIN q : q[x].content # None
      BY ONLY <1>1, <2>2, <3>1 DEF Put, IsTable, StoresOK
    <3>4. \A x \in DOMAIN pg : pg[x].content # None
      BY <1>1 DEF StoresOK
    <3>5. pg' = pg \/ (pg' = q /\ new.content # None)
      BY <2>3, <2>4
    <3> HIDE DEF q
    <3> QED
      BY ONLY <3>1, <3>2, <3>3, <3>4, <3>5
  <2>7. StoresOK'
    BY <1>1, <2>3, <2>6 DEF StoresOK
  <2>8. RequestsOK'
    BY <1>1, <1>13, <2>3, <2>5
       DEF RequestsOK, BatchSave, Goto, Labels, Answered, InFlight
  <2>9. SyncOK' /\ CountersOK'
    BY <1>1, <2>3, SyncSame, CountersNext
  <2> QED
    BY <2>7, <2>8, <2>9, IInvPartsNext
<1>14. CASE BatchLog(r)
  <2>1. pc[r] \in InFlight
    BY <1>14 DEF BatchLog, InFlight, Labels
  <2>2. StoresOK'
    BY <1>1, <1>2, <1>14, <2>1, LogNext DEF BatchLog, LogTypes
  <2>3. RequestsOK'
    BY <1>1, <1>14, MoveOn DEF BatchLog, Labels, InFlight, RequestsOK
  <2>4. SyncOK' /\ CountersOK'
    BY <1>1, <1>14, SyncSame, CountersNext DEF BatchLog, LogOperation
  <2> QED
    BY <2>2, <2>3, <2>4, IInvPartsNext
<1>15. CASE BatchPut(r)
  <2>1. \E done \in SUBSET DOMAIN batch[r] : dynamo' = PutAll(dynamo, batch[r], done)
    BY <1>15 DEF BatchPut
  <2>2. StoresOK'
    <3>1. PICK done \in SUBSET DOMAIN batch[r] :
            dynamo' = PutAll(dynamo, batch[r], done)
      BY <2>1
    <3>2. IsTable(PutAll(dynamo, batch[r], done))
      BY <1>2, PutAllTable
    <3> QED
      BY <1>1, <1>15, <3>1, <3>2 DEF StoresOK, BatchPut
  <2>3. Goto(r, "publish") \/ Goto(r, "error")
    BY <1>15 DEF BatchPut
  <2>4. RequestsOK'
    BY <1>1, <1>15, <2>3, MoveOn
       DEF BatchPut, Labels, Answered, InFlight, RequestsOK
  <2>5. DOMAIN batch[r] \subseteq BookIds
    BY <1>2 DEF IsTable
  <2>6. SyncOK' /\ CountersOK'
    BY <1>1, <1>15, <2>5, SyncSame, CountersNext DEF BatchPut
  <2> QED
    BY <2>2, <2>4, <2>6, IInvPartsNext
<1> QED
  BY <1>3, <1>4, <1>5, <1>6, <1>7, <1>8, <1>9, <1>10, <1>11, <1>12, <1>13,
     <1>14, <1>15 DEF Call

\* And one step per action of the cron job, and for what ends it.
LEMMA SyncIInv ==
  ASSUME IInv, Sync
  PROVE  IInv'
<1>1. StoresOK /\ RequestsOK /\ SyncOK /\ CountersOK
  BY IInvParts
<1>2. IsTable(dynamo) /\ IsTable(pg) /\ IsTable(todo)
  BY <1>1 DEF StoresOK, SyncOK
<1>3. ASSUME UNCHANGED <<used, request>> PROVE RequestsOK'
  BY <1>1, <1>3 DEF RequestsOK, request
<1>4. CASE SyncStart
  <2>1. SyncOK'
    BY <1>1, <1>4 DEF SyncStart, SyncOK, CronLabels, AtRow
  <2>2. StoresOK' /\ CountersOK'
    BY <1>1, <1>4, StoresSame, CountersNext DEF SyncStart
  <2> QED
    BY <1>3, <1>4, <2>1, <2>2, IInvPartsNext DEF SyncStart
<1>5. CASE PgFind
  <2>1. SyncOK'
    BY <1>1, <1>2, <1>5 DEF PgFind, SyncOK, CronLabels, AtRow
  <2>2. StoresOK' /\ CountersOK'
    BY <1>1, <1>5, StoresSame, CountersNext DEF PgFind
  <2> QED
    BY <1>3, <1>5, <2>1, <2>2, IInvPartsNext DEF PgFind
<1>6. CASE PgCompare
  <2>1. SyncOK'
    BY <1>1, <1>2, <1>6 DEF PgCompare, SyncOK, CronLabels, AtRow, IsTable
  <2>2. StoresOK' /\ CountersOK'
    BY <1>1, <1>6, StoresSame, CountersNext DEF PgCompare
  <2> QED
    BY <1>3, <1>6, <2>1, <2>2, IInvPartsNext DEF PgCompare
<1>7. CASE PgPut
  <2>1. cur \in DOMAIN todo /\ cur \in BookIds /\ todo[cur] \in Row
    BY <1>1, <1>2, <1>7 DEF PgPut, SyncOK, AtRow, IsTable
  <2>2. IsTable(dynamo')
    BY <1>2, <1>7, <2>1, PutTable DEF PgPut
  <2>3. StoresOK' /\ CountersOK'
    BY <1>1, <1>7, <2>2, CountersNext DEF PgPut, StoresOK
  <2>4. SyncOK'
    BY <1>1, <1>7, <2>1 DEF PgPut, SyncOK, CronLabels, AtRow
  <2> QED
    BY <1>3, <1>7, <2>3, <2>4, IInvPartsNext DEF PgPut
<1>8. ASSUME NEW l \in {"pgNext", "dynNext"}, NextRow(l)
      PROVE  SyncOK'
  <2>1. IsTable(todo')
    BY <1>2, <1>8, DropTable DEF NextRow
  <2> QED
    BY <1>1, <1>8, <2>1 DEF NextRow, SyncOK, CronLabels, AtRow
<1>9. CASE PgLog
  <2>1. cur \in BookIds
    BY <1>1, <1>2, <1>9 DEF PgLog, SyncOK, AtRow, IsTable
  <2>2. StoresOK'
    BY <1>1, <1>9, <2>1, LogNext DEF PgLog, LogTypes
  <2>3. SyncOK' /\ CountersOK'
    BY <1>1, <1>8, <1>9, CountersNext DEF PgLog, LogOperation
  <2> QED
    BY <1>3, <1>9, <2>2, <2>3, IInvPartsNext DEF PgLog
<1>10. CASE PgHasLog
  <2>1. ASSUME cron' = "pgSkipLog" /\ UNCHANGED <<todo, cur, missed>>
        PROVE  SyncOK'
    BY <1>1, <1>10, <2>1 DEF PgHasLog, SyncOK, CronLabels, AtRow
  <2>2. SyncOK'
    BY <1>8, <1>10, <2>1 DEF PgHasLog
  <2>3. StoresOK' /\ CountersOK'
    BY <1>1, <1>10, StoresSame, CountersNext DEF PgHasLog
  <2> QED
    BY <1>3, <1>10, <2>2, <2>3, IInvPartsNext DEF PgHasLog
<1>11. CASE PgDone
  <2>1. SyncOK'
    BY <1>1, <1>11 DEF PgDone, SyncOK, CronLabels, AtRow
  <2>2. StoresOK' /\ CountersOK'
    BY <1>1, <1>11, StoresSame, CountersNext DEF PgDone
  <2> QED
    BY <1>3, <1>11, <2>1, <2>2, IInvPartsNext DEF PgDone
<1>12. CASE DynScan
  <2>1. PICK page \in SUBSET DOMAIN dynamo :
          todo' = Keep(dynamo, page) /\ missed' = DOMAIN dynamo \ page
    BY <1>12 DEF DynScan
  <2>2. IsTable(todo') /\ missed' \subseteq BookIds
    BY <1>2, <2>1, KeepTable DEF IsTable
  <2>3. SyncOK'
    BY <1>1, <1>12, <2>2 DEF DynScan, SyncOK, CronLabels, AtRow
  <2>4. StoresOK' /\ CountersOK'
    BY <1>1, <1>12, StoresSame, CountersNext DEF DynScan
  <2> QED
    BY <1>3, <1>12, <2>3, <2>4, IInvPartsNext DEF DynScan
<1>13. CASE DynCompare
  <2>1. PICK b \in DOMAIN todo :
          IF SameRow(b)
            THEN todo' = Drop(todo, b) /\ UNCHANGED <<cron, cur>>
            ELSE cron' = "dynSave" /\ cur' = b /\ UNCHANGED todo
    BY <1>13 DEF DynCompare
  <2>2. IsTable(todo') /\ b \in BookIds
    <3>1. IsTable(Drop(todo, b))
      BY <1>2, DropTable
    <3>2. b \in BookIds
      BY <1>2 DEF IsTable
    <3> QED
      BY <1>2, <2>1, <3>1, <3>2
  <2>3. SyncOK'
    BY <1>1, <1>13, <2>1, <2>2 DEF DynCompare, SyncOK, CronLabels, AtRow
  <2>4. StoresOK' /\ CountersOK'
    BY <1>1, <1>13, StoresSame, CountersNext DEF DynCompare
  <2> QED
    BY <1>3, <1>13, <2>3, <2>4, IInvPartsNext DEF DynCompare
<1>14. CASE DynSave
  <2>1. cur \in DOMAIN todo /\ cur \in BookIds /\ todo[cur] \in Row
    BY <1>1, <1>2, <1>14 DEF DynSave, SyncOK, AtRow, IsTable
  <2>2. CASE CanSave(cur, todo[cur])
    <3>1. pg' = Saved(cur, todo[cur]) /\ NextRow("dynNext") /\ UNCHANGED touched
      BY <1>14, <2>2 DEF DynSave
    <3>2. StoresOK'
      BY <1>1, <1>14, <2>1, <2>2, <3>1, SavedTable DEF DynSave, StoresOK
    <3>3. SyncOK' /\ CountersOK'
      BY <1>1, <1>8, <1>14, <3>1, CountersNext DEF DynSave
    <3> QED
      BY <1>3, <1>14, <3>2, <3>3, IInvPartsNext DEF DynSave
  <2>3. CASE ~CanSave(cur, todo[cur])
    <3>1. Abandoned /\ UNCHANGED pg
      BY <1>14, <2>3 DEF DynSave
    <3>2. StoresOK' /\ CountersOK'
      BY <1>1, <1>14, <3>1, StoresSame, CountersNext DEF DynSave, stores, Abandoned
    <3>3. SyncOK'
      BY <1>1, <3>1, NoRowsTable DEF Abandoned, SyncOK, CronLabels, AtRow
    <3> QED
      BY <1>3, <1>14, <3>2, <3>3, IInvPartsNext DEF DynSave
  <2> QED
    BY <2>2, <2>3
<1>15. CASE DynDone
  <2>1. SyncOK'
    BY <1>1, <1>15 DEF DynDone, SyncOK, CronLabels, AtRow
  <2>2. StoresOK' /\ CountersOK'
    BY <1>1, <1>15, StoresSame, CountersNext DEF DynDone
  <2> QED
    BY <1>3, <1>15, <2>1, <2>2, IInvPartsNext DEF DynDone
<1> QED
  BY <1>4, <1>5, <1>6, <1>7, <1>9, <1>10, <1>11, <1>12, <1>13, <1>14, <1>15
     DEF Sync

LEMMA AbandonedIInv ==
  ASSUME IInv, SyncReject \/ Crash
  PROVE  IInv'
<1>1. StoresOK /\ RequestsOK /\ SyncOK /\ CountersOK
  BY IInvParts
<1>2. Fault /\ Abandoned /\ UNCHANGED stores
  BY DEF SyncReject, Crash
<1>3. StoresOK' /\ CountersOK'
  BY <1>1, <1>2, StoresSame, CountersNext DEF Abandoned
<1>4. SyncOK'
  BY <1>1, <1>2, NoRowsTable DEF Abandoned, SyncOK, CronLabels, AtRow
<1>5. RequestsOK'
  <2>1. CASE SyncReject
    BY <1>1, <2>1 DEF SyncReject, RequestsOK, request
  <2>2. CASE Crash
    BY <1>1, <2>2 DEF Crash, RequestsOK, Labels, Answered, InFlight
  <2> QED
    BY <2>1, <2>2
<1> QED
  BY <1>3, <1>4, <1>5, IInvPartsNext

LEMMA StutterIInv ==
  ASSUME IInv, UNCHANGED vars
  PROVE  IInv'
<1>1. StoresOK /\ RequestsOK /\ SyncOK /\ CountersOK
  BY IInvParts
<1>2. RequestsOK'
  BY <1>1 DEF RequestsOK, request, vars
<1>3. StoresOK' /\ SyncOK' /\ CountersOK'
  BY <1>1, StoresSame, SyncSame, CountersNext DEF vars
<1> QED
  BY <1>2, <1>3, IInvPartsNext

LEMMA InductiveInvariant == Spec => []IInv
<1>1. IInv /\ [Next]_vars => IInv'
  BY RequestIInv, SyncIInv, AbandonedIInv, StutterIInv DEF Next
<1> QED
  BY <1>1, InitIInv, PTL DEF Spec

\* Whatever the requests, the cron job and the faults do, both stores hold
\* rows of books and Postgres none without content; the counters stay within
\* their bounds.
THEOREM TypeCorrect == Spec => []TypeOK
  BY InductiveInvariant, PTL DEF IInv

-----------------------------------------------------------------------------
(***************************************************************************)
(* A book that is gone stays gone.                                         *)
(***************************************************************************)

ItemWrites == {"put", "updateItem", "increment", "save"}

BatchWrites == {"saveNext", "logNext"}

\* A book that is gone is not the book of a request that moves on to a write:
\* that request was at a write already, or has just found the item.
LEMMA GoneMoveOn ==
  ASSUME IInv, NEW b \in BookIds, Gone(b), NEW r \in Requests,
         NEW l \in Labels, Goto(r, l),
         l \in ItemWrites => pc[r] \in ItemWrites \/ book[r] \in DOMAIN dynamo,
         l \in BatchWrites => pc[r] \in BatchWrites,
         UNCHANGED <<used, book, batch, todo>>,
         b \notin DOMAIN dynamo', b \notin DOMAIN pg'
  PROVE  Gone(b)'
<1>1. ASSUME NEW q \in Requests PROVE ~Writing(q, b)'
  <2>1. CASE q # r
    BY <2>1 DEF IInv, TypeOK, Goto, Gone, Writing
  <2>2. CASE q = r
    BY <2>2 DEF IInv, TypeOK, Goto, Gone, Writing, ItemWrites, BatchWrites
  <2> QED
    BY <2>1, <2>2
<1> QED
  BY <1>1 DEF Gone

LEMMA GoneRequest ==
  ASSUME IInv, NEW b \in BookIds, Gone(b), NEW r \in Requests, Start(r) \/ Call(r)
  PROVE  Gone(b)'
<1> USE DEF ItemWrites, BatchWrites
<1>1. /\ b \in used /\ b \notin DOMAIN dynamo /\ b \notin DOMAIN pg
      /\ b \notin DOMAIN todo /\ \A q \in Requests : ~Writing(q, b)
  BY DEF Gone
<1>2. /\ pc \in [Requests -> Labels] /\ book \in [Requests -> BookIds \cup {None}]
      /\ batch = [q \in Requests |-> batch[q]]
      /\ pc[r] = "idle" => batch[r] = NoRows
  BY DEF IInv, TypeOK, Bookkeeping
<1>3. CASE Start(r)
  <2>1. /\ UNCHANGED <<dynamo, pg, todo, batch>> /\ pc[r] = "idle"
        /\ used \subseteq used' /\ batch[r] = NoRows
    BY <1>2, <1>3 DEF Start, stores, sync, StartCreate, StartBatchWrite, StartOn
  <2>2. \A q \in Requests \ {r} : pc'[q] = pc[q] /\ book'[q] = book[q]
    BY <1>2, <1>3 DEF Start, StartCreate, StartBatchWrite, StartOn, Goto
  <2>3. ~Writing(r, b)'
    <3>1. CASE StartCreate(r)
      BY <1>1, <1>2, <2>1, <3>1 DEF StartCreate, Goto, Writing
    <3>2. CASE StartBatchWrite(r)
      BY <1>2, <2>1, <3>2, NoRowsTable DEF StartBatchWrite, Goto, Writing
    <3>3. CASE StartOn(r)
      BY <1>2, <3>3 DEF StartOn, Goto, Writing
    <3> QED
      BY <1>3, <3>1, <3>2, <3>3 DEF Start
  <2>4. \A q \in Requests : ~Writing(q, b)'
    BY <1>1, <2>1, <2>2, <2>3 DEF Writing
  <2> QED
    BY <1>1, <2>1, <2>4 DEF Gone
<1>4. ASSUME NEW new, NEW l \in Labels, WriteDynamo(r, new, l), b \notin DOMAIN new,
             l \in ItemWrites => pc[r] \in ItemWrites, l \notin BatchWrites,
             UNCHANGED <<used, book, batch>>
      PROVE  Gone(b)'
  <2>1. Goto(r, l) \/ Goto(r, "error")
    BY <1>4 DEF WriteDynamo
  <2> QED
    BY <1>1, <1>4, <2>1, GoneMoveOn DEF WriteDynamo, sync, Labels, Answered
<1>5. ASSUME NEW new, NEW l \in Labels, WritePg(r, book[r], new, l), b \notin DOMAIN new,
             l \notin ItemWrites, l \notin BatchWrites, UNCHANGED <<used, book, batch>>
      PROVE  Gone(b)'
  <2>1. Goto(r, l) \/ Goto(r, "error")
    BY <1>5 DEF WritePg
  <2> QED
    BY <1>1, <1>5, <2>1, GoneMoveOn DEF WritePg, sync, Labels, Answered
<1>6. CASE PutItem(r)
  <2>1. b # book[r]
    BY <1>1, <1>6 DEF PutItem, Writing
  <2>2. b \notin DOMAIN Put(dynamo, book[r], row[r])
    BY <1>1, <2>1 DEF Put
  <2> QED
    BY <1>4, <1>6, <2>2 DEF PutItem, Labels
<1>7. CASE Get(r)
  <2>1. PICK l \in Labels : Goto(r, l) /\ l \in {AfterGet(r), "error"}
    BY <1>7 DEF Get, Await, AfterGet, Labels, Answered
  <2>2. l \in ItemWrites => book[r] \in DOMAIN dynamo
    BY <1>2, <1>7, <2>1 DEF Get, Await, AfterGet, Goto
  <2>3. l \notin BatchWrites
    BY <2>1 DEF AfterGet
  <2> QED
    BY <1>1, <1>7, <2>1, <2>2, <2>3, GoneMoveOn DEF Get, stores, sync
<1>8. CASE UpdateItem(r)
  <2>1. b # book[r]
    BY <1>1, <1>8 DEF UpdateItem, Writing
  <2>2. \A new : b \notin DOMAIN Put(dynamo, book[r], new)
    BY <1>1, <2>1 DEF Put
  <2>3. CASE \E new : WriteDynamo(r, Put(dynamo, book[r], new), "save")
    BY <1>4, <1>8, <2>2, <2>3 DEF UpdateItem, Labels
  <2>4. CASE Goto(r, "error") /\ UNCHANGED <<stores, sync>>
    BY <1>1, <1>8, <2>4, GoneMoveOn DEF UpdateItem, stores, sync, Labels, Answered
  <2> QED
    BY <1>8, <2>3, <2>4 DEF UpdateItem
<1>9. CASE Increment(r)
  <2>1. b # book[r]
    BY <1>1, <1>9 DEF Increment, Writing
  <2>2. \A new : b \notin DOMAIN Put(dynamo, book[r], new)
    BY <1>1, <2>1 DEF Put
  <2> QED
    BY <1>4, <1>9, <2>2 DEF Increment, Labels
<1>10. CASE DeleteItem(r)
  BY <1>1, <1>4, <1>10 DEF DeleteItem, Drop, Keep, Labels
<1>11. CASE DeleteRow(r)
  BY <1>1, <1>5, <1>11 DEF DeleteRow, Drop, Keep, Labels
<1>12. CASE SaveRow(r)
  <2>1. b # book[r]
    BY <1>1, <1>12 DEF SaveRow, Writing
  <2>2. b \notin DOMAIN Saved(book[r], row[r])
    BY <1>1, <2>1 DEF Saved, Put
  <2>3. CASE CanSave(book[r], row[r])
    BY <1>5, <1>12, <2>2, <2>3 DEF SaveRow, Labels
  <2>4. CASE ~CanSave(book[r], row[r])
    BY <1>1, <1>12, <2>4, GoneMoveOn DEF SaveRow, stores, sync, Labels, Answered
  <2> QED
    BY <2>3, <2>4
<1>13. CASE Log(r)
  BY <1>1, <1>13, GoneMoveOn DEF Log, LogOperation, sync, Labels
<1>14. CASE Publish(r)
  <2>1. Goto(r, "ok") \/ Goto(r, "error")
    BY <1>14 DEF Publish, Await
  <2> QED
    BY <1>1, <1>14, <2>1, GoneMoveOn DEF Publish, stores, sync, Labels, Answered
<1>15. CASE BatchSave(r)
  <2>1. PICK x \in BookIds \ used :
          \E new :
            /\ used' = used \cup {x}
            /\ book' = [book EXCEPT ![r] = x]
            /\ batch' = [batch EXCEPT ![r] = Put(@, x, new)]
            /\ pg' \in {pg, Put(pg, x, new)}
            /\ Goto(r, "logNext") \/ Goto(r, "error")
            /\ UNCHANGED <<dynamo, sync>>
    BY <1>15 DEF BatchSave, WritePg, stores
  <2>2. PICK new :
          /\ batch' = [batch EXCEPT ![r] = Put(@, x, new)]
          /\ pg' \in {pg, Put(pg, x, new)}
    BY <2>1
  <2>3. b # x /\ b \notin DOMAIN Put(batch[r], x, new) /\ b \notin DOMAIN pg'
    BY <1>1, <1>15, <2>2 DEF BatchSave, Put, Writing
  <2>4. \A q \in Requests : ~Writing(q, b)'
    <3>1. ~Writing(r, b)'
      BY <1>2, <2>1, <2>2, <2>3 DEF Writing, Goto
    <3>2. \A q \in Requests \ {r} : ~Writing(q, b)'
      BY <1>1, <1>2, <2>1 DEF Writing, Goto
    <3> QED
      BY <3>1, <3>2
  <2> QED
    BY <1>1, <2>1, <2>3, <2>4 DEF Gone, sync
<1>16. CASE BatchLog(r)
  BY <1>1, <1>16, GoneMoveOn DEF BatchLog, LogOperation, sync, Labels
<1>17. CASE BatchPut(r)
  <2>1. b \notin DOMAIN batch[r]
    BY <1>1, <1>17 DEF BatchPut, Writing
  <2>2. b \notin DOMAIN dynamo'
    BY <1>1, <1>17, <2>1 DEF BatchPut, PutAll
  <2>3. Goto(r, "publish") \/ Goto(r, "error")
    BY <1>17 DEF BatchPut
  <2> QED
    BY <1>1, <1>17, <2>2, <2>3, GoneMoveOn DEF BatchPut, sync, Labels, Answered
<1> QED
  BY <1>3, <1>6, <1>7, <1>8, <1>9, <1>10, <1>11, <1>12, <1>13, <1>14, <1>15,
     <1>16, <1>17 DEF Call

\* The cron job writes only the books it holds, and takes them from a store.
LEMMA GoneSync ==
  ASSUME IInv, NEW b \in BookIds, Gone(b), Sync
  PROVE  Gone(b)'
<1>1. /\ b \in used /\ b \notin DOMAIN dynamo /\ b \notin DOMAIN pg
      /\ b \notin DOMAIN todo /\ \A q \in Requests : ~Writing(q, b)
  BY DEF Gone
<1>2. cron \in {"pgPut", "dynSave"} => b # cur
  BY <1>1 DEF IInv, Bookkeeping
<1>3. UNCHANGED <<used, request>>
  BY DEF Sync, SyncStart, PgFind, PgCompare, PgPut, PgLog, PgHasLog, PgDone, DynScan,
         DynCompare, DynSave, DynDone
<1>4. \A q \in Requests : ~Writing(q, b)'
  BY <1>1, <1>3 DEF Writing, request
<1>5. b \notin DOMAIN dynamo'
  BY <1>1, <1>2 DEF Sync, SyncStart, PgFind, PgCompare, PgPut, PgLog, PgHasLog, PgDone,
         DynScan, DynCompare, DynSave, DynDone, LogOperation, stores, Put
<1>6. b \notin DOMAIN pg'
  BY <1>1, <1>2 DEF Sync, SyncStart, PgFind, PgCompare, PgPut, PgLog, PgHasLog, PgDone,
         DynScan, DynCompare, DynSave, DynDone, LogOperation, stores, Put, Saved
<1>7. b \notin DOMAIN todo'
  BY <1>1, NoRowsTable DEF Sync, SyncStart, PgFind, PgCompare, PgPut, PgLog, PgHasLog,
         PgDone, DynScan, DynCompare, DynSave, DynDone, NextRow, Drop, Keep, Abandoned
<1> QED
  BY <1>1, <1>3, <1>4, <1>5, <1>6, <1>7 DEF Gone

LEMMA GoneAbandoned ==
  ASSUME IInv, NEW b \in BookIds, Gone(b), SyncReject \/ Crash
  PROVE  Gone(b)'
<1>1. UNCHANGED <<stores, used, book, batch>> /\ todo' = NoRows
  BY DEF SyncReject, Crash, request, Abandoned
<1>2. \A q \in Requests : pc'[q] = pc[q] \/ pc'[q] = "lost"
  BY DEF SyncReject, Crash, request, IInv, TypeOK
<1>3. \A q \in Requests : ~Writing(q, b)'
  BY <1>1, <1>2 DEF Writing, Gone
<1> QED
  BY <1>1, <1>3, NoRowsTable DEF Gone, stores

\* No request, no run of the cron job and no fault brings back a book that is
\* in neither store and in nobody's hands.
THEOREM GoneStaysGone == Spec => GoneIsForever
<1>1. ASSUME IInv, [Next]_vars PROVE [\A b \in BookIds : Gone(b) => Gone(b)']_vars
  BY <1>1, GoneRequest, GoneSync, GoneAbandoned DEF Next
<1> QED
  BY <1>1, InductiveInvariant, PTL DEF Spec, GoneIsForever

-----------------------------------------------------------------------------
(***************************************************************************)
(* The cron job makes the stores converge.  SyncConverges speaks of the    *)
(* end of a run only.  What holds on the way, of every book that no        *)
(* request has written since the run read the rows:                        *)
(*   - in the first half, what is still to do is what the table of rows    *)
(*     holds, and what is done has an equal item;                          *)
(*   - in the second half every row has an equal item, what is still to do *)
(*     is an item, and an item of the page that is done with has a row.    *)
(***************************************************************************)
FirstHalf == {"pgNext", "pgPut", "pgLog", "pgHasLog", "pgSkipLog"}

SecondHalf == {"dynScan", "dynNext", "dynSave", "done"}

Agree(b) == b \in DOMAIN dynamo /\ b \in DOMAIN pg /\ dynamo[b] = pg[b]

SyncInv ==
  /\ cron \in FirstHalf =>
       /\ \A b \in DOMAIN todo \ touched : b \in DOMAIN pg /\ pg[b] = todo[b]
       /\ \A b \in DOMAIN pg \ touched : b \in DOMAIN todo \/ Agree(b)
  /\ cron \in {"pgLog", "pgHasLog", "pgSkipLog"} =>
       cur \in touched \/ Agree(cur)
  /\ cron \in SecondHalf =>
       \A b \in DOMAIN pg \ touched : Agree(b)
  /\ cron \in {"dynNext", "dynSave"} =>
       /\ \A b \in DOMAIN todo \ touched : b \in DOMAIN dynamo /\ dynamo[b] = todo[b]
       /\ \A b \in (DOMAIN dynamo \ touched) \ missed :
            b \in DOMAIN todo \/ b \in DOMAIN pg
  /\ cron = "dynSave" => cur \in touched \/ cur \notin DOMAIN pg
  /\ cron = "done" =>
       \A b \in (DOMAIN dynamo \ touched) \ missed : b \in DOMAIN pg

\* b is to the stores what it was.
Kept(b) ==
  /\ b \in DOMAIN dynamo' <=> b \in DOMAIN dynamo
  /\ b \in DOMAIN dynamo => dynamo'[b] = dynamo[b]
  /\ b \in DOMAIN pg' <=> b \in DOMAIN pg
  /\ b \in DOMAIN pg => pg'[b] = pg[b]

Running == cron \notin {"idle", "pgFind"}

\* A request writes only books it touches.
LEMMA RequestKeeps ==
  ASSUME IInv, NEW r \in Requests, Start(r) \/ Call(r), Running
  PROVE  /\ UNCHANGED sync
         /\ touched \subseteq touched'
         /\ \A b : b \notin touched' => Kept(b)
<1> USE DEF Kept
<1>1. ASSUME NEW new, NEW l, WriteDynamo(r, new, l),
             \A b : b # book[r] => /\ b \in DOMAIN new <=> b \in DOMAIN dynamo
                                   /\ b \in DOMAIN dynamo => new[b] = dynamo[b]
      PROVE  /\ UNCHANGED sync
             /\ touched \subseteq touched'
             /\ \A b : b \notin touched' => Kept(b)
  BY <1>1 DEF WriteDynamo, Touch, Running
<1>2. ASSUME NEW new, NEW l, WritePg(r, book[r], new, l),
             \A b : b # book[r] => /\ b \in DOMAIN new <=> b \in DOMAIN pg
                                   /\ b \in DOMAIN pg => new[b] = pg[b]
      PROVE  /\ UNCHANGED sync
             /\ touched \subseteq touched'
             /\ \A b : b \notin touched' => Kept(b)
  BY <1>2 DEF WritePg, Touch, Running
<1>3. \A t, x, new, b :
        b # x => /\ b \in DOMAIN Put(t, x, new) <=> b \in DOMAIN t
                 /\ b \in DOMAIN t => Put(t, x, new)[b] = t[b]
  BY DEF Put
<1>4. \A t, x, b :
        b # x => /\ b \in DOMAIN Drop(t, x) <=> b \in DOMAIN t
                 /\ b \in DOMAIN t => Drop(t, x)[b] = t[b]
  BY DEF Drop, Keep
<1>5. CASE PutItem(r)
  BY <1>1, <1>3, <1>5 DEF PutItem
<1>6. CASE UpdateItem(r)
  <2>1. CASE \E new : WriteDynamo(r, Put(dynamo, book[r], new), "save")
    BY <1>1, <1>3, <2>1
  <2>2. CASE UNCHANGED <<stores, sync, touched>>
    BY <2>2 DEF stores
  <2> QED
    BY <1>6, <2>1, <2>2 DEF UpdateItem
<1>7. CASE Increment(r)
  <2>1. \E new : WriteDynamo(r, Put(dynamo, book[r], new), "save")
    BY <1>7 DEF Increment
  <2> QED
    BY <1>1, <1>3, <2>1
<1>8. CASE DeleteItem(r)
  BY <1>1, <1>4, <1>8 DEF DeleteItem
<1>9. CASE DeleteRow(r)
  BY <1>2, <1>4, <1>9 DEF DeleteRow
<1>10. CASE SaveRow(r)
  <2>1. CASE CanSave(book[r], row[r])
    <3>1. \E l, new : WritePg(r, book[r], Put(pg, book[r], new), l)
      BY <1>10, <2>1 DEF SaveRow, Saved
    <3> QED
      BY <1>2, <1>3, <3>1
  <2>2. CASE ~CanSave(book[r], row[r])
    BY <1>10, <2>2 DEF SaveRow, stores
  <2> QED
    BY <2>1, <2>2
<1>11. CASE BatchSave(r)
  <2>1. CASE UNCHANGED <<stores, sync, touched>>
    BY <2>1 DEF stores
  <2>2. CASE ~UNCHANGED <<stores, sync, touched>>
    <3>1. PICK x \in BookIds : \E new, l : WritePg(r, x, Put(pg, x, new), l)
      BY <1>11, <2>2 DEF BatchSave
    <3>2. x \in touched' /\ touched \subseteq touched'
      BY <3>1 DEF WritePg, Touch, Running
    <3> QED
      BY <1>3, <3>1, <3>2 DEF WritePg
  <2> QED
    BY <2>1, <2>2
<1>12. CASE BatchPut(r)
  <2>1. PICK done \in SUBSET DOMAIN batch[r] : dynamo' = PutAll(dynamo, batch[r], done)
    BY <1>12 DEF BatchPut
  <2>2. done \subseteq touched' /\ touched \subseteq touched'
    BY <1>12, <2>1 DEF BatchPut, Touch, Running
  <2>3. \A b : b \notin done => /\ b \in DOMAIN dynamo' <=> b \in DOMAIN dynamo
                                /\ b \in DOMAIN dynamo => dynamo'[b] = dynamo[b]
    BY <2>1 DEF PutAll
  <2> QED
    BY <1>12, <2>2, <2>3 DEF BatchPut
<1>13. CASE Start(r) \/ Get(r) \/ Log(r) \/ Publish(r) \/ BatchLog(r)
  BY <1>13 DEF Start, Get, Log, Publish, BatchLog, LogOperation, stores
<1> QED
  BY <1>5, <1>6, <1>7, <1>8, <1>9, <1>10, <1>11, <1>12, <1>13 DEF Call

LEMMA SyncInvRequest ==
  ASSUME IInv, SyncInv, NEW r \in Requests, Start(r) \/ Call(r)
  PROVE  SyncInv'
<1>1. CASE Running
  <2>1. /\ UNCHANGED <<cron, todo, cur, missed>>
        /\ touched \subseteq touched'
        /\ \A b : b \notin touched' => Kept(b)
    BY <1>1, RequestKeeps DEF sync
  <2>2. \A b : b \notin touched' => (Agree(b)' <=> Agree(b))
    BY <2>1 DEF Kept, Agree
  <2> QED
    BY <2>1, <2>2 DEF SyncInv, Kept, FirstHalf, SecondHalf
<1>2. CASE ~Running
  <2>1. UNCHANGED sync
    BY DEF Start, Call, PutItem, Get, UpdateItem, Increment, DeleteItem, DeleteRow,
           SaveRow, Log, Publish, BatchSave, BatchLog, BatchPut, WriteDynamo, WritePg
  <2> QED
    BY <1>2, <2>1 DEF SyncInv, Running, sync, FirstHalf, SecondHalf
<1> QED
  BY <1>1, <1>2

LEMMA SyncInvSync ==
  ASSUME IInv, SyncInv, Sync
  PROVE  SyncInv'
<1> USE DEF FirstHalf, SecondHalf
<1>1. cron \in AtRow => cur \in DOMAIN todo
  BY IInvParts DEF SyncOK
<1>2. CASE SyncStart
  BY <1>2 DEF SyncStart, SyncInv
<1>3. CASE PgFind
  BY <1>3 DEF PgFind, SyncInv, stores
<1>4. CASE PgCompare
  <2>1. UNCHANGED <<dynamo, pg, todo, touched>>
    BY <1>4 DEF PgCompare, stores
  <2>2. \A b : Agree(b)' <=> Agree(b)
    BY <2>1 DEF Agree
  <2>3. cron' = "pgHasLog" => cur' \in touched \/ Agree(cur')
    BY <1>4 DEF PgCompare, SameItem, SyncInv, Agree
  <2>4. cron' \in {"pgHasLog", "pgPut"} /\ cron = "pgNext"
    BY <1>4 DEF PgCompare
  <2> QED
    BY <2>1, <2>2, <2>3, <2>4 DEF SyncInv
<1>5. CASE PgPut
  <2>1. /\ cron = "pgPut" /\ cron' = "pgLog" /\ cur \in DOMAIN todo
        /\ UNCHANGED <<pg, todo, cur, touched>>
        /\ dynamo' = Put(dynamo, cur, todo[cur])
    BY <1>1, <1>5 DEF PgPut, AtRow
  <2>2. \A b : Agree(b) /\ b # cur => Agree(b)'
    BY <2>1 DEF Agree, Put
  <2>3. cur \in touched \/ Agree(cur)'
    BY <2>1 DEF SyncInv, Agree, Put
  <2> QED
    BY <2>1, <2>2, <2>3 DEF SyncInv
<1>6. ASSUME NextRow("pgNext"), cron \in {"pgLog", "pgSkipLog", "pgHasLog"},
             UNCHANGED <<dynamo, pg, touched>>
      PROVE  SyncInv'
  <2>1. \A b : Agree(b)' <=> Agree(b)
    BY <1>6 DEF Agree
  <2>2. /\ DOMAIN todo' = DOMAIN todo \ {cur}
        /\ \A b \in DOMAIN todo \ {cur} : todo'[b] = todo[b]
    BY <1>6 DEF NextRow, Drop, Keep
  <2> QED
    BY <1>6, <2>1, <2>2 DEF SyncInv, NextRow
<1>7. CASE PgLog
  BY <1>6, <1>7 DEF PgLog, LogOperation
<1>8. CASE PgHasLog
  <2>1. UNCHANGED <<dynamo, pg, touched>> /\ cron = "pgHasLog"
    BY <1>8 DEF PgHasLog, stores
  <2>2. CASE cron' = "pgSkipLog" /\ UNCHANGED <<todo, cur, missed>>
    <3>1. \A b : Agree(b)' <=> Agree(b)
      BY <2>1 DEF Agree
    <3> QED
      BY <2>1, <2>2, <3>1 DEF SyncInv
  <2> QED
    BY <1>6, <1>8, <2>1, <2>2 DEF PgHasLog
<1>9. CASE PgDone
  <2>1. UNCHANGED <<dynamo, pg, touched>>
    BY <1>9 DEF PgDone, stores
  <2>2. \A b : Agree(b)' <=> Agree(b)
    BY <2>1 DEF Agree
  <2> QED
    BY <1>9, <2>1, <2>2 DEF PgDone, SyncInv
<1>10. CASE DynScan
  <2>1. UNCHANGED <<dynamo, pg, touched>>
    BY <1>10 DEF DynScan, stores
  <2>2. \A b : Agree(b)' <=> Agree(b)
    BY <2>1 DEF Agree
  <2>3. PICK page \in SUBSET DOMAIN dynamo :
          todo' = Keep(dynamo, page) /\ missed' = DOMAIN dynamo \ page
    BY <1>10 DEF DynScan
  <2>4. DOMAIN todo' = page /\ \A b \in page : todo'[b] = dynamo[b]
    BY <2>3 DEF Keep
  <2> QED
    BY <1>10, <2>1, <2>2, <2>3, <2>4 DEF DynScan, SyncInv
<1>11. CASE DynCompare
  <2>1. UNCHANGED <<dynamo, pg, touched, missed>> /\ cron = "dynNext"
    BY <1>11 DEF DynCompare, stores
  <2>2. \A b : Agree(b)' <=> Agree(b)
    BY <2>1 DEF Agree
  <2>3. PICK b \in DOMAIN todo :
          IF SameRow(b)
            THEN todo' = Drop(todo, b) /\ UNCHANGED <<cron, cur>>
            ELSE cron' = "dynSave" /\ cur' = b /\ UNCHANGED todo
    BY <1>11 DEF DynCompare
  <2>4. CASE SameRow(b)
    <3>1. /\ DOMAIN todo' = DOMAIN todo \ {b}
          /\ \A x \in DOMAIN todo \ {b} : todo'[x] = todo[x]
      BY <2>3, <2>4 DEF Drop, Keep
    <3> QED
      BY <2>1, <2>2, <2>3, <2>4, <3>1 DEF SyncInv, SameRow
  <2>5. CASE ~SameRow(b)
    <3>1. b \in touched \/ b \notin DOMAIN pg
      BY <2>1, <2>5 DEF SyncInv, SameRow, Agree
    <3> QED
      BY <2>1, <2>2, <2>3, <2>5, <3>1 DEF SyncInv
  <2> QED
    BY <2>4, <2>5
<1>12. CASE DynSave
  <2>1. cron = "dynSave" /\ cur \in DOMAIN todo /\ UNCHANGED dynamo
    BY <1>1, <1>12 DEF DynSave, AtRow
  <2>2. CASE CanSave(cur, todo[cur])
    <3>1. /\ pg' = Saved(cur, todo[cur]) /\ UNCHANGED <<touched, missed>>
          /\ cron' = "dynNext" /\ todo' = Drop(todo, cur)
      BY <1>12, <2>2 DEF DynSave, NextRow
    <3>2. /\ DOMAIN pg' = DOMAIN pg \cup {cur}
          /\ \A b \in DOMAIN pg \ {cur} : pg'[b] = pg[b]
      BY <3>1 DEF Saved, Put
    <3>3. cur \notin touched => pg'[cur] = todo[cur]
      BY <2>1, <2>2, <3>1 DEF SyncInv, CanSave, Saved, Put
    <3>4. /\ DOMAIN todo' = DOMAIN todo \ {cur}
          /\ \A b \in DOMAIN todo \ {cur} : todo'[b] = todo[b]
      BY <3>1 DEF Drop, Keep
    <3>5. \A b : b = cur /\ b \notin touched => Agree(b)'
      BY <2>1, <3>2, <3>3 DEF SyncInv, Agree
    <3>6. \A b \in DOMAIN pg \ touched : b # cur => Agree(b)'
      BY <2>1, <3>2 DEF SyncInv, Agree
    <3> QED
      BY <2>1, <3>1, <3>2, <3>4, <3>5, <3>6 DEF SyncInv
  <2>3. CASE ~CanSave(cur, todo[cur])
    BY <1>12, <2>3 DEF DynSave, Abandoned, SyncInv
  <2> QED
    BY <2>2, <2>3
<1>13. CASE DynDone
  <2>1. UNCHANGED <<dynamo, pg, touched, missed>>
    BY <1>13 DEF DynDone, stores
  <2>2. \A b : Agree(b)' <=> Agree(b)
    BY <2>1 DEF Agree
  <2> QED
    BY <1>13, <2>1, <2>2 DEF DynDone, SyncInv
<1> QED
  BY <1>2, <1>3, <1>4, <1>5, <1>7, <1>8, <1>9, <1>10, <1>11, <1>12, <1>13 DEF Sync

LEMMA SyncInvariant == Spec => []SyncInv
<1>1. Init => SyncInv
  BY DEF Init, SyncInv, FirstHalf, SecondHalf
<1>2. IInv /\ SyncInv /\ [Next]_vars => SyncInv'
  <2> SUFFICES ASSUME IInv, SyncInv, [Next]_vars PROVE SyncInv'
    OBVIOUS
  <2>1. CASE SyncReject \/ Crash
    BY <2>1 DEF SyncReject, Crash, Abandoned, SyncInv, FirstHalf, SecondHalf
  <2>2. CASE UNCHANGED vars
    <3>1. \A b : Agree(b)' <=> Agree(b)
      BY <2>2 DEF vars, stores, Agree
    <3> QED
      BY <2>2, <3>1 DEF vars, stores, sync, SyncInv
  <2> QED
    BY <2>1, <2>2, SyncInvRequest, SyncInvSync DEF Next
<1> QED
  BY <1>1, <1>2, InductiveInvariant, PTL DEF Spec

\* A run of the cron job that gets to its end leaves the stores equal on
\* every book no request wrote while it ran.
THEOREM SyncMakesEqual == Spec => []SyncConverges
<1>1. SyncInv => SyncConverges
  BY DEF SyncInv, SyncConverges, Agree, SecondHalf
<1> QED
  BY <1>1, SyncInvariant, PTL

\* And while it runs it changes the row of no book but those.
THEOREM SyncRewritesNothing == Spec => SyncKeepsRows
<1> DEFINE RowsKept ==
      \A b \in DOMAIN pg :
        cron \notin {"idle", "pgFind"} /\ b \notin touched' =>
          b \in DOMAIN pg' /\ pg'[b] = pg[b]
<1>1. ASSUME IInv, SyncInv, [Next]_vars PROVE [RowsKept]_vars
  <2>1. ASSUME NEW r \in Requests, Start(r) \/ Call(r) PROVE RowsKept
    BY <1>1, <2>1, RequestKeeps DEF Running, Kept
  <2>2. ASSUME Sync PROVE RowsKept
    <3>1. CASE DynSave
      <4>1. \/ UNCHANGED pg
            \/ pg' = Saved(cur, todo[cur]) /\ UNCHANGED touched
        <5>1. CASE CanSave(cur, todo[cur])
          BY <3>1, <5>1 DEF DynSave
        <5>2. CASE ~CanSave(cur, todo[cur])
          BY <3>1, <5>2 DEF DynSave
        <5> QED
          BY <5>1, <5>2
      <4>2. cur \in touched \/ cur \notin DOMAIN pg
        BY <1>1, <3>1 DEF DynSave, SyncInv
      <4> QED
        BY <4>1, <4>2 DEF Saved, Put
    <3>2. CASE ~DynSave
      BY <2>2, <3>2 DEF Sync, SyncStart, PgFind, PgCompare, PgPut, PgLog, PgHasLog,
         PgDone, DynScan, DynCompare, DynDone, LogOperation, stores
    <3> QED
      BY <3>1, <3>2
  <2>3. ASSUME SyncReject \/ Crash PROVE RowsKept
    BY <2>3 DEF SyncReject, Crash, stores
  <2> QED
    BY <1>1, <2>1, <2>2, <2>3 DEF Next
<1> QED
  BY <1>1, InductiveInvariant, SyncInvariant, PTL DEF Spec, SyncKeepsRows
=============================================================================
