--------------------------- MODULE BookReadsProofs ---------------------------
(***************************************************************************)
(* Theorems about BookReads, for any number of books, requests, logs and   *)
(* faults, and any size of the pages.                                      *)
(***************************************************************************)
EXTENDS BookReads, FiniteSetTheorems, TLAPS

-----------------------------------------------------------------------------
(* The types.                                                              *)

\* Ids are given in the order of the inserts.
NumberedRows == IsFiniteSet(rows) /\ \A x \in rows : x.id \in 1..Cardinality(rows)

TypeInv == TypeOK /\ NumberedRows

\* What an insert does to the rows: at most one more, of a new id.
LEMMA InsertRow ==
  ASSUME TypeInv, NEW b, Insert(b)
  PROVE  /\ rows \subseteq rows'
         /\ rows' \subseteq Row
         /\ \A x, y \in rows' : x.id = y.id => x = y
         /\ clock' \in Int
         /\ NumberedRows'
<1>1. CASE b # whose
  <2>1. UNCHANGED <<rows, clock>>
    BY <1>1 DEF Insert
  <2> QED
    BY <2>1 DEF TypeInv, TypeOK, NumberedRows
<1>2. CASE b = whose
  <2>1. PICK t \in (clock - Skew)..(clock + 1) :
          /\ rows' = rows \cup {[id |-> Cardinality(rows) + 1, time |-> t]}
          /\ clock' = IF t > clock THEN t ELSE clock
    BY <1>2 DEF Insert
  <2> DEFINE new == [id |-> Cardinality(rows) + 1, time |-> t]
  <2>2. clock \in Int /\ Skew \in Nat /\ t \in Int
    BY ReadsAssumption DEF TypeInv, TypeOK
  <2>3. IsFiniteSet(rows) /\ Cardinality(rows) \in Nat
    BY FS_CardinalityType DEF TypeInv, NumberedRows
  <2>4. new \in Row /\ new.id = Cardinality(rows) + 1
    BY <2>2, <2>3 DEF Row
  <2>5. \A x \in rows : x.id \in 1..Cardinality(rows) /\ x # new
    BY <2>3, <2>4 DEF TypeInv, NumberedRows
  <2>6. IsFiniteSet(rows') /\ Cardinality(rows') = Cardinality(rows) + 1
    <3>1. rows' = rows \cup {new} /\ new \notin rows
      BY <2>1, <2>5
    <3> HIDE DEF new
    <3> QED
      BY <2>3, <3>1, FS_AddElement
  <2>7. rows \subseteq rows' /\ rows' \subseteq Row
    BY <2>1, <2>4 DEF TypeInv, TypeOK
  <2>8. \A x \in rows' : x \in rows \/ x = new
    BY <2>1
  <2>9. NumberedRows'
    BY <2>3, <2>4, <2>5, <2>6, <2>8 DEF NumberedRows
  <2>10. \A x, y \in rows' : x.id = y.id => x = y
    <3> SUFFICES ASSUME NEW x \in rows', NEW y \in rows', x.id = y.id
                 PROVE  x = y
      OBVIOUS
    <3>1. x \in rows /\ y \in rows => x = y
      BY DEF TypeInv, TypeOK
    <3>2. \A z \in rows : z.id # new.id
      BY <2>3, <2>4, <2>5
    <3> QED
      BY <2>8, <3>1, <3>2
  <2> QED
    BY <2>1, <2>2, <2>7, <2>9, <2>10
<1> QED
  BY <1>1, <1>2

\* The budget is kept.
LEMMA FaultType ==
  ASSUME faults \in 0..MaxFaults, Fault
  PROVE  faults' \in 0..MaxFaults
  BY ReadsAssumption DEF Fault

\* A request moves to the label it is sent to, or to the one for failures.
LEMMA AwaitMoves ==
  ASSUME TypeOK, NEW r \in Reads, NEW next \in Labels, Await(r, next)
  PROVE  /\ pc' \in [Reads -> Labels]
         /\ pc'[r] \in {next, "error"}
         /\ \A s \in Reads \ {r} : pc'[s] = pc[s]
         /\ faults' \in 0..MaxFaults
<1>1. pc \in [Reads -> Labels] /\ faults \in 0..MaxFaults
  BY DEF TypeOK
<1>2. CASE Goto(r, next) /\ UNCHANGED faults
  BY <1>1, <1>2 DEF Goto
<1>3. CASE Goto(r, "error") /\ Fault
  BY <1>1, <1>3, FaultType DEF Goto, Labels
<1> QED
  BY <1>2, <1>3 DEF Await

\* What the first call of a method leaves.
LEMMA BeginType ==
  ASSUME TypeInv, NEW r \in Reads, NEW m, NEW B \in SUBSET Books, Begin(r, m, B),
         NEW next \in Labels, Await(r, next), next # "findLogs", next = "ok" => B = {}
  PROVE  TypeInv'
<1>1. /\ method' \in [Reads -> Methods \cup {"none"}]
      /\ found' \in [Reads -> SUBSET Books]
      /\ todo' \in [Reads -> SUBSET Books]
      /\ todo'[r] = B /\ \A s \in Reads \ {r} : todo'[s] = todo[s]
  BY DEF Begin, TypeInv, TypeOK
<1>2. UNCHANGED <<items, logs, pager>>
  BY DEF Begin
<1>3. \A s \in Reads : pc'[s] \in {"findLogs", "ok"} => todo'[s] = {}
  BY <1>1, AwaitMoves DEF TypeInv, TypeOK
<1>4. TypeOK
  BY DEF TypeInv
<1>5. pc' \in [Reads -> Labels] /\ faults' \in 0..MaxFaults
  BY <1>4, AwaitMoves
<1>6. TypeOK'
  BY <1>1, <1>2, <1>3, <1>4, <1>5 DEF TypeOK, logs, pager
<1>7. NumberedRows'
  BY <1>2 DEF TypeInv, NumberedRows, logs
<1> QED
  BY <1>6, <1>7 DEF TypeInv

\* A step of a request that has read its items: TypeOK is kept when the rows
\* are, and the request is answered only when nothing is left to log.
LEMMA RequestType ==
  ASSUME TypeInv, NEW r \in Reads, NEW next \in Labels,
         pc' \in [Reads -> Labels], pc'[r] \in {next, "error"},
         \A s \in Reads \ {r} : pc'[s] = pc[s], faults' \in 0..MaxFaults,
         next \in {"findLogs", "ok"} => todo[r] = {},
         UNCHANGED <<items, logs, method, found, todo, pager>>
  PROVE  TypeInv'
<1>1. \A s \in Reads : pc'[s] \in {"findLogs", "ok"} => todo'[s] = {}
  BY DEF TypeInv, TypeOK
<1>2. TypeOK'
  BY <1>1 DEF TypeInv, TypeOK, logs, pager
<1>3. NumberedRows'
  BY DEF TypeInv, NumberedRows, logs
<1> QED
  BY <1>2, <1>3 DEF TypeInv

\* The types survive every call of a request.
LEMMA CallType ==
  ASSUME TypeInv, NEW r \in Reads, Call(r)
  PROVE  TypeInv'
<1>0. TypeOK /\ pc \in [Reads -> Labels] /\ faults \in 0..MaxFaults
  BY DEF TypeInv, TypeOK
<1>1. CASE Scan(r)
  <2>1. PICK B \in SUBSET Books :
          /\ Begin(r, "findAll", B)
          /\ Await(r, IF B = {} THEN "ok" ELSE "publishListed")
    BY <1>0, <1>1 DEF Scan, TypeOK
  <2> QED
    BY <2>1, BeginType DEF Labels
<1>2. CASE Query(r)
  <2>1. CASE \E B \in SUBSET items :
               Begin(r, "findByAuthorAndYear", B) /\ Await(r, AfterFetch(B))
    <3>1. PICK B \in SUBSET Books :
            Begin(r, "findByAuthorAndYear", B) /\ Await(r, AfterFetch(B))
      BY <1>0, <2>1 DEF TypeOK
    <3> QED
      BY <3>1, BeginType DEF Labels, AfterFetch
  <2>2. CASE /\ Begin(r, "findByAuthorAndYear", {})
             /\ Goto(r, "error") /\ UNCHANGED faults
    <3>1. Begin(r, "findByAuthorAndYear", {}) /\ Await(r, "error")
      BY <2>2 DEF Await
    <3> QED
      BY <3>1, BeginType DEF Labels
  <2> QED
    BY <1>2, <2>1, <2>2 DEF Query
<1>3. CASE BatchGet(r)
  <2>1. PICK B \in SUBSET Books : Begin(r, "batchRead", B) /\ Await(r, AfterFetch(B))
    BY <1>0, <1>3 DEF BatchGet, TypeOK
  <2> QED
    BY <2>1, BeginType DEF Labels, AfterFetch
<1>4. CASE Get(r)
  <2>1. PICK b \in Books :
          IF b \in items
            THEN Begin(r, "findOne", {b}) /\ Await(r, "logNext")
            ELSE Begin(r, "findOne", {}) /\ Goto(r, "error") /\ UNCHANGED faults
    BY <1>4 DEF Get
  <2>2. CASE b \in items
    BY <2>1, <2>2, BeginType DEF Labels
  <2>3. CASE b \notin items
    <3>1. Begin(r, "findOne", {}) /\ Await(r, "error")
      BY <2>1, <2>3 DEF Await
    <3> QED
      BY <3>1, BeginType DEF Labels
  <2> QED
    BY <2>2, <2>3
<1>5. CASE LogNext(r)
  <2>1. PICK b \in todo[r] :
          /\ todo' = [todo EXCEPT ![r] = @ \ {b}]
          /\ \/ Insert(b) /\ logged' = logged \cup {<<r, b>>} /\ UNCHANGED faults
             \/ Fault /\ UNCHANGED <<rows, clock, logged>>
    BY <1>5 DEF LogNext
  <2>2. UNCHANGED <<items, whose, method, pc, found, pager>> /\ pc[r] = "logNext"
    BY <1>5 DEF LogNext
  <2>3. b \in Books /\ todo' \in [Reads -> SUBSET Books]
    BY <1>0, <2>1 DEF TypeOK
  <2>4. /\ rows \subseteq rows' /\ rows' \subseteq Row /\ clock' \in Int
        /\ \A x, y \in rows' : x.id = y.id => x = y
        /\ NumberedRows'
    <3>1. CASE Insert(b)
      BY <3>1, InsertRow
    <3>2. CASE UNCHANGED <<rows, clock>>
      BY <3>2 DEF TypeInv, TypeOK, NumberedRows
    <3> QED
      BY <2>1, <3>1, <3>2
  <2>5. logged' \subseteq Reads \X Books /\ faults' \in 0..MaxFaults
    BY <1>0, <2>1, <2>3, FaultType DEF TypeOK
  <2>6. \A s \in Reads : pc'[s] \in {"findLogs", "ok"} => todo'[s] = {}
    BY <1>0, <2>1, <2>2 DEF TypeOK
  <2>7. TypeOK'
    BY <1>0, <2>2, <2>3, <2>4, <2>5, <2>6 DEF TypeOK, pager
  <2> QED
    BY <2>4, <2>7 DEF TypeInv
<1>6. CASE Listed(r)
  <2>1. pc' \in [Reads -> Labels] /\ pc'[r] = "ok" /\ todo[r] = {}
        /\ \A s \in Reads \ {r} : pc'[s] = pc[s]
    BY <1>0, <1>6 DEF Listed, AllLogged, Goto, Labels
  <2> QED
    BY <1>0, <1>6, <2>1, RequestType DEF Listed, Labels
<1>7. CASE PublishSwallowed(r)
  <2>1. faults' \in 0..MaxFaults /\ UNCHANGED <<items, logs, method, found, todo, pager>>
    BY <1>0, <1>7, FaultType DEF PublishSwallowed
  <2>2. PICK next \in {"logNext", "ok"} :
          Goto(r, next) /\ (next = "ok" => todo[r] = {})
    BY <1>7 DEF PublishSwallowed, AllLogged
  <2>3. pc' \in [Reads -> Labels] /\ pc'[r] = next
        /\ \A s \in Reads \ {r} : pc'[s] = pc[s]
    BY <1>0, <2>2 DEF Goto, Labels
  <2> QED
    BY <2>1, <2>2, <2>3, RequestType DEF Labels
<1>8. CASE PublishTwice(r) \/ FindLogs(r)
  <2>1. PICK next \in {"findLogs", "ok"} : Await(r, next) /\ todo[r] = {}
    BY <1>0, <1>8 DEF PublishTwice, AllLogged, FindLogs, TypeOK
  <2>2. UNCHANGED <<items, logs, method, found, todo, pager>>
    BY <1>8 DEF PublishTwice, FindLogs
  <2>3. /\ pc' \in [Reads -> Labels] /\ pc'[r] \in {next, "error"}
        /\ \A s \in Reads \ {r} : pc'[s] = pc[s] 
        /\ faults' \in 0..MaxFaults
    BY <1>0, <2>1, AwaitMoves DEF Labels
  <2> QED
    BY <2>1, <2>2, <2>3, RequestType DEF Labels
<1> QED
  BY <1>1, <1>2, <1>3, <1>4, <1>5, <1>6, <1>7, <1>8 DEF Call

\* And the client's.
LEMMA PagerType ==
  ASSUME TypeInv, Pager
  PROVE  TypeInv'
<1>0. TypeOK /\ offset \in Nat /\ Limit \in Nat /\ faults \in 0..MaxFaults
  BY ReadsAssumption DEF TypeInv, TypeOK
<1>1. UNCHANGED <<items, logs, request>>
  BY DEF Pager, GetForLogs, FindPage, FindPageRejects
<1>2. CASE FindPage
  <2>1. PICK Q \in SUBSET rows :
          /\ seen' = seen \cup Q
          /\ page' = IF Cardinality(Q) = Limit THEN "get" ELSE "done"
          /\ offset' = IF Cardinality(Q) = Limit THEN offset + Limit ELSE offset
    BY <1>2 DEF FindPage
  <2>2. start' \subseteq rows /\ UNCHANGED faults
    BY <1>0, <1>2 DEF FindPage, TypeOK
  <2>3. seen' \subseteq rows /\ offset' \in Nat /\ page' \in {"get", "done"}
    BY <1>0, <2>1 DEF TypeOK
  <2>4. TypeOK'
    BY <1>0, <1>1, <2>2, <2>3 DEF TypeOK, logs, request
  <2> QED
    BY <1>1, <2>4 DEF TypeInv, NumberedRows, logs
<1>3. CASE GetForLogs \/ FindPageRejects
  <2>1. page' \in {"get", "find", "notFound"} /\ faults' \in 0..MaxFaults
    BY <1>0, <1>3, FaultType DEF GetForLogs, FindPageRejects
  <2>2. UNCHANGED <<offset, seen, start>>
    BY <1>3 DEF GetForLogs, FindPageRejects
  <2>3. TypeOK'
    BY <1>0, <1>1, <2>1, <2>2 DEF TypeOK, logs, request
  <2> QED
    BY <1>1, <2>3 DEF TypeInv, NumberedRows, logs
<1> QED
  BY <1>2, <1>3 DEF Pager

\* And the writes.
LEMMA WriteType ==
  ASSUME TypeInv, Write
  PROVE  TypeInv'
<1>1. PICK b \in Books : items' \in {items \cup {b}, items \ {b}} /\ Insert(b)
  BY DEF Write
<1>2. UNCHANGED <<whose, logged, request, pager, faults>>
  BY DEF Write
<1>3. TypeOK'
  BY <1>1, <1>2, InsertRow DEF TypeInv, TypeOK, request, pager
<1> QED
  BY <1>1, <1>3, InsertRow DEF TypeInv

LEMMA TypeInit == ASSUME Init PROVE TypeInv
<1>1. IsFiniteSet(rows)
  BY FS_EmptySet DEF Init
<1>2. TypeOK
  BY ReadsAssumption DEF Init, TypeOK, Labels
<1> QED
  BY <1>1, <1>2 DEF Init, TypeInv, NumberedRows

LEMMA TypeNext == ASSUME TypeInv, [Next]_vars PROVE TypeInv'
<1>1. CASE UNCHANGED vars
  BY <1>1 DEF vars, logs, request, pager, TypeInv, TypeOK, NumberedRows
<1> QED
  BY <1>1, CallType, PagerType, WriteType DEF Next

\* The variables keep their types, logs keep ids of their own, and a request
\* is answered only when it has logged, or tried to log, all it has read.
THEOREM TypeCorrect == Spec => []TypeOK
<1>1. TypeInv => TypeOK
  BY DEF TypeInv
<1> QED
  BY <1>1, TypeInit, TypeNext, PTL DEF Spec

-----------------------------------------------------------------------------
(* The pages.                                                              *)

\* The rows that come before one.
Newer(R, x) == {y \in R : y.time > x.time}

\* A row of no page so far is not skipped by the next one: that page has it,
\* or is full, and all of it, and all it skips, comes before the row.
LEMMA NextPage ==
  ASSUME NEW R, IsFiniteSet(R), R \subseteq Row,
         \A y, z \in R : y.time = z.time => y = z,
         NEW skip \in Nat, NEW take \in Nat, NEW P, IsPage(P, R, skip, take),
         NEW x \in R \ P, Cardinality(Newer(R, x)) >= skip
  PROVE  Cardinality(P) = take /\ Cardinality(Newer(R, x)) >= skip + take
<1>1. PICK K \in SUBSET R :
        /\ Cardinality(K) = AtMost(skip, Cardinality(R))
        /\ NotOlder(K, R \ K)
        /\ P \subseteq R \ K
        /\ Cardinality(P) = AtMost(take, Cardinality(R \ K))
        /\ NotOlder(P, (R \ K) \ P)
  BY DEF IsPage
<1>2. \A y \in R : y.time \in Int
  BY DEF Row
<1>3. /\ IsFiniteSet(K) /\ IsFiniteSet(P) /\ IsFiniteSet(R \ K)
      /\ IsFiniteSet(Newer(R, x)) /\ IsFiniteSet(K \ {x}) /\ IsFiniteSet(K \cup P)
  <2>1. /\ K \in SUBSET R /\ P \in SUBSET R /\ (R \ K) \in SUBSET R
        /\ Newer(R, x) \in SUBSET R /\ (K \ {x}) \in SUBSET R
        /\ (K \cup P) \in SUBSET R
    BY <1>1 DEF Newer
  <2> QED
    BY ONLY <2>1, IsFiniteSet(R), FS_Subset
<1>4. /\ Cardinality(R) \in Nat /\ Cardinality(K) \in Nat /\ Cardinality(P) \in Nat
      /\ Cardinality(R \ K) \in Nat /\ Cardinality(Newer(R, x)) \in Nat
  BY ONLY <1>3, IsFiniteSet(R), FS_CardinalityType
<1>5. x \notin K
  <2> SUFFICES ASSUME x \in K PROVE FALSE
    OBVIOUS
  <2>1. Newer(R, x) \subseteq K \ {x}
    BY <1>1, <1>2 DEF Newer, NotOlder
  <2>2. Cardinality(K \ {x}) = Cardinality(K) - 1
    BY ONLY <1>3, x \in K, FS_RemoveElement
  <2>3. Cardinality(Newer(R, x)) <= Cardinality(K \ {x})
    BY ONLY <1>3, <2>1, FS_Subset
  <2>4. Cardinality(K) <= skip
    BY <1>1, <1>4 DEF AtMost
  <2> QED
    BY <1>4, <2>2, <2>3, <2>4
<1>6. Cardinality(K) = skip
  <2>1. Cardinality(K) # Cardinality(R)
    BY ONLY <1>5, x \in R, K \in SUBSET R, IsFiniteSet(R), FS_Subset
  <2> QED
    BY <1>1, <2>1 DEF AtMost
<1>7. Cardinality(P) = take
  <2>1. P \in SUBSET (R \ K) /\ x \in (R \ K) \ P
    BY <1>1, <1>5
  <2>2. Cardinality(P) # Cardinality(R \ K)
    BY ONLY <1>3, <2>1, FS_Subset
  <2> QED
    BY <1>1, <2>2 DEF AtMost
<1>8. K \cup P \subseteq Newer(R, x)
  BY <1>1, <1>2, <1>5 DEF Newer, NotOlder
<1>9. Cardinality(K \cup P) = skip + take
  <2>1. K \cap P = {}
    BY <1>1
  <2>2. Cardinality(K \cup P) = Cardinality(K) + Cardinality(P) - Cardinality(K \cap P)
    BY ONLY <1>3, FS_Union
  <2> QED
    BY <1>4, <1>6, <1>7, <2>1, <2>2, FS_EmptySet
<1>10. Cardinality(K \cup P) <= Cardinality(Newer(R, x))
  BY ONLY <1>3, <1>8, FS_Subset
<1> QED
  BY <1>4, <1>7, <1>9, <1>10

\* What the client has not seen yet, of what was there when it began, is not
\* before its next page.
PagesAhead ==
  NoTies => \A x \in start \ seen : /\ page # "done"
                                    /\ Cardinality(Newer(rows, x)) >= offset

LEMMA FindPageAhead ==
  ASSUME TypeInv, PagesAhead, FindPage
  PROVE  PagesAhead'
<1> SUFFICES ASSUME NoTies', NEW x \in (start \ seen)'
             PROVE  page' # "done" /\ Cardinality(Newer(rows, x)) >= offset'
  <2>1. rows' = rows
    BY DEF FindPage, logs
  <2> QED
    BY <2>1 DEF PagesAhead
<1>1. PICK Q \in SUBSET rows :
        /\ IsPage(Q, rows, offset, Limit)
        /\ seen' = seen \cup Q
        /\ page' = IF Cardinality(Q) = Limit THEN "get" ELSE "done"
        /\ offset' = IF Cardinality(Q) = Limit THEN offset + Limit ELSE offset
  BY DEF FindPage
<1>2. rows' = rows /\ start' = IF offset = 0 THEN rows ELSE start
  BY DEF FindPage, logs
<1>3. /\ IsFiniteSet(rows) /\ rows \subseteq Row /\ offset \in Nat /\ Limit \in Nat
      /\ start \subseteq rows /\ \A y, z \in rows : y.time = z.time => y = z
  BY <1>2, ReadsAssumption DEF TypeInv, TypeOK, NumberedRows, NoTies
<1>4. x \in rows \ Q
  BY <1>1, <1>2, <1>3
<1>5. Cardinality(Newer(rows, x)) >= offset
  <2>1. CASE offset = 0
    <3>1. Newer(rows, x) \in SUBSET rows
      BY DEF Newer
    <3>2. Cardinality(Newer(rows, x)) \in Nat
      BY ONLY <1>3, <3>1, FS_Subset, FS_CardinalityType
    <3> QED
      BY <2>1, <3>2
  <2>2. CASE offset # 0
    BY <1>1, <1>2, <2>2 DEF PagesAhead, NoTies
  <2> QED
    BY <2>1, <2>2
<1>6. Cardinality(Q) = Limit /\ Cardinality(Newer(rows, x)) >= offset + Limit
  BY ONLY <1>1, <1>3, <1>4, <1>5, NextPage
<1> QED
  BY <1>1, <1>6

\* More rows put no row closer to the first page.
LEMMA MoreRowsAhead ==
  ASSUME TypeInv, NumberedRows', PagesAhead, rows \subseteq rows',
         UNCHANGED <<offset, seen, start>>, page' = "done" => page = "done"
  PROVE  PagesAhead'
<1> SUFFICES ASSUME NoTies', NEW x \in start \ seen
             PROVE  page' # "done" /\ Cardinality(Newer(rows', x)) >= offset
  BY DEF PagesAhead
<1>1. page # "done" /\ Cardinality(Newer(rows, x)) >= offset
  BY DEF NoTies, PagesAhead
<1>2. IsFiniteSet(rows') /\ offset \in Nat
  BY DEF NumberedRows, TypeInv, TypeOK
<1>3. Newer(rows, x) \in SUBSET Newer(rows', x) /\ Newer(rows', x) \in SUBSET rows'
  BY DEF Newer
<1>4. IsFiniteSet(Newer(rows', x))
  BY ONLY <1>2, <1>3, FS_Subset
<1>5. /\ Cardinality(Newer(rows, x)) <= Cardinality(Newer(rows', x))
      /\ IsFiniteSet(Newer(rows, x))
  BY ONLY <1>3, <1>4, FS_Subset
<1>6. Cardinality(Newer(rows, x)) \in Nat /\ Cardinality(Newer(rows', x)) \in Nat
  BY ONLY <1>4, <1>5, FS_CardinalityType
<1> QED
  BY <1>1, <1>2, <1>5, <1>6

LEMMA PagesNext ==
  ASSUME TypeInv, PagesAhead, [Next]_vars
  PROVE  PagesAhead'
<1>0. TypeInv'
  BY TypeNext
<1>1. CASE FindPage
  BY <1>1, FindPageAhead
<1>2. CASE GetForLogs \/ FindPageRejects
  BY <1>0, <1>2, MoreRowsAhead DEF GetForLogs, FindPageRejects, logs, TypeInv
<1>3. CASE Write
  <2>1. rows \subseteq rows' /\ UNCHANGED pager
    BY <1>3, InsertRow DEF Write
  <2> QED
    BY <1>0, <2>1, MoreRowsAhead DEF pager, TypeInv
<1>4. CASE \E r \in Reads : Call(r)
  <2>1. PICK r \in Reads : Call(r)
    BY <1>4
  <2>2. UNCHANGED pager
    BY <2>1 DEF Call, Scan, Query, BatchGet, Get, Begin, LogNext, Listed,
                PublishSwallowed, PublishTwice, FindLogs
  <2>3. rows \subseteq rows'
    <3>1. CASE LogNext(r)
      BY <3>1, InsertRow DEF LogNext
    <3>2. CASE ~LogNext(r)
      BY <2>1, <3>2 DEF Call, Scan, Query, BatchGet, Get, Begin, Listed,
                        PublishSwallowed, PublishTwice, FindLogs, logs
    <3> QED
      BY <3>1, <3>2
  <2> QED
    BY <1>0, <2>2, <2>3, MoreRowsAhead DEF pager, TypeInv
<1>5. CASE UNCHANGED vars
  BY <1>0, <1>5, MoreRowsAhead DEF vars, logs, pager, TypeInv
<1> QED
  BY <1>1, <1>2, <1>3, <1>4, <1>5 DEF Next, Pager

\* A client that pages through the logs of a book to the end has seen all that
\* were there when it began, as long as no two have the same time, whatever is
\* logged meanwhile and however often it has to ask again.
THEOREM PagesComplete == Spec => []PagesMissNothing
<1>1. Init => PagesAhead
  BY DEF Init, PagesAhead
<1>2. TypeInv /\ PagesAhead => PagesMissNothing
  BY DEF PagesAhead, PagesMissNothing
<1> QED
  BY <1>1, <1>2, TypeInit, TypeNext, PagesNext, PTL DEF Spec

-----------------------------------------------------------------------------
(* The logs.                                                               *)

\* Two sets a number bounds, and the next ones: they gain nothing, or one
\* element that is paid for.
Bounded(A, B, n) ==
  /\ IsFiniteSet(A) /\ IsFiniteSet(B)
  /\ Cardinality(A) + Cardinality(B) <= n

LEMMA BoundedSubsets ==
  ASSUME NEW A, NEW B, NEW n \in Nat, Bounded(A, B, n),
         NEW C \in SUBSET A, NEW D \in SUBSET B
  PROVE  Bounded(C, D, n)
<1>1. IsFiniteSet(A) /\ IsFiniteSet(B) /\ Cardinality(A) + Cardinality(B) <= n
  BY DEF Bounded
<1>2. /\ IsFiniteSet(C) /\ IsFiniteSet(D)
      /\ Cardinality(C) <= Cardinality(A) /\ Cardinality(D) <= Cardinality(B)
  BY ONLY <1>1, C \in SUBSET A, D \in SUBSET B, FS_Subset
<1>3. /\ Cardinality(A) \in Nat /\ Cardinality(B) \in Nat
      /\ Cardinality(C) \in Nat /\ Cardinality(D) \in Nat
  BY ONLY <1>1, <1>2, FS_CardinalityType
<1> QED
  BY <1>1, <1>2, <1>3 DEF Bounded

LEMMA BoundedOneMore ==
  ASSUME NEW A, NEW B, NEW n \in Nat, Bounded(A, B, n), NEW x
  PROVE  Bounded(A \cup {x}, B, n + 1) /\ Bounded(A, B \cup {x}, n + 1)
<1>1. IsFiniteSet(A) /\ IsFiniteSet(B) /\ Cardinality(A) + Cardinality(B) <= n
  BY DEF Bounded
<1>2. /\ IsFiniteSet(A \cup {x}) /\ IsFiniteSet(B \cup {x})
      /\ Cardinality(A \cup {x}) \in {Cardinality(A), Cardinality(A) + 1}
      /\ Cardinality(B \cup {x}) \in {Cardinality(B), Cardinality(B) + 1}
  BY ONLY <1>1, FS_AddElement
<1>3. Cardinality(A) \in Nat /\ Cardinality(B) \in Nat
  BY ONLY <1>1, FS_CardinalityType
<1> QED
  BY <1>1, <1>2, <1>3 DEF Bounded

\* What a request has read and is done with, without a log of it; and the
\* requests that have read something and failed.
Lost == {rb \in Reads \X Books : rb[2] \in found[rb[1]] \ todo[rb[1]]} \ logged
Failed == {r \in Reads : pc[r] = "error" /\ found[r] # {}}

\* Every element of either was paid for with a fault.
CountInv ==
  /\ \A r \in Reads : pc[r] = "idle" => found[r] = {}
  /\ \A r \in Reads, b \in Books : <<r, b>> \in logged => b \in found[r]
  /\ \A r \in Reads : todo[r] \subseteq found[r]
  /\ Bounded(Lost, Failed, faults)

\* A step that moves a request on, which may fail for a fault.
LEMMA MoveCounts ==
  ASSUME TypeInv, CountInv, NEW r \in Reads, NEW next \in Labels \ {"idle"},
         Await(r, next), next = "error" => found'[r] = {},
         logged' = logged, Lost' \subseteq Lost,
         \A s \in Reads \ {r} : found'[s] = found[s] /\ todo'[s] = todo[s],
         found[r] \subseteq found'[r], todo'[r] \subseteq found'[r]
  PROVE  CountInv'
<1>1. /\ pc \in [Reads -> Labels] /\ faults \in Nat
  BY DEF TypeInv, TypeOK
<1>2. pc'[r] \in {next, "error"} /\ \A s \in Reads \ {r} : pc'[s] = pc[s]
  BY AwaitMoves DEF TypeInv
<1>3. Bounded(Lost', Failed', faults')
  <2>1. CASE Goto(r, next) /\ UNCHANGED faults
    <3>1. Failed' \subseteq Failed
      BY <1>1, <1>2, <2>1 DEF Failed, Goto
    <3> QED
      BY <1>1, <2>1, <3>1, BoundedSubsets DEF CountInv
  <2>2. CASE Goto(r, "error") /\ Fault
    <3>1. Failed' \subseteq Failed \cup {r}
      BY <1>2 DEF Failed
    <3>2. faults' = faults + 1
      BY <2>2 DEF Fault
    <3>3. Bounded(Lost, Failed \cup {r}, faults')
      BY <1>1, <3>2, BoundedOneMore DEF CountInv
    <3> QED
      BY <1>1, <3>1, <3>2, <3>3, BoundedSubsets
  <2> QED
    BY <2>1, <2>2 DEF Await
<1>4. \A s \in Reads : pc'[s] = "idle" => found'[s] = {}
  BY <1>2 DEF CountInv
<1>5. \A s \in Reads : found[s] \subseteq found'[s] /\ todo'[s] \subseteq found'[s]
  BY DEF CountInv
<1>6. \A s \in Reads, b \in Books : <<s, b>> \in logged' => b \in found'[s]
  BY <1>5 DEF CountInv
<1> QED
  BY <1>3, <1>4, <1>5, <1>6 DEF CountInv

\* The first call of a method.
LEMMA BeginCounts ==
  ASSUME TypeInv, CountInv, NEW r \in Reads, NEW m, NEW B \in SUBSET Books,
         Begin(r, m, B), NEW next \in Labels \ {"idle"}, Await(r, next),
         next = "error" => B = {}
  PROVE  CountInv'
<1>1. /\ found' = [found EXCEPT ![r] = B] /\ todo' = [todo EXCEPT ![r] = B]
      /\ found \in [Reads -> SUBSET Books] /\ todo \in [Reads -> SUBSET Books]
      /\ logged' = logged /\ found[r] = {}
  BY DEF Begin, logs, TypeInv, TypeOK, CountInv
<1>2. Lost' \subseteq Lost
  BY <1>1 DEF Lost
<1> QED
  BY <1>1, <1>2, MoveCounts

\* The calls after it that log nothing.
LEMMA LaterCounts ==
  ASSUME TypeInv, CountInv, NEW r \in Reads, NEW next \in Labels \ {"idle", "error"},
         Await(r, next), UNCHANGED <<logs, found, todo>>
  PROVE  CountInv'
<1>1. Lost' = Lost /\ logged' = logged
  BY DEF Lost, logs
<1> QED
  BY <1>1, MoveCounts DEF CountInv

LEMMA LogCounts ==
  ASSUME TypeInv, CountInv, NEW r \in Reads, LogNext(r)
  PROVE  CountInv'
<1>1. PICK b \in todo[r] :
        /\ todo' = [todo EXCEPT ![r] = @ \ {b}]
        /\ \/ Insert(b) /\ logged' = logged \cup {<<r, b>>} /\ UNCHANGED faults
           \/ Fault /\ UNCHANGED <<rows, clock, logged>>
  BY DEF LogNext
<1>2. UNCHANGED <<pc, found>>
  BY DEF LogNext
<1>3. /\ found \in [Reads -> SUBSET Books] /\ todo \in [Reads -> SUBSET Books]
      /\ faults \in Nat /\ b \in Books /\ b \in found[r]
  BY <1>1 DEF TypeInv, TypeOK, CountInv
<1>4. /\ \A s \in Reads : todo'[s] \subseteq found'[s]
      /\ \A s \in Reads : pc'[s] = "idle" => found'[s] = {}
  BY <1>1, <1>2, <1>3 DEF CountInv
<1>5. Failed' = Failed
  BY <1>2 DEF Failed
<1>6. CASE logged' = logged \cup {<<r, b>>} /\ UNCHANGED faults
  <2>1. Lost' \subseteq Lost
    BY <1>1, <1>2, <1>3, <1>6 DEF Lost
  <2>2. Bounded(Lost', Failed', faults')
    BY <1>3, <1>5, <1>6, <2>1, BoundedSubsets DEF CountInv
  <2>3. \A s \in Reads, c \in Books : <<s, c>> \in logged' => c \in found'[s]
    BY <1>2, <1>3, <1>6 DEF CountInv
  <2> QED
    BY <1>4, <2>2, <2>3 DEF CountInv
<1>7. CASE Fault /\ logged' = logged
  <2>1. Lost' \subseteq Lost \cup {<<r, b>>}
    BY <1>1, <1>2, <1>3, <1>7 DEF Lost
  <2>2. faults' = faults + 1
    BY <1>7 DEF Fault
  <2>3. Bounded(Lost \cup {<<r, b>>}, Failed, faults')
    BY <1>3, <2>2, BoundedOneMore DEF CountInv
  <2>4. Bounded(Lost', Failed', faults')
    BY <1>3, <1>5, <2>1, <2>2, <2>3, BoundedSubsets
  <2> QED
    BY <1>2, <1>4, <1>7, <2>4 DEF CountInv
<1> QED
  BY <1>1, <1>6, <1>7

\* Nothing is logged that was not read, and every fault accounts for one log
\* that is missing, or for one request that fails after it has logged.
THEOREM LogsTellTheReads == Spec => []ReadsAreCounted
<1>1. Init => CountInv
  <2>1. ASSUME Init PROVE Lost = {} /\ Failed = {} /\ faults = 0
    BY <2>1 DEF Init, Lost, Failed
  <2>2. Bounded({}, {}, 0)
    BY FS_EmptySet DEF Bounded
  <2> QED
    BY <2>1, <2>2 DEF Init, CountInv
<1>2. TypeInv /\ CountInv /\ [Next]_vars => CountInv'
  <2> SUFFICES ASSUME TypeInv, CountInv, [Next]_vars PROVE CountInv'
    OBVIOUS
  <2>1. ASSUME NEW r \in Reads, Call(r) PROVE CountInv'
    <3>1. CASE Scan(r)
      <4>1. PICK B \in SUBSET Books :
              /\ Begin(r, "findAll", B)
              /\ Await(r, IF B = {} THEN "ok" ELSE "publishListed")
        BY <3>1 DEF Scan, TypeInv, TypeOK
      <4> QED
        BY <4>1, BeginCounts DEF Labels
    <3>2. CASE Query(r) \/ BatchGet(r)
      <4>1. CASE \E m \in AllMethods, B \in SUBSET items :
                   Begin(r, m, B) /\ Await(r, AfterFetch(B))
        <5>1. PICK m \in AllMethods, B \in SUBSET Books :
                Begin(r, m, B) /\ Await(r, AfterFetch(B))
          BY <4>1 DEF TypeInv, TypeOK
        <5> QED
          BY <5>1, BeginCounts DEF Labels, AfterFetch
      <4>2. CASE /\ Begin(r, "findByAuthorAndYear", {})
                 /\ Goto(r, "error") /\ UNCHANGED faults
        <5>1. Begin(r, "findByAuthorAndYear", {}) /\ Await(r, "error")
          BY <4>2 DEF Await
        <5> QED
          BY <5>1, BeginCounts DEF Labels
      <4> QED
        BY <3>2, <4>1, <4>2 DEF Query, BatchGet, AllMethods
    <3>3. CASE Get(r)
      <4>1. PICK b \in Books :
              IF b \in items
                THEN Begin(r, "findOne", {b}) /\ Await(r, "logNext")
                ELSE Begin(r, "findOne", {}) /\ Goto(r, "error") /\ UNCHANGED faults
        BY <3>3 DEF Get
      <4>2. CASE b \in items
        BY <4>1, <4>2, BeginCounts DEF Labels
      <4>3. CASE b \notin items
        <5>1. Begin(r, "findOne", {}) /\ Await(r, "error")
          BY <4>1, <4>3 DEF Await
        <5> QED
          BY <5>1, BeginCounts DEF Labels
      <4> QED
        BY <4>2, <4>3
    <3>4. CASE LogNext(r)
      BY <3>4, LogCounts
    <3>5. CASE Listed(r)
      <4>1. Await(r, "ok") /\ UNCHANGED <<logs, found, todo>>
        BY <3>5 DEF Listed, Await
      <4> QED
        BY <4>1, LaterCounts DEF Labels
    <3>6. CASE PublishSwallowed(r)
      <4>1. PICK next \in {"logNext", "ok"} : Goto(r, next)
        BY <3>6 DEF PublishSwallowed
      <4>2. UNCHANGED <<logs, found, todo>> /\ (UNCHANGED faults \/ Fault)
        BY <3>6 DEF PublishSwallowed
      <4>3. CASE UNCHANGED faults
        <5>1. Await(r, next)
          BY <4>1, <4>3 DEF Await
        <5> QED
          BY <4>2, <5>1, LaterCounts DEF Labels
      <4>4. CASE Fault
        <5>1. faults \in Nat /\ faults' = faults + 1 /\ pc \in [Reads -> Labels]
          BY <4>4 DEF Fault, TypeInv, TypeOK
        <5>2. Lost' = Lost /\ Failed' \subseteq Failed
          BY <4>1, <4>2, <5>1 DEF Lost, Failed, Goto, logs
        <5>3. Bounded(Lost', Failed', faults)
          BY <5>1, <5>2, BoundedSubsets DEF CountInv
        <5>4. Bounded(Lost', Failed', faults')
          BY <5>1, <5>3, FS_CardinalityType DEF Bounded
        <5>5. \A s \in Reads : pc'[s] = "idle" => pc[s] = "idle"
          BY <4>1, <5>1 DEF Goto
        <5> QED
          BY <4>2, <5>4, <5>5 DEF CountInv, logs
      <4> QED
        BY <4>2, <4>3, <4>4
    <3>7. CASE PublishTwice(r) \/ FindLogs(r)
      <4>1. PICK next \in {"findLogs", "ok"} : Await(r, next)
        BY <3>7 DEF PublishTwice, FindLogs
      <4>2. UNCHANGED <<logs, found, todo>>
        BY <3>7 DEF PublishTwice, FindLogs
      <4> QED
        BY <4>1, <4>2, LaterCounts DEF Labels
    <3> QED
      BY <2>1, <3>1, <3>2, <3>3, <3>4, <3>5, <3>6, <3>7 DEF Call
  <2>2. ASSUME UNCHANGED <<logged, pc, found, todo>>,
               faults' = faults \/ faults' = faults + 1
        PROVE  CountInv'
    <3>1. Lost' = Lost /\ Failed' = Failed /\ faults \in Nat
      BY <2>2 DEF Lost, Failed, TypeInv, TypeOK
    <3>2. Bounded(Lost', Failed', faults')
      BY <2>2, <3>1, FS_CardinalityType DEF CountInv, Bounded
    <3> QED
      BY <2>2, <3>2 DEF CountInv
  <2>3. CASE Pager \/ Write \/ UNCHANGED vars
    BY <2>2, <2>3 DEF Pager, GetForLogs, FindPage, FindPageRejects, Write, Fault,
                      vars, logs, request, pager
  <2> QED
    BY <2>1, <2>3 DEF Next
<1>3. TypeInv /\ CountInv => ReadsAreCounted
  <2> SUFFICES ASSUME TypeInv, CountInv PROVE ReadsAreCounted
    OBVIOUS
  <2>1. Unlogged \subseteq Lost /\ LoggedInVain \subseteq Failed
    BY DEF Unlogged, Lost, LoggedInVain, Failed, TypeInv, TypeOK, CountInv
  <2>2. Bounded(Unlogged, LoggedInVain, faults)
    BY <2>1, BoundedSubsets DEF CountInv, TypeInv, TypeOK
  <2> QED
    BY <2>2 DEF Bounded, ReadsAreCounted
<1> QED
  BY <1>1, <1>2, <1>3, TypeInit, TypeNext, PTL DEF Spec
=============================================================================
