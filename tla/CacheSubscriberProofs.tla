------------------------ MODULE CacheSubscriberProofs ------------------------
(***************************************************************************)
(* Theorems about CacheSubscriber, for any number of events, books, faults *)
(* and whatever the length of the trending list.                           *)
(***************************************************************************)
EXTENDS CacheSubscriber, FiniteSetTheorems, TLAPS

-----------------------------------------------------------------------------
(* The types.                                                              *)

TypeInv ==
  /\ TypeOK
  /\ IsFiniteSet(DOMAIN trending)

\* What Redis holds has its types, and nothing else of the state is in that.
RedisOK ==
  /\ DOMAIN trending \subseteq Books
  /\ trending \in [DOMAIN trending -> Nat]
  /\ IsFiniteSet(DOMAIN trending)
  /\ bookKeys \subseteq Books
  /\ counters \subseteq Books
  /\ eternal \subseteq counters \cup {TrendingKey}
  /\ TrendingKey \in eternal => DOMAIN trending # {}

\* What the handlers are at has its types.
HandlersOK ==
  /\ queue \in Seq(Events)
  /\ kind \in [Events -> Kinds \cup {"none"}]
  /\ about \in [Events -> Books]
  /\ views \in [Events -> 0..MaxViews]
  /\ pc \in [Events -> Labels]
  /\ clock \in Nat /\ faults \in 0..MaxFaults
  /\ last \in [Books -> Kinds \cup {"none"}]

LEMMA TypeParts == TypeInv <=> RedisOK /\ HandlersOK
  BY DEF TypeInv, TypeOK, RedisOK, HandlersOK

LEMMA MoveOK ==
  ASSUME HandlersOK, NEW e \in Events, NEW label \in Labels, Goto(e, label)
  PROVE  pc' \in [Events -> Labels]
  BY DEF HandlersOK, Goto

LEMMA FaultOK ==
  ASSUME HandlersOK, UNCHANGED faults \/ Fault
  PROVE  faults' \in 0..MaxFaults
  BY SubscriberAssumption DEF HandlersOK, Fault

LEMMA ZAddOK ==
  ASSUME RedisOK, NEW b \in Books, NEW score \in Nat, ZAdd(b, score), UNCHANGED <<bookKeys, counters>>
  PROVE  RedisOK'
<1>1. trending' = [x \in DOMAIN trending \cup {b} |-> IF x = b THEN score ELSE trending[x]]
  BY DEF ZAdd, Put
<1>2. /\ DOMAIN trending' = DOMAIN trending \cup {b}
      /\ trending' \in [DOMAIN trending' -> Nat]
  BY <1>1 DEF RedisOK
<1>3. IsFiniteSet(DOMAIN trending')
  BY <1>2, FS_AddElement DEF RedisOK
<1>4. eternal' \subseteq counters' \cup {TrendingKey}
  BY DEF RedisOK, ZAdd
<1> QED
  BY <1>2, <1>3, <1>4 DEF RedisOK

\* Members are removed, but not all of them when the list has no time to live.
LEMMA KeepOK ==
  ASSUME RedisOK, NEW B, trending' = Keep(trending, B), UNCHANGED <<bookKeys, counters>>,
         eternal' \subseteq eternal,
         TrendingKey \in eternal' => DOMAIN trending' # {}
  PROVE  RedisOK'
<1>1. trending' = [x \in DOMAIN trending \cap B |-> trending[x]]
  BY DEF Keep
<1>2. /\ DOMAIN trending' = DOMAIN trending \cap B
      /\ trending' \in [DOMAIN trending' -> Nat]
  BY <1>1 DEF RedisOK
<1>3. IsFiniteSet(DOMAIN trending')
  BY <1>2, FS_Subset DEF RedisOK
<1> QED
  BY <1>2, <1>3 DEF RedisOK

\* What the trim leaves: no more than Cap, and nothing only of nothing.
LEMMA BestOf ==
  ASSUME RedisOK, NEW B, Best(trending, B)
  PROVE  /\ IsFiniteSet(B) /\ Cardinality(B) <= Cap
         /\ DOMAIN Keep(trending, B) = B
         /\ DOMAIN trending # {} => B # {}
<1>1. B \subseteq DOMAIN trending /\ IsFiniteSet(B) /\ Cardinality(B) \in Nat
      /\ Cardinality(DOMAIN trending) \in Nat
  BY FS_Subset, FS_CardinalityType DEF Best, RedisOK
<1>2. Cardinality(B) <= Cap
  BY <1>1, SubscriberAssumption DEF Best
<1>3. DOMAIN trending # {} => Cardinality(B) # 0
  <2>1. DOMAIN trending # {} => Cardinality(DOMAIN trending) # 0
    BY FS_EmptySet DEF RedisOK
  <2> QED
    BY <1>1, <2>1, SubscriberAssumption DEF Best
<1> QED
  BY <1>1, <1>2, <1>3, FS_EmptySet DEF Keep

LEMMA TypeInit == ASSUME Init PROVE TypeInv
<1>1. about \in [Events -> Books]
  BY SubscriberAssumption DEF Init
<1>2. trending = [b \in {} |-> 0] /\ DOMAIN trending = {} /\ IsFiniteSet(DOMAIN trending)
  BY FS_EmptySet DEF Init
<1>3. RedisOK
  BY <1>2 DEF Init, RedisOK
<1>4. HandlersOK
  <2>1. queue \in Seq(Events) /\ clock \in Nat /\ faults \in 0..MaxFaults
    BY SubscriberAssumption DEF Init
  <2>2. /\ kind \in [Events -> Kinds \cup {"none"}]
        /\ views \in [Events -> 0..MaxViews] /\ pc \in [Events -> Labels]
        /\ last \in [Books -> Kinds \cup {"none"}]
    BY SubscriberAssumption DEF Init, Labels
  <2> QED
    BY <1>1, <2>1, <2>2 DEF HandlersOK
<1> QED
  BY <1>3, <1>4, TypeParts

LEMMA TypePublish ==
  ASSUME TypeInv, NEW e \in Events, Publish(e)
  PROVE  TypeInv'
<1>1. RedisOK /\ HandlersOK
  BY TypeParts
<1>2. PICK k \in Kinds, b \in Books, v \in 1..MaxViews :
        /\ kind' = [kind EXCEPT ![e] = k]
        /\ about' = [about EXCEPT ![e] = b]
        /\ views' = [views EXCEPT ![e] = v]
        /\ last' = [last EXCEPT ![b] = k]
  BY DEF Publish
<1>3. queue' \in Seq(Events) /\ pc' \in [Events -> Labels]
  BY <1>1, MoveOK DEF Publish, HandlersOK, Labels
<1>4. HandlersOK'
  <2>1. UNCHANGED <<clock, faults>>
    BY DEF Publish
  <2>2. kind' \in [Events -> Kinds \cup {"none"}] /\ about' \in [Events -> Books]
    BY <1>1, <1>2 DEF HandlersOK
  <2>3. views' \in [Events -> 0..MaxViews]
    BY <1>1, <1>2, SubscriberAssumption DEF HandlersOK
  <2>4. last' \in [Books -> Kinds \cup {"none"}]
    BY <1>1, <1>2 DEF HandlersOK
  <2> QED
    BY <1>1, <1>3, <2>1, <2>2, <2>3, <2>4 DEF HandlersOK
<1>5. RedisOK'
  BY <1>1 DEF RedisOK, Publish, redis
<1> QED
  BY <1>4, <1>5, TypeParts DEF TypeInv, TypeOK, RedisOK, HandlersOK

LEMMA TypeDeliver == ASSUME TypeInv, Deliver PROVE TypeInv'
<1> DEFINE e == Head(queue)
<1>1. RedisOK /\ HandlersOK
  BY TypeParts
<1>2. /\ e \in Events /\ queue' \in Seq(Events) /\ clock' \in Nat
      /\ HandleEvent(e) /\ UNCHANGED <<kind, about, views, last>>
      /\ about[e] \in Books
  BY <1>1 DEF Deliver, HandlersOK, event
<1> HIDE DEF e
<1>3. pc' \in [Events -> Labels] /\ faults' \in 0..MaxFaults
  <2>1. \E label \in Labels : Goto(e, label)
    BY <1>2 DEF HandleEvent, HandleViewEvent, HandleViewsUpdated, HandleBookCreated,
                HandleBookUpdated, HandleBookDeleted, HandleBatchCreated, HandleSyncCompleted,
                Labels
  <2>2. UNCHANGED faults \/ Fault
    BY <1>2 DEF HandleEvent, HandleViewEvent, HandleViewsUpdated, HandleBookCreated,
                HandleBookUpdated, HandleBookDeleted, HandleBatchCreated, HandleSyncCompleted
  <2> QED
    BY <1>1, <1>2, <2>1, <2>2, MoveOK, FaultOK
<1>4. RedisOK'
  <2>1. CASE HandleViewEvent(e)
    <3>1. UNCHANGED <<bookKeys, counters>>
      BY <2>1 DEF HandleViewEvent
    <3>2. ZAdd(about[e], MaxViews + clock) \/ UNCHANGED <<trending, eternal>>
      BY <2>1 DEF HandleViewEvent
    <3>3. MaxViews + clock \in Nat
      BY <1>1, SubscriberAssumption DEF HandlersOK
    <3> QED
      BY <1>1, <1>2, <3>1, <3>2, <3>3, ZAddOK DEF RedisOK
  <2>2. CASE HandleViewsUpdated(e)
    BY <1>1, <2>2 DEF HandleViewsUpdated, RedisOK
  <2>3. CASE HandleBookCreated(e) \/ HandleBatchCreated(e)
    BY <1>1, <2>3 DEF HandleBookCreated, HandleBatchCreated, RedisOK, redis
  <2>4. CASE HandleBookUpdated(e) \/ HandleBookDeleted(e) \/ HandleSyncCompleted(e)
    BY <1>1, <2>4 DEF HandleBookUpdated, HandleBookDeleted, HandleSyncCompleted, RedisOK,
                      DeletePattern, ScanKeys
  <2> QED
    BY <1>2, <2>1, <2>2, <2>3, <2>4 DEF HandleEvent
<1> QED
  BY <1>1, <1>2, <1>3, <1>4, TypeParts DEF TypeInv, TypeOK, RedisOK, HandlersOK

LEMMA TypeHandle ==
  ASSUME TypeInv, NEW e \in Events, Handle(e)
  PROVE  TypeInv'
<1>1. RedisOK /\ HandlersOK /\ about[e] \in Books /\ views[e] \in Nat
  BY TypeParts, SubscriberAssumption DEF HandlersOK
<1>2. UNCHANGED <<queue, event, clock, last>>
  BY DEF Handle, SetBook, ZRem, ZAddViews, Trim, ExpireTrending, HIncrBy, Ttl, Expire
<1>3. pc' \in [Events -> Labels] /\ faults' \in 0..MaxFaults
  <2>1. \E label \in Labels : Goto(e, label)
    BY DEF Handle, SetBook, ZRem, ZAddViews, Trim, ExpireTrending, HIncrBy, Ttl, Expire,
           AfterTrending, Labels
  <2>2. UNCHANGED faults \/ Fault
    BY DEF Handle, SetBook, ZRem, ZAddViews, Trim, ExpireTrending, HIncrBy, Ttl, Expire
  <2> QED
    BY <1>1, <2>1, <2>2, MoveOK, FaultOK
<1>4. RedisOK'
  <2>1. CASE SetBook(e)
    BY <1>1, <2>1 DEF SetBook, RedisOK
  <2>2. CASE ZRem(e)
    <3>1. /\ UNCHANGED <<bookKeys, counters>>
          /\ eternal' = IF DOMAIN trending' = {} THEN eternal \ {TrendingKey} ELSE eternal
      BY <2>2 DEF ZRem
    <3>2. CASE trending' = Keep(trending, Books \ {about[e]})
      BY <1>1, <3>1, <3>2, KeepOK
    <3>3. CASE trending' = trending
      BY <1>1, <3>1, <3>3 DEF RedisOK
    <3> QED
      BY <2>2, <3>2, <3>3 DEF ZRem
  <2>3. CASE ZAddViews(e)
    <3>1. /\ UNCHANGED <<bookKeys, counters>>
          /\ ZAdd(about[e], views[e]) \/ UNCHANGED <<trending, eternal>>
      BY <2>3 DEF ZAddViews
    <3> QED
      BY <1>1, <3>1, ZAddOK DEF RedisOK
  <2>4. CASE Trim(e)
    <3>1. UNCHANGED <<bookKeys, counters, eternal>>
      BY <2>4 DEF Trim
    <3>2. CASE \E B \in SUBSET DOMAIN trending :
                 Best(trending, B) /\ trending' = Keep(trending, B)
      BY <1>1, <3>1, <3>2, KeepOK, BestOf DEF RedisOK
    <3>3. CASE trending' = trending
      BY <1>1, <3>1, <3>3 DEF RedisOK
    <3> QED
      BY <2>4, <3>2, <3>3 DEF Trim
  <2>5. CASE ExpireTrending(e) \/ Expire(e) \/ Ttl(e)
    BY <1>1, <2>5, SubscriberAssumption DEF ExpireTrending, Expire, Ttl, RedisOK, redis
  <2>6. CASE HIncrBy(e)
    BY <1>1, <2>6, SubscriberAssumption DEF HIncrBy, RedisOK
  <2> QED
    BY <2>1, <2>2, <2>3, <2>4, <2>5, <2>6 DEF Handle
<1> QED
  BY <1>1, <1>2, <1>3, <1>4, TypeParts DEF event, TypeInv, TypeOK, RedisOK, HandlersOK

LEMMA TypeTimeout == ASSUME TypeInv, Timeout PROVE TypeInv'
<1>1. RedisOK /\ HandlersOK
  BY TypeParts
<1>2. UNCHANGED <<queue, event, pc, eternal, clock, faults, last>>
  BY DEF Timeout
<1>3. RedisOK'
  <2>1. CASE TrendingKey \notin eternal /\ trending' = Keep(trending, {})
             /\ UNCHANGED <<bookKeys, counters>>
    BY <1>1, <1>2, <2>1, KeepOK
  <2>2. CASE \E b \in bookKeys : bookKeys' = bookKeys \ {b} /\ UNCHANGED <<trending, counters>>
    BY <1>1, <1>2, <2>2 DEF RedisOK
  <2>3. CASE \E b \in counters \ eternal :
               counters' = counters \ {b} /\ UNCHANGED <<trending, bookKeys>>
    BY <1>1, <1>2, <2>3 DEF RedisOK
  <2> QED
    BY <2>1, <2>2, <2>3 DEF Timeout
<1> QED
  BY <1>1, <1>2, <1>3, TypeParts DEF event, TypeInv, TypeOK, RedisOK, HandlersOK

LEMMA TypeNext == ASSUME TypeInv, [Next]_vars PROVE TypeInv'
<1>1. CASE UNCHANGED vars
  BY <1>1 DEF vars, event, redis, TypeInv, TypeOK
<1>2. CASE Next
  BY <1>2, TypePublish, TypeDeliver, TypeHandle, TypeTimeout DEF Next
<1> QED
  BY <1>1, <1>2

\* What Redis holds and what the handlers are at has its types; the trending
\* list has members whenever it is among the keys without a time to live.
THEOREM TypeCorrect == Spec => []TypeOK
<1>1. TypeInv => TypeOK
  BY DEF TypeInv
<1> QED
  BY <1>1, TypeInit, TypeNext, PTL DEF Spec

-----------------------------------------------------------------------------
(* What the handlers are at.  The steps of the proofs below are of three   *)
(* kinds: an event is published, the first of the queue is delivered, or a *)
(* handler that was delivered goes on.                                     *)

ControlInv ==
  /\ \A i \in 1..Len(queue) : pc[queue[i]] = "sent"
  /\ \A i, j \in 1..Len(queue) : queue[i] = queue[j] => i = j
  /\ \A e \in Events : pc[e] = "none" => kind[e] = "none"
  /\ \A e \in Events : pc[e] = "zadd" => kind[e] = "VIEWS_UPDATED"

LEMMA Published ==
  ASSUME TypeInv, ControlInv, NEW e \in Events, Publish(e)
  PROVE  /\ pc[e] = "none" /\ kind[e] = "none"
         /\ pc' = [pc EXCEPT ![e] = "sent"]
         /\ Len(queue') = Len(queue) + 1 /\ queue'[Len(queue) + 1] = e
         /\ \A i \in 1..Len(queue) : queue'[i] = queue[i] /\ queue[i] \in Events \ {e}
         /\ \A x \in Events \ {e} : /\ pc'[x] = pc[x] /\ kind'[x] = kind[x]
                                    /\ about'[x] = about[x]
         /\ UNCHANGED <<trending, bookKeys, counters, eternal, faults>>
<1>1. queue \in Seq(Events) /\ kind \in [Events -> Kinds \cup {"none"}]
      /\ about \in [Events -> Books] /\ pc \in [Events -> Labels]
  BY DEF TypeInv, TypeOK
<1>2. pc[e] = "none" /\ kind[e] = "none" /\ pc' = [pc EXCEPT ![e] = "sent"]
  BY DEF Publish, Goto, ControlInv
<1>3. queue' = Append(queue, e)
  BY DEF Publish
<1>4. \A i \in 1..Len(queue) : queue[i] \in Events \ {e}
  BY <1>1, <1>2 DEF ControlInv
<1>5. \A x \in Events \ {e} : kind'[x] = kind[x] /\ about'[x] = about[x]
  BY <1>1 DEF Publish
<1> QED
  BY <1>1, <1>2, <1>3, <1>4, <1>5 DEF Publish, redis

LEMMA Delivered ==
  ASSUME TypeInv, ControlInv, Deliver
  PROVE  /\ Head(queue) \in Events /\ Head(queue) = queue[1] /\ Len(queue) >= 1
         /\ pc[Head(queue)] = "sent" /\ HandleEvent(Head(queue))
         /\ Len(queue') = Len(queue) - 1
         /\ \A i \in 1..Len(queue') : /\ queue'[i] = queue[i + 1] /\ queue[i + 1] \in Events
                                      /\ queue[i + 1] # Head(queue)
         /\ UNCHANGED <<kind, about, last>>
<1>1. queue \in Seq(Events) /\ queue # <<>> /\ queue' = Tail(queue)
  BY DEF TypeInv, TypeOK, Deliver
<1>2. /\ Head(queue) \in Events /\ Head(queue) = queue[1] /\ Len(queue) \in Nat /\ Len(queue) >= 1
      /\ Len(queue') = Len(queue) - 1
      /\ \A i \in 1..Len(queue') : queue'[i] = queue[i + 1] /\ i + 1 \in 1..Len(queue)
                                   /\ queue[i + 1] \in Events
  BY <1>1
<1>3. \A i \in 1..Len(queue') : queue[i + 1] # Head(queue)
  BY <1>2 DEF ControlInv
<1>4. pc[Head(queue)] = "sent"
  BY <1>2 DEF ControlInv
<1> QED
  BY <1>2, <1>3, <1>4 DEF Deliver, event

LEMMA Handled ==
  ASSUME TypeInv, ControlInv, NEW e \in Events, Handle(e)
  PROVE  /\ pc[e] \in Labels \ {"none", "sent", "done"}
         /\ \A i \in 1..Len(queue) : queue[i] \in Events \ {e}
         /\ UNCHANGED <<queue, kind, about, last>>
         /\ \E label \in Labels \ {"none", "sent", "zadd"} : Goto(e, label)
<1>1. queue \in Seq(Events) /\ pc \in [Events -> Labels]
  BY DEF TypeInv, TypeOK
<1>2. pc[e] \in Labels \ {"none", "sent", "done"}
  BY DEF Handle, SetBook, ZRem, ZAddViews, Trim, ExpireTrending, HIncrBy, Ttl, Expire, Labels
<1>3. UNCHANGED <<queue, kind, about, last>>
  BY DEF Handle, SetBook, ZRem, ZAddViews, Trim, ExpireTrending, HIncrBy, Ttl, Expire, event
<1>4. \E label \in Labels \ {"none", "sent", "zadd"} : Goto(e, label)
  BY DEF Handle, SetBook, ZRem, ZAddViews, Trim, ExpireTrending, HIncrBy, Ttl, Expire,
         AfterTrending, Labels
<1>5. \A i \in 1..Len(queue) : queue[i] \in Events \ {e}
  BY <1>1, <1>2 DEF ControlInv
<1> QED
  BY <1>2, <1>3, <1>4, <1>5

LEMMA ControlNext == ASSUME TypeInv, ControlInv, [Next]_vars PROVE ControlInv'
<1>1. /\ queue \in Seq(Events) /\ kind \in [Events -> Kinds \cup {"none"}]
      /\ pc \in [Events -> Labels]
  BY DEF TypeInv, TypeOK
<1>2. ASSUME NEW e \in Events, Publish(e) PROVE ControlInv'
  <2>1. Len(queue) \in Nat
    BY <1>1
  <2>2. pc'[e] = "sent"
    BY <1>1, <1>2, Published
  <2>3. \A i \in 1..Len(queue') : i \in 1..Len(queue) \/ (i = Len(queue) + 1 /\ queue'[i] = e)
    BY <1>2, <2>1, Published
  <2>4. \A i \in 1..Len(queue) : queue'[i] = queue[i] /\ queue[i] \in Events \ {e}
    BY <1>2, Published
  <2>5. \A i \in 1..Len(queue') : pc'[queue'[i]] = "sent"
    <3>1. \A x \in Events \ {e} : pc'[x] = pc[x]
      BY <1>2, Published
    <3> QED
      BY <2>2, <2>3, <2>4, <3>1 DEF ControlInv
  <2>6. \A i, j \in 1..Len(queue') : queue'[i] = queue'[j] => i = j
    BY <2>3, <2>4 DEF ControlInv
  <2>7. \A x \in Events : /\ pc'[x] = "none" => kind'[x] = "none"
                          /\ pc'[x] = "zadd" => kind'[x] = "VIEWS_UPDATED"
    BY <1>2, <2>2, Published DEF ControlInv
  <2> QED
    BY <2>5, <2>6, <2>7 DEF ControlInv
<1>3. CASE Deliver
  <2> DEFINE e == Head(queue)
  <2>1. e \in Events /\ HandleEvent(e) /\ UNCHANGED kind
    BY <1>3, Delivered
  <2>2. /\ Len(queue) \in Nat /\ Len(queue') = Len(queue) - 1
        /\ \A i \in 1..Len(queue') : queue'[i] = queue[i + 1] /\ queue[i + 1] \in Events \ {e}
    BY <1>1, <1>3, Delivered
  <2> HIDE DEF e
  <2>3. \E label \in Labels \ {"none"} :
          Goto(e, label) /\ (label = "zadd" => kind[e] = "VIEWS_UPDATED")
    BY <2>1 DEF HandleEvent, HandleViewEvent, HandleViewsUpdated, HandleBookCreated,
                HandleBookUpdated, HandleBookDeleted, HandleBatchCreated, HandleSyncCompleted,
                Labels
  <2>4. /\ \A x \in Events \ {e} : pc'[x] = pc[x]
        /\ pc'[e] # "none" /\ (pc'[e] = "zadd" => kind[e] = "VIEWS_UPDATED")
    BY <1>1, <2>1, <2>3 DEF Goto
  <2>5. \A i \in 1..Len(queue') : pc'[queue'[i]] = "sent"
    BY <2>2, <2>4 DEF ControlInv
  <2>6. \A i, j \in 1..Len(queue') : queue'[i] = queue'[j] => i = j
    BY <2>2 DEF ControlInv
  <2>7. \A x \in Events : /\ pc'[x] = "none" => kind'[x] = "none"
                          /\ pc'[x] = "zadd" => kind'[x] = "VIEWS_UPDATED"
    BY <2>1, <2>4 DEF ControlInv
  <2> QED
    BY <2>5, <2>6, <2>7 DEF ControlInv
<1>4. ASSUME NEW e \in Events, Handle(e) PROVE ControlInv'
  <2>1. /\ UNCHANGED <<queue, kind>> /\ \A i \in 1..Len(queue) : queue[i] \in Events \ {e}
        /\ \E label \in Labels \ {"none", "sent", "zadd"} : Goto(e, label)
    BY <1>4, Handled
  <2>2. pc'[e] \notin {"none", "zadd"} /\ \A x \in Events \ {e} : pc'[x] = pc[x]
    BY <1>1, <2>1 DEF Goto
  <2> QED
    BY <2>1, <2>2 DEF ControlInv
<1>5. CASE Timeout
  BY <1>5 DEF Timeout, event, ControlInv
<1>6. CASE UNCHANGED vars
  BY <1>6 DEF vars, event, ControlInv
<1> QED
  BY <1>2, <1>3, <1>4, <1>5, <1>6 DEF Next

LEMMA ControlInit == ASSUME Init PROVE ControlInv
  BY DEF Init, ControlInv

-----------------------------------------------------------------------------
(* Keys without a time to live.                                            *)

LEMMA ExpiresPublish ==
  ASSUME TypeInv, ControlInv, EveryKeyExpires, NEW e \in Events, Publish(e)
  PROVE  EveryKeyExpires'
<1>1. /\ pc[e] = "none" /\ UNCHANGED <<eternal, faults>>
      /\ \A x \in Events \ {e} : pc'[x] = pc[x] /\ about'[x] = about[x]
  BY Published
<1>2. \A x \in At({"ttl", "expire"}) : x \in At({"ttl", "expire"})' /\ about'[x] = about[x]
  BY <1>1 DEF At
<1>3. At({"trim", "expireTrending"}) \subseteq At({"trim", "expireTrending"})'
  BY <1>1 DEF At
<1> QED
  BY <1>1, <1>2, <1>3 DEF EveryKeyExpires

LEMMA ExpiresDeliver ==
  ASSUME TypeInv, ControlInv, EveryKeyExpires, Deliver
  PROVE  EveryKeyExpires'
<1> DEFINE e == Head(queue)
<1>1. e \in Events /\ pc[e] = "sent" /\ HandleEvent(e) /\ UNCHANGED about
  BY Delivered
<1> HIDE DEF e
<1>2. faults \in Nat /\ pc \in [Events -> Labels] /\ MaxFaults \in Nat
  BY SubscriberAssumption DEF TypeInv, TypeOK
<1>3. \A x \in Events \ {e} : pc'[x] = pc[x]
  BY <1>1, <1>2 DEF HandleEvent, HandleViewEvent, HandleViewsUpdated, HandleBookCreated,
              HandleBookUpdated, HandleBookDeleted, HandleBatchCreated, HandleSyncCompleted, Goto
<1>4. \A x \in At({"ttl", "expire"}) : x \in At({"ttl", "expire"})' /\ about'[x] = about[x]
  BY <1>1, <1>3 DEF At
<1>5. At({"trim", "expireTrending"}) \subseteq At({"trim", "expireTrending"})'
  BY <1>1, <1>3 DEF At
<1>6. CASE HandleViewEvent(e)
  <2>1. CASE ZAdd(about[e], MaxViews + clock) /\ Goto(e, "trim") /\ UNCHANGED faults
    <3>1. e \in At({"trim", "expireTrending"})'
      BY <1>1, <1>2, <2>1 DEF At, Goto
    <3>2. eternal' \subseteq eternal \cup {TrendingKey}
      BY <2>1 DEF ZAdd
    <3> QED
      BY <2>1, <3>1, <3>2, <1>4 DEF EveryKeyExpires
  <2>2. CASE Fault
    BY <1>2, <2>2 DEF Fault, EveryKeyExpires
  <2> QED
    BY <1>6, <2>1, <2>2 DEF HandleViewEvent
<1>7. CASE ~HandleViewEvent(e)
  <2>1. UNCHANGED eternal
    BY <1>1, <1>7 DEF HandleEvent, HandleViewsUpdated, HandleBookCreated, HandleBookUpdated,
                HandleBookDeleted, HandleBatchCreated, HandleSyncCompleted, redis
  <2>2. UNCHANGED faults \/ Fault
    BY <1>1, <1>7 DEF HandleEvent, HandleViewsUpdated, HandleBookCreated, HandleBookUpdated,
                HandleBookDeleted, HandleBatchCreated, HandleSyncCompleted
  <2>3. faults' = 0 => faults = 0
    BY <1>2, <2>2 DEF Fault
  <2> QED
    BY <2>1, <2>3, <1>4, <1>5 DEF EveryKeyExpires
<1> QED
  BY <1>6, <1>7

LEMMA ExpiresHandle ==
  ASSUME TypeInv, ControlInv, EveryKeyExpires, NEW e \in Events, Handle(e)
  PROVE  EveryKeyExpires'
<1>1. /\ UNCHANGED about /\ about[e] \in Books /\ about[e] # TrendingKey
      /\ faults \in Nat /\ pc \in [Events -> Labels]
  BY Handled, SubscriberAssumption DEF TypeInv, TypeOK
<1>2. UNCHANGED faults \/ Fault
  BY DEF Handle, SetBook, ZRem, ZAddViews, Trim, ExpireTrending, HIncrBy, Ttl, Expire
<1>3. CASE Fault
  BY <1>1, <1>3 DEF Fault, EveryKeyExpires
<1>4. CASE faults' = 0 /\ faults = 0
  <2>1. \A x \in Events \ {e} : pc'[x] = pc[x]
    BY <1>1, Handled DEF Goto
  <2> DEFINE Owned(b) == \E x \in At({"ttl", "expire"}) : about[x] = b
             Trended == At({"trim", "expireTrending"}) # {}
  <2>2. /\ \A b \in eternal \ {TrendingKey} : Owned(b)
        /\ TrendingKey \in eternal => Trended
    BY <1>4 DEF EveryKeyExpires
  <2>3. SUFFICES /\ \A b \in eternal' \ {TrendingKey} : Owned(b)'
                 /\ TrendingKey \in eternal' => Trended'
    BY DEF EveryKeyExpires
  <2>4. ASSUME pc[e] \notin {"ttl", "expire"}, NEW b, Owned(b) PROVE Owned(b)'
    BY <1>1, <2>1, <2>4 DEF At
  <2>5. ASSUME pc[e] \notin {"trim", "expireTrending"}, Trended PROVE Trended'
    BY <2>1, <2>5 DEF At
  <2>6. ~Fault
    BY <1>1, <1>4 DEF Fault
  <2>7. CASE SetBook(e) \/ ZRem(e)
    <3>1. pc[e] \in {"set", "zrem"} /\ eternal' \subseteq eternal
      BY <2>7 DEF SetBook, ZRem
    <3> HIDE DEF Owned, Trended
    <3> QED
      BY <2>2, <2>4, <2>5, <3>1
  <2>8. CASE ZAddViews(e)
    <3>1. pc[e] = "zadd" /\ ZAdd(about[e], views[e]) /\ Goto(e, "trim")
      BY <2>6, <2>8 DEF ZAddViews
    <3>2. Trended'
      BY <1>1, <3>1 DEF At, Goto
    <3>3. eternal' \subseteq eternal \cup {TrendingKey}
      BY <3>1 DEF ZAdd
    <3> HIDE DEF Owned, Trended
    <3> QED
      BY <2>2, <2>4, <3>1, <3>2, <3>3
  <2>9. CASE Trim(e)
    <3>1. pc[e] = "trim" /\ Goto(e, "expireTrending") /\ UNCHANGED eternal
      BY <2>6, <2>9 DEF Trim
    <3>2. Trended'
      BY <1>1, <3>1 DEF At, Goto
    <3> HIDE DEF Owned, Trended
    <3> QED
      BY <2>2, <2>4, <3>1, <3>2
  <2>10. CASE ExpireTrending(e)
    <3>1. pc[e] = "expireTrending" /\ eternal' = eternal \ {TrendingKey}
      BY <2>6, <2>10 DEF ExpireTrending
    <3> HIDE DEF Owned, Trended
    <3> QED
      BY <2>2, <2>4, <3>1
  <2>11. CASE HIncrBy(e)
    <3>1. pc[e] = "hincrby" /\ Goto(e, "ttl") /\ eternal' \subseteq eternal \cup {about[e]}
      BY <2>6, <2>11 DEF HIncrBy
    <3>2. Owned(about[e])'
      BY <1>1, <3>1 DEF At, Goto
    <3> HIDE DEF Owned, Trended
    <3> QED
      BY <1>1, <2>2, <2>4, <2>5, <3>1, <3>2
  <2>12. CASE Ttl(e)
    <3>1. /\ pc[e] = "ttl" /\ UNCHANGED eternal
          /\ Goto(e, IF about[e] \in eternal THEN "expire" ELSE "done")
      BY <2>6, <2>12 DEF Ttl, redis
    <3>2. ASSUME NEW b \in eternal, Owned(b) PROVE Owned(b)'
      <4>1. PICK x \in At({"ttl", "expire"}) : about[x] = b
        BY <3>2
      <4>2. x \in At({"ttl", "expire"})'
        BY <1>1, <2>1, <3>1, <4>1 DEF At, Goto
      <4> QED
        BY <1>1, <4>1, <4>2
    <3> HIDE DEF Owned, Trended
    <3> QED
      BY <2>2, <2>5, <3>1, <3>2
  <2>13. CASE Expire(e)
    <3>1. pc[e] = "expire" /\ eternal' = eternal \ {about[e]}
      BY <2>6, <2>13 DEF Expire
    <3>2. ASSUME NEW b \in eternal', Owned(b) PROVE Owned(b)'
      <4>1. PICK x \in At({"ttl", "expire"}) : about[x] = b
        BY <3>2
      <4>2. x # e
        BY <3>1, <3>2, <4>1
      <4> QED
        BY <1>1, <2>1, <4>1, <4>2 DEF At
    <3> HIDE DEF Owned, Trended
    <3> QED
      BY <2>2, <2>5, <3>1, <3>2
  <2> QED
    BY <2>7, <2>8, <2>9, <2>10, <2>11, <2>12, <2>13 DEF Handle
<1>5. CASE UNCHANGED faults /\ faults' # 0
  BY <1>5 DEF EveryKeyExpires
<1> QED
  BY <1>1, <1>2, <1>3, <1>4, <1>5

LEMMA ExpiresNext ==
  ASSUME TypeInv, ControlInv, EveryKeyExpires, [Next]_vars
  PROVE  EveryKeyExpires'
<1>1. CASE Timeout
  BY <1>1 DEF Timeout, event, EveryKeyExpires, At
<1>2. CASE UNCHANGED vars
  BY <1>2 DEF vars, event, redis, EveryKeyExpires, At
<1> QED
  BY <1>1, <1>2, ExpiresPublish, ExpiresDeliver, ExpiresHandle DEF Next

\* As long as no command is rejected, a key without a time to live is in the
\* hands of a handler that will give it one, however the handlers interleave.
THEOREM KeysExpire == Spec => []EveryKeyExpires
<1> DEFINE IInv == TypeInv /\ ControlInv /\ EveryKeyExpires
<1>1. Init => IInv
  BY TypeInit, ControlInit DEF Init, EveryKeyExpires
<1>2. IInv /\ [Next]_vars => IInv'
  BY TypeNext, ControlNext, ExpiresNext
<1>3. IInv => EveryKeyExpires
  OBVIOUS
<1> QED
  BY <1>1, <1>2, <1>3, PTL DEF Spec

-----------------------------------------------------------------------------
(* The length of the trending list.                                        *)

Trimmers == At({"trim"})

BoundedInv == IsFiniteSet(Trimmers) /\ TrendingBounded

\* A handler that goes to label enters Trimmers, leaves it or does neither.
LEMMA TrimmersMove ==
  ASSUME TypeInv, IsFiniteSet(Trimmers), NEW e \in Events, NEW label, Goto(e, label)
  PROVE  /\ IsFiniteSet(Trimmers') /\ Cardinality(Trimmers') \in Nat
         /\ pc[e] # "trim" /\ label = "trim" => Cardinality(Trimmers') = Cardinality(Trimmers) + 1
         /\ pc[e] # "trim" /\ label # "trim" => Trimmers' = Trimmers
         /\ Cardinality(Trimmers') >= Cardinality(Trimmers) - 1
<1>1. pc \in [Events -> Labels] /\ pc' = [pc EXCEPT ![e] = label]
  BY DEF TypeInv, TypeOK, Goto
<1>2. Trimmers' = IF label = "trim" THEN Trimmers \cup {e} ELSE Trimmers \ {e}
  BY <1>1 DEF Trimmers, At
<1>3. e \in Trimmers <=> pc[e] = "trim"
  BY DEF Trimmers, At
<1>4. Cardinality(Trimmers) \in Nat
  BY FS_CardinalityType
<1>5. CASE label = "trim"
  BY <1>2, <1>3, <1>4, <1>5, FS_AddElement
<1>6. CASE label # "trim" /\ pc[e] = "trim"
  <2>1. Trimmers' = Trimmers \ {e} /\ e \in Trimmers
    BY <1>2, <1>3, <1>6
  <2>2. IsFiniteSet(Trimmers') /\ Cardinality(Trimmers') = Cardinality(Trimmers) - 1
    BY <2>1, FS_RemoveElement
  <2>3. Cardinality(Trimmers') \in Nat
    BY <2>2, FS_CardinalityType
  <2> QED
    BY <1>4, <1>6, <2>2, <2>3
<1>7. CASE label # "trim" /\ pc[e] # "trim"
  <2>1. Trimmers' = Trimmers
    BY <1>2, <1>3, <1>7
  <2> QED
    BY <1>4, <1>7, <2>1
<1> QED
  BY <1>5, <1>6, <1>7

LEMMA BoundTypes ==
  ASSUME TypeInv, IsFiniteSet(Trimmers)
  PROVE  /\ Cap \in Nat /\ faults \in Nat /\ Cardinality(Trimmers) \in Nat
         /\ IsFiniteSet(DOMAIN trending) /\ Cardinality(DOMAIN trending) \in Nat
  BY SubscriberAssumption, FS_CardinalityType DEF TypeInv, TypeOK

LEMMA ZAddLength ==
  ASSUME TypeInv, NEW b, NEW score, ZAdd(b, score)
  PROVE  Cardinality(DOMAIN trending') <= Cardinality(DOMAIN trending) + 1
<1>1. DOMAIN trending' = DOMAIN trending \cup {b}
  BY DEF ZAdd, Put
<1>2. IsFiniteSet(DOMAIN trending) /\ Cardinality(DOMAIN trending) \in Nat
  BY FS_CardinalityType DEF TypeInv
<1> QED
  BY <1>1, <1>2, FS_AddElement

LEMMA KeepLength ==
  ASSUME TypeInv, NEW B, trending' = Keep(trending, B)
  PROVE  Cardinality(DOMAIN trending') <= Cardinality(DOMAIN trending)
<1>1. DOMAIN trending' \subseteq DOMAIN trending
  BY DEF Keep
<1> QED
  BY <1>1, FS_Subset DEF TypeInv

LEMMA BoundedDeliver ==
  ASSUME TypeInv, ControlInv, BoundedInv, Deliver
  PROVE  BoundedInv'
<1> DEFINE e == Head(queue)
           T == Cardinality(Trimmers)
<1>1. e \in Events /\ pc[e] = "sent" /\ HandleEvent(e)
  BY Delivered
<1>2. IsFiniteSet(Trimmers) /\ Cardinality(DOMAIN trending) <= Cap + T + faults
  BY DEF BoundedInv, TrendingBounded, Trimmers
<1> HIDE DEF e
<1>3. CASE HandleViewEvent(e)
  <2>1. CASE ZAdd(about[e], MaxViews + clock) /\ Goto(e, "trim") /\ UNCHANGED faults
    <3>1. IsFiniteSet(Trimmers') /\ Cardinality(Trimmers') = T + 1
      BY <1>1, <1>2, <2>1, TrimmersMove
    <3>2. Cardinality(DOMAIN trending') <= Cardinality(DOMAIN trending) + 1
      BY <2>1, ZAddLength
    <3>3. TypeInv' /\ UNCHANGED faults
      BY <2>1, TypeDeliver
    <3>4. Cardinality(DOMAIN trending') <= Cap + Cardinality(Trimmers') + faults'
      BY <1>2, <3>1, <3>2, <3>3, BoundTypes, FS_CardinalityType DEF TypeInv
    <3> QED
      BY <3>1, <3>4 DEF BoundedInv, TrendingBounded, Trimmers
  <2>2. CASE /\ Fault /\ Goto(e, "hincrby")
             /\ ZAdd(about[e], MaxViews + clock) \/ UNCHANGED <<trending, eternal>>
    <3>1. Trimmers' = Trimmers /\ faults' = faults + 1
      BY <1>1, <1>2, <2>2, TrimmersMove DEF Fault
    <3>2. TypeInv'
      BY TypeDeliver
    <3>3. \/ Cardinality(DOMAIN trending') <= Cardinality(DOMAIN trending) + 1
          \/ UNCHANGED trending
      BY <2>2, ZAddLength
    <3>4. Cardinality(DOMAIN trending') \in Nat
      BY <3>2, FS_CardinalityType DEF TypeInv
    <3>5. Cardinality(DOMAIN trending') <= Cap + T + (faults + 1)
      BY <1>2, <3>3, <3>4, BoundTypes
    <3> QED
      BY <1>2, <3>1, <3>5 DEF BoundedInv, TrendingBounded, Trimmers
  <2> QED
    BY <1>3, <2>1, <2>2 DEF HandleViewEvent
<1>4. CASE ~HandleViewEvent(e)
  <2>1. /\ UNCHANGED trending
        /\ \E label : label # "trim" /\ Goto(e, label)
        /\ UNCHANGED faults \/ Fault
    BY <1>1, <1>4 DEF HandleEvent, HandleViewsUpdated, HandleBookCreated, HandleBookUpdated,
              HandleBookDeleted, HandleBatchCreated, HandleSyncCompleted, redis
  <2>2. Trimmers' = Trimmers
    BY <1>1, <1>2, <2>1, TrimmersMove
  <2>3. faults' = faults \/ faults' = faults + 1
    BY <2>1 DEF Fault
  <2>4. Cardinality(DOMAIN trending') <= Cap + T + faults'
    BY <1>2, <2>1, <2>3, BoundTypes
  <2> QED
    BY <1>2, <2>2, <2>4 DEF BoundedInv, TrendingBounded, Trimmers
<1> QED
  BY <1>3, <1>4

LEMMA BoundedHandle ==
  ASSUME TypeInv, ControlInv, BoundedInv, NEW e \in Events, Handle(e)
  PROVE  BoundedInv'
<1> DEFINE T == Cardinality(Trimmers)
<1>1. IsFiniteSet(Trimmers) /\ Cardinality(DOMAIN trending) <= Cap + T + faults
  BY DEF BoundedInv, TrendingBounded, Trimmers
<1>2. /\ Cap \in Nat /\ faults \in Nat /\ T \in Nat /\ Cardinality(DOMAIN trending) \in Nat
      /\ Cardinality(DOMAIN trending') \in Nat
  BY <1>1, TypeHandle, BoundTypes, FS_CardinalityType DEF TypeInv
<1>3. IsFiniteSet(Trimmers') /\ Cardinality(Trimmers') \in Nat
  BY <1>1, Handled, TrimmersMove
<1>4. SUFFICES Cardinality(DOMAIN trending') <= Cap + Cardinality(Trimmers') + faults'
  BY <1>3 DEF BoundedInv, TrendingBounded, Trimmers
<1>5. faults' = faults \/ faults' = faults + 1
  BY DEF Handle, SetBook, ZRem, ZAddViews, Trim, ExpireTrending, HIncrBy, Ttl, Expire, Fault
<1>6. CASE ZAddViews(e)
  <2>1. pc[e] = "zadd" /\ AfterTrending(e) # "trim"
    BY <1>6 DEF ZAddViews, AfterTrending
  <2>2. CASE ZAdd(about[e], views[e]) /\ Goto(e, "trim") /\ UNCHANGED faults
    <3>1. Cardinality(Trimmers') = T + 1
      BY <1>1, <2>1, <2>2, TrimmersMove
    <3>2. Cardinality(DOMAIN trending') <= Cardinality(DOMAIN trending) + 1
      BY <2>2, ZAddLength
    <3> QED
      BY <1>1, <1>2, <2>2, <3>1, <3>2
  <2>3. CASE /\ Fault /\ Goto(e, AfterTrending(e))
             /\ ZAdd(about[e], views[e]) \/ UNCHANGED <<trending, eternal>>
    <3>1. Trimmers' = Trimmers /\ faults' = faults + 1
      BY <1>1, <2>1, <2>3, TrimmersMove DEF Fault
    <3>2. \/ Cardinality(DOMAIN trending') <= Cardinality(DOMAIN trending) + 1
          \/ UNCHANGED trending
      BY <2>3, ZAddLength
    <3> QED
      BY <1>1, <1>2, <3>1, <3>2
  <2> QED
    BY <1>6, <2>2, <2>3 DEF ZAddViews
<1>7. CASE Trim(e)
  <2>1. CASE \E B \in SUBSET DOMAIN trending :
               Best(trending, B) /\ trending' = Keep(trending, B)
    <3>1. Cardinality(DOMAIN trending') <= Cap
      BY <2>1, BestOf, TypeParts
    <3> QED
      BY <1>2, <1>3, <1>5, <3>1
  <2>2. CASE trending' = trending /\ Goto(e, AfterTrending(e)) /\ Fault
    <3>1. Cardinality(Trimmers') >= T - 1 /\ faults' = faults + 1
      BY <1>1, <2>2, TrimmersMove DEF Fault
    <3> QED
      BY <1>1, <1>2, <1>3, <2>2, <3>1
  <2> QED
    BY <1>7, <2>1, <2>2 DEF Trim
<1>8. CASE ~ZAddViews(e) /\ ~Trim(e)
  <2>1. /\ pc[e] # "trim"
        /\ \E label : label # "trim" /\ Goto(e, label)
        /\ UNCHANGED trending \/ \E B : trending' = Keep(trending, B)
    BY <1>8 DEF Handle, SetBook, ZRem, ExpireTrending, HIncrBy, Ttl, Expire, AfterTrending, redis
  <2>2. Trimmers' = Trimmers
    BY <1>1, <2>1, TrimmersMove
  <2>3. Cardinality(DOMAIN trending') <= Cardinality(DOMAIN trending)
    BY <1>2, <2>1, KeepLength
  <2> QED
    BY <1>1, <1>2, <1>5, <2>2, <2>3
<1> QED
  BY <1>6, <1>7, <1>8

LEMMA BoundedNext ==
  ASSUME TypeInv, ControlInv, BoundedInv, [Next]_vars
  PROVE  BoundedInv'
<1>1. ASSUME NEW e \in Events, Publish(e) PROVE BoundedInv'
  <2>1. UNCHANGED <<trending, faults>> /\ pc[e] # "trim" /\ Goto(e, "sent")
    BY <1>1, Published DEF Publish
  <2>2. Trimmers' = Trimmers
    BY <2>1, TrimmersMove DEF BoundedInv
  <2> QED
    BY <2>1, <2>2 DEF BoundedInv, TrendingBounded, Trimmers
<1>2. CASE Timeout
  <2>1. Trimmers' = Trimmers /\ UNCHANGED faults
    BY <1>2 DEF Timeout, Trimmers, At
  <2>2. Cardinality(DOMAIN trending') <= Cardinality(DOMAIN trending)
    <3>1. UNCHANGED trending \/ trending' = Keep(trending, {})
      BY <1>2 DEF Timeout
    <3> QED
      BY <3>1, KeepLength, FS_CardinalityType DEF TypeInv
  <2>3. Cardinality(DOMAIN trending') \in Nat
    BY <1>2, TypeTimeout, FS_CardinalityType DEF TypeInv
  <2>4. Cardinality(DOMAIN trending') <= Cap + Cardinality(Trimmers) + faults
    BY <2>2, <2>3, BoundTypes DEF BoundedInv, TrendingBounded, Trimmers
  <2> QED
    BY <2>1, <2>4 DEF BoundedInv, TrendingBounded, Trimmers
<1>3. CASE UNCHANGED vars
  BY <1>3 DEF vars, redis, BoundedInv, TrendingBounded, Trimmers, At
<1> QED
  BY <1>1, <1>2, <1>3, BoundedDeliver, BoundedHandle DEF Next

\* The trending list is longer than Cap by no more than the handlers between
\* their zadd and their trim, and the commands that were rejected, whatever
\* the number of events handled at once.
THEOREM TrendingStaysBounded == Spec => []TrendingBounded
<1> DEFINE IInv == TypeInv /\ ControlInv /\ BoundedInv
<1>1. Init => IInv
  <2> SUFFICES ASSUME Init PROVE BoundedInv
    BY TypeInit, ControlInit
  <2>1. Trimmers = {} /\ DOMAIN trending = {}
    BY DEF Init, Trimmers, At
  <2>2. IsFiniteSet({}) /\ Cardinality({}) = 0
    BY FS_EmptySet
  <2>3. faults = 0
    BY DEF Init
  <2>4. Cardinality(DOMAIN trending) <= Cap + Cardinality(Trimmers) + faults
    BY <2>1, <2>2, <2>3, SubscriberAssumption
  <2> QED
    BY <2>1, <2>2, <2>4 DEF BoundedInv, TrendingBounded, Trimmers
<1>2. IInv /\ [Next]_vars => IInv'
  BY TypeNext, ControlNext, BoundedNext
<1>3. IInv => TrendingBounded
  BY DEF BoundedInv
<1> QED
  BY <1>1, <1>2, <1>3, PTL DEF Spec

-----------------------------------------------------------------------------
(* Deleted books and the trending list.                                    *)

Forgotten(b) == last[b] = "DELETED" /\ ~CountPublished(b)

Deletion(e, b) == e \in Events /\ kind[e] = "DELETED" /\ about[e] = b

\* A deletion of b has still to remove b from the list.
Removing(b) == \E e \in Events : Deletion(e, b) /\ pc[e] \in {"sent", "zrem"}

\* Behind every view of b in the queue there is a deletion of it.
ViewsCovered(b) ==
  \A i \in 1..Len(queue) :
    kind[queue[i]] = "VIEWED" /\ about[queue[i]] = b =>
      \E j \in (i + 1)..Len(queue) : Deletion(queue[j], b)

ReviveInv ==
  faults = 0 =>
    \A b \in Books : Forgotten(b) =>
      /\ b \in DOMAIN trending => Removing(b)
      /\ ViewsCovered(b)

LEMMA RevivePublish ==
  ASSUME TypeInv, ControlInv, ReviveInv, NEW e \in Events, Publish(e)
  PROVE  ReviveInv'
<1>1. /\ queue \in Seq(Events) /\ kind \in [Events -> Kinds \cup {"none"}]
      /\ about \in [Events -> Books] /\ pc \in [Events -> Labels]
      /\ last \in [Books -> Kinds \cup {"none"}] /\ Len(queue) \in Nat
  BY DEF TypeInv, TypeOK
<1>2. /\ pc[e] = "none" /\ kind[e] = "none" /\ pc'[e] = "sent"
      /\ Len(queue') = Len(queue) + 1 /\ queue'[Len(queue) + 1] = e
      /\ \A i \in 1..Len(queue) : queue'[i] = queue[i] /\ queue[i] \in Events \ {e}
      /\ \A x \in Events \ {e} : pc'[x] = pc[x] /\ kind'[x] = kind[x] /\ about'[x] = about[x]
      /\ UNCHANGED <<trending, faults>>
  BY <1>1, Published
<1>3. PICK k \in Kinds, p \in Books :
        /\ kind' = [kind EXCEPT ![e] = k] /\ about' = [about EXCEPT ![e] = p]
        /\ last' = [last EXCEPT ![p] = k]
  BY DEF Publish
<1>4. kind'[e] = k /\ about'[e] = p
  BY <1>1, <1>3
<1>5. SUFFICES ASSUME faults = 0, NEW b \in Books, Forgotten(b)'
               PROVE  (b \in DOMAIN trending => Removing(b)') /\ ViewsCovered(b)'
  BY <1>2 DEF ReviveInv
<1>6. ~CountPublished(b)
  BY <1>2, <1>5 DEF Forgotten, CountPublished
<1>7. \A x \in Events : Deletion(x, b) => x # e /\ Deletion(x, b)'
  BY <1>2 DEF Deletion
<1>8. CASE b # p
  <2>1. Forgotten(b)
    BY <1>1, <1>3, <1>5, <1>6, <1>8 DEF Forgotten
  <2>2. Removing(b) => Removing(b)'
    BY <1>2, <1>7 DEF Removing
  <2>3. ViewsCovered(b)'
    <3> SUFFICES ASSUME NEW i \in 1..Len(queue'), kind'[queue'[i]] = "VIEWED", about'[queue'[i]] = b
                 PROVE  \E j \in (i + 1)..Len(queue') : Deletion(queue[j], b)'
      BY DEF ViewsCovered
    <3>1. i \in 1..Len(queue)
      BY <1>1, <1>2, <1>4, <1>8
    <3>2. kind[queue[i]] = "VIEWED" /\ about[queue[i]] = b
      BY <1>2, <3>1
    <3>3. PICK j \in (i + 1)..Len(queue) : Deletion(queue[j], b)
      BY <1>5, <2>1, <3>1, <3>2 DEF ReviveInv, ViewsCovered
    <3>4. j \in 1..Len(queue) /\ j \in (i + 1)..Len(queue')
      BY <1>1, <1>2, <3>1
    <3>5. queue'[j] = queue[j] /\ queue[j] \in Events
      BY <1>2, <3>4
    <3>6. Deletion(queue[j], b)'
      BY <1>2, <3>3, <3>4, <3>5 DEF Deletion
    <3> QED
      BY <3>4, <3>6
  <2> QED
    BY <1>5, <2>1, <2>2, <2>3 DEF ReviveInv
<1>9. CASE b = p
  <2>1. kind'[e] = "DELETED" /\ about'[e] = b
    BY <1>1, <1>3, <1>4, <1>5, <1>9 DEF Forgotten
  <2>2. Deletion(e, b)'
    BY <2>1 DEF Deletion
  <2>3. Removing(b)'
    BY <1>2, <2>2 DEF Removing
  <2>4. ViewsCovered(b)'
    <3> SUFFICES ASSUME NEW i \in 1..Len(queue'), kind'[queue'[i]] = "VIEWED"
                 PROVE  \E j \in (i + 1)..Len(queue') : Deletion(queue[j], b)'
      BY DEF ViewsCovered
    <3>1. Len(queue) + 1 \in (i + 1)..Len(queue')
      BY <1>1, <1>2, <2>1
    <3>2. PICK m \in (i + 1)..Len(queue') : queue'[m] = e
      BY <1>2, <3>1
    <3>3. Deletion(queue[m], b)'
      BY <2>1, <3>2 DEF Deletion
    <3> QED
      BY <3>2, <3>3
  <2> QED
    BY <2>3, <2>4
<1> QED
  BY <1>8, <1>9

LEMMA ReviveDeliver ==
  ASSUME TypeInv, ControlInv, ReviveInv, Deliver
  PROVE  ReviveInv'
<1> DEFINE e == Head(queue)
<1>1. /\ e \in Events /\ e = queue[1] /\ Len(queue) >= 1 /\ HandleEvent(e)
      /\ Len(queue') = Len(queue) - 1
      /\ \A i \in 1..Len(queue') : queue'[i] = queue[i + 1] /\ queue[i + 1] \in Events \ {e}
      /\ UNCHANGED <<kind, about, last>>
  BY Delivered
<1> HIDE DEF e
<1>2. /\ pc \in [Events -> Labels] /\ faults \in Nat /\ Len(queue) \in Nat
  BY DEF TypeInv, TypeOK
<1>3. UNCHANGED faults \/ Fault
  BY <1>1 DEF HandleEvent, HandleViewEvent, HandleViewsUpdated, HandleBookCreated,
              HandleBookUpdated, HandleBookDeleted, HandleBatchCreated, HandleSyncCompleted
<1>4. SUFFICES ASSUME faults' = 0, NEW b \in Books, Forgotten(b)'
               PROVE  (b \in DOMAIN trending' => Removing(b)') /\ ViewsCovered(b)'
  BY DEF ReviveInv
<1>5. faults = 0 /\ ~Fault
  BY <1>2, <1>3, <1>4 DEF Fault
<1>6. Forgotten(b) /\ (b \in DOMAIN trending => Removing(b)) /\ ViewsCovered(b)
  BY <1>1, <1>4, <1>5 DEF Forgotten, CountPublished, ReviveInv
<1>7. \A x \in Events : Deletion(x, b)' <=> Deletion(x, b)
  BY <1>1 DEF Deletion
<1>8. \A x \in Events \ {e} : pc'[x] = pc[x]
  BY <1>1, <1>2 DEF HandleEvent, HandleViewEvent, HandleViewsUpdated, HandleBookCreated,
              HandleBookUpdated, HandleBookDeleted, HandleBatchCreated, HandleSyncCompleted, Goto
<1>9. kind[e] = "DELETED" => pc'[e] = "zrem"
  BY <1>1, <1>2 DEF HandleEvent, HandleViewEvent, HandleViewsUpdated, HandleBookCreated,
              HandleBookUpdated, HandleBookDeleted, HandleBatchCreated, HandleSyncCompleted, Goto
<1>10. Removing(b) => Removing(b)'
  BY <1>7, <1>8, <1>9 DEF Removing, Deletion
<1>11. ViewsCovered(b)'
  <2> SUFFICES ASSUME NEW i \in 1..Len(queue'), kind[queue'[i]] = "VIEWED", about[queue'[i]] = b
               PROVE  \E j \in (i + 1)..Len(queue') : Deletion(queue[j], b)'
    BY <1>1 DEF ViewsCovered
  <2>1. i + 1 \in 1..Len(queue) /\ queue'[i] = queue[i + 1]
    BY <1>1, <1>2
  <2>2. PICK j \in (i + 2)..Len(queue) : Deletion(queue[j], b)
    BY <1>6, <2>1 DEF ViewsCovered
  <2>3. /\ j - 1 \in (i + 1)..Len(queue') /\ j - 1 \in 1..Len(queue') /\ (j - 1) + 1 = j
    BY <1>1, <1>2
  <2>4. queue'[j - 1] = queue[j]
    BY <1>1, <2>3
  <2> DEFINE m == j - 1
  <2>5. m \in (i + 1)..Len(queue') /\ queue'[m] = queue[j]
    BY <2>3, <2>4
  <2> HIDE DEF m
  <2>6. Deletion(queue[m], b)'
    BY <1>1, <2>2, <2>5 DEF Deletion
  <2> QED
    BY <2>5, <2>6
<1>12. ASSUME b \in DOMAIN trending' PROVE Removing(b)'
  <2>1. CASE b \in DOMAIN trending
    BY <1>6, <1>10, <2>1
  <2>2. CASE b \notin DOMAIN trending
    <3>1. kind[e] = "VIEWED" /\ about[e] = b
      BY <1>1, <1>12, <2>2 DEF HandleEvent, HandleViewEvent, HandleViewsUpdated,
         HandleBookCreated, HandleBookUpdated, HandleBookDeleted, HandleBatchCreated,
         HandleSyncCompleted, redis, ZAdd, Put
    <3>2. PICK j \in 2..Len(queue) : Deletion(queue[j], b)
      BY <1>1, <1>2, <1>6, <3>1 DEF ViewsCovered
    <3>3. queue[j] \in Events \ {e} /\ pc[queue[j]] = "sent"
      BY <1>2, <3>1, <3>2 DEF Deletion, ControlInv
    <3> QED
      BY <1>7, <1>8, <3>2, <3>3 DEF Removing
  <2> QED
    BY <2>1, <2>2
<1> QED
  BY <1>11, <1>12

LEMMA ReviveHandle ==
  ASSUME TypeInv, ControlInv, ReviveInv, NEW e \in Events, Handle(e)
  PROVE  ReviveInv'
<1>1. /\ UNCHANGED <<queue, kind, about, last>> /\ pc[e] # "sent"
      /\ \E label : Goto(e, label)
  BY Handled
<1>2. /\ pc \in [Events -> Labels] /\ faults \in Nat
  BY DEF TypeInv, TypeOK
<1>3. UNCHANGED faults \/ Fault
  BY DEF Handle, SetBook, ZRem, ZAddViews, Trim, ExpireTrending, HIncrBy, Ttl, Expire
<1>4. SUFFICES ASSUME faults' = 0, NEW b \in Books, Forgotten(b)'
               PROVE  (b \in DOMAIN trending' => Removing(b)') /\ ViewsCovered(b)'
  BY DEF ReviveInv
<1>5. faults = 0 /\ ~Fault
  BY <1>2, <1>3, <1>4 DEF Fault
<1>6. Forgotten(b) /\ (b \in DOMAIN trending => Removing(b)) /\ ViewsCovered(b)
  BY <1>1, <1>4, <1>5 DEF Forgotten, CountPublished, ReviveInv
<1>7. ViewsCovered(b)'
  BY <1>1, <1>6 DEF ViewsCovered, Deletion
<1>8. \A x \in Events \ {e} : pc'[x] = pc[x]
  BY <1>1, <1>2 DEF Goto
<1>9. ASSUME b \in DOMAIN trending' PROVE Removing(b)'
  <2>1. CASE ZRem(e)
    <3>1. pc[e] = "zrem" /\ trending' = Keep(trending, Books \ {about[e]})
      BY <1>5, <2>1 DEF ZRem
    <3>2. b \in DOMAIN trending /\ about[e] # b
      BY <1>9, <3>1 DEF Keep
    <3> QED
      BY <1>1, <1>6, <1>8, <3>2 DEF Removing, Deletion
  <2>2. CASE ~ZRem(e)
    <3>1. pc[e] # "zrem"
      BY <2>2 DEF Handle, SetBook, ZAddViews, Trim, ExpireTrending, HIncrBy, Ttl, Expire
    <3>2. b \in DOMAIN trending
      <4>1. CASE ZAddViews(e)
        <5>1. kind[e] = "VIEWS_UPDATED" /\ ZAdd(about[e], views[e])
          BY <1>5, <4>1 DEF ZAddViews, ControlInv
        <5>2. about[e] # b
          BY <1>6, <5>1 DEF Forgotten, CountPublished
        <5> QED
          BY <1>9, <5>1, <5>2 DEF ZAdd, Put
      <4>2. CASE ~ZAddViews(e)
        BY <1>9, <2>2, <4>2 DEF Handle, SetBook, Trim, ExpireTrending, HIncrBy, Ttl, Expire,
                                Keep, redis
      <4> QED
        BY <4>1, <4>2
    <3> QED
      BY <1>1, <1>6, <1>8, <3>1, <3>2 DEF Removing, Deletion
  <2> QED
    BY <2>1, <2>2
<1> QED
  BY <1>7, <1>9

LEMMA ReviveNext ==
  ASSUME TypeInv, ControlInv, ReviveInv, [Next]_vars
  PROVE  ReviveInv'
<1>1. CASE Timeout
  <2>1. UNCHANGED <<queue, kind, about, pc, faults, last>>
    BY <1>1 DEF Timeout, event
  <2>2. DOMAIN trending' \subseteq DOMAIN trending
    BY <1>1 DEF Timeout, Keep
  <2> QED
    BY <2>1, <2>2 DEF ReviveInv, Forgotten, CountPublished, Removing, Deletion, ViewsCovered
<1>2. CASE UNCHANGED vars
  BY <1>2 DEF vars, event, redis, ReviveInv, Forgotten, CountPublished, Removing, Deletion,
              ViewsCovered
<1> QED
  BY <1>1, <1>2, RevivePublish, ReviveDeliver, ReviveHandle DEF Next

\* Once every event is handled and no command was rejected, a deleted book is
\* in the trending list only if a count of its views was published: a view
\* cannot bring it back, however the handlers of the two interleave.
THEOREM ViewsNeverRevive == Spec => []OnlyCountsRevive
<1> DEFINE IInv == TypeInv /\ ControlInv /\ ReviveInv
<1>1. Init => IInv
  BY TypeInit, ControlInit DEF Init, ReviveInv, Forgotten
<1>2. IInv /\ [Next]_vars => IInv'
  BY TypeNext, ControlNext, ReviveNext
<1>3. IInv => OnlyCountsRevive
  BY DEF ReviveInv, OnlyCountsRevive, Settled, Forgotten, Removing, TypeInv, TypeOK
<1> QED
  BY <1>1, <1>2, <1>3, PTL DEF Spec
=============================================================================
