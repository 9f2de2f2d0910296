--------------------------- MODULE CacheSubscriber --------------------------
(***************************************************************************)
(* The subscriber that keeps the Redis keys of the cache in step with the  *)
(* events BookService publishes.  Events reach it in the order they were   *)
(* published, on one connection; it starts a handler for each and awaits   *)
(* none of them, so that handlers interleave at every Redis command.       *)
(*                                                                         *)
(* One action is one command: its effect at the server, and the handler's  *)
(* move to the next one.  A handler that awaits nothing before its first   *)
(* command issues it as the event arrives.  Which events are published,    *)
(* and in which order, is left open: BookService, like any publisher, can  *)
(* publish the view of a book after its deletion.  An event that is lost   *)
(* is one that is not published here.                                      *)
(***************************************************************************)
EXTENDS Naturals, Sequences, FiniteSets

CONSTANTS
  Books,
  Events,    \* the events published, each of them once
  Kinds,     \* the types they can have
  Cap,       \* the length of the trending list (100 in the code)
  MaxViews,  \* bound on the view counts published
  MaxFaults  \* bound on rejected commands in one behaviour

AllKinds == {"CREATED", "UPDATED", "DELETED", "BATCH_CREATED", "VIEWS_UPDATED",
             "SYNC_COMPLETED", "VIEWED"}

TrendingKey == "trending:books"

ASSUME SubscriberAssumption ==
  /\ Kinds \subseteq AllKinds
  /\ Cap \in Nat /\ MaxViews \in Nat /\ MaxFaults \in Nat
  /\ Cap > 0
  /\ Books # {} /\ TrendingKey \notin Books

VARIABLES
  queue,     \* events published and not yet delivered
  kind,      \* of an event: its type
  about,     \* of an event: the book it is about
  views,     \* of an event: the views count it carries
  pc,        \* of an event: what its handler does next
  trending,  \* the sorted set trending:books, book -> score
  bookKeys,  \* the books with a key book:<id>
  counters,  \* the books with a counter views:<id>
  eternal,   \* the keys that have no time to live
  clock,     \* Date.now()
  faults,    \* the part of the budget that is spent
  last       \* history: the last event published about a book

redis == <<trending, bookKeys, counters, eternal>>
event == <<kind, about, views>>
vars  == <<queue, event, pc, redis, clock, faults, last>>

Put(s, b, score) == [x \in DOMAIN s \cup {b} |-> IF x = b THEN score ELSE s[x]]

Keep(s, B) == [x \in DOMAIN s \cap B |-> s[x]]

\* A bug the properties must catch: -102 for -101.
BestAndOneMore(s, B) ==
  /\ B \subseteq DOMAIN s
  /\ Cardinality(B) = IF Cardinality(DOMAIN s) <= Cap + 1
                        THEN Cardinality(DOMAIN s) ELSE Cap + 1
  /\ \A b \in B, x \in DOMAIN s \ B : s[b] >= s[x]

\* ZREMRANGEBYRANK trending:books 0 -(Cap+1): the Cap best stay, ties are
\* broken by the members' names.
Best(s, B) ==
  /\ B \subseteq DOMAIN s
  /\ Cardinality(B) = IF Cardinality(DOMAIN s) <= Cap
                        THEN Cardinality(DOMAIN s) ELSE Cap
  /\ \A b \in B, x \in DOMAIN s \ B : s[b] >= s[x]

\* scanKeys finds no key, whatever the pattern.
ScanKeys(B) == {}

\* The keys of books that are left when those of the books in B are deleted by
\* their pattern.
DeletePattern(B) == bookKeys \ ScanKeys(B)

Goto(e, label) == pc' = [pc EXCEPT ![e] = label]

Fault == faults < MaxFaults /\ faults' = faults + 1

-----------------------------------------------------------------------------
\* A method of BookEventPublisher.  The views counts published grow from 1.
Publish(e) ==
  /\ pc[e] = "none"
  /\ \E k \in Kinds, b \in Books, v \in 1..MaxViews :
       /\ kind' = [kind EXCEPT ![e] = k]
       /\ about' = [about EXCEPT ![e] = b]
       /\ views' = [views EXCEPT ![e] = v]
       /\ k # "VIEWS_UPDATED" => v = 1
       /\ last' = [last EXCEPT ![b] = k]
  /\ queue' = Append(queue, e)
  /\ Goto(e, "sent")
  /\ UNCHANGED <<redis, clock, faults>>

\* A bug the properties must catch: zadd's arguments the wrong way round.
ZAddSwapped(b, score) ==
  /\ trending' = Put(trending, score, 0)
  /\ UNCHANGED eternal

\* ZADD trending:books: it creates the key without a time to live.
ZAdd(b, score) ==
  /\ trending' = Put(trending, b, score)
  /\ eternal' = IF DOMAIN trending = {} THEN eternal \cup {TrendingKey} ELSE eternal

\* An event arrives, and its handler runs up to the first command whose answer
\* it waits for.  The handler of a view adds to trending:books there and then.
HandleViewEvent(e) ==
  /\ kind[e] = "VIEWED"
  /\ \/ ZAdd(about[e], MaxViews + clock) /\ Goto(e, "trim") /\ UNCHANGED faults
     \/ /\ Fault /\ Goto(e, "hincrby")
        /\ \/ ZAdd(about[e], MaxViews + clock)
           \/ UNCHANGED <<trending, eternal>>
  /\ UNCHANGED <<bookKeys, counters>>

\* CacheService.delete swallows what Redis rejects.
HandleViewsUpdated(e) ==
  /\ kind[e] = "VIEWS_UPDATED"
  /\ Goto(e, "zadd")
  /\ \/ bookKeys' = bookKeys \ {about[e]} /\ UNCHANGED faults
     \/ bookKeys' = bookKeys /\ Fault
  /\ UNCHANGED <<trending, counters, eternal>>

\* invalidateListCaches and invalidateAuthorCache, here and below, delete by
\* patterns, and send no command; none of the keys kept here is of a list.
HandleBookCreated(e) ==
  /\ kind[e] = "CREATED"
  /\ Goto(e, "set")
  /\ UNCHANGED <<redis, faults>>

HandleBookUpdated(e) ==
  /\ kind[e] = "UPDATED"
  /\ bookKeys' = DeletePattern({about[e]})
  /\ Goto(e, "done")
  /\ UNCHANGED <<trending, counters, eternal, faults>>

HandleBookDeleted(e) ==
  /\ kind[e] = "DELETED"
  /\ bookKeys' = DeletePattern({about[e]})
  /\ Goto(e, "zrem")
  /\ UNCHANGED <<trending, counters, eternal, faults>>

HandleBatchCreated(e) ==
  /\ kind[e] = "BATCH_CREATED"
  /\ Goto(e, "done")
  /\ UNCHANGED <<redis, faults>>

HandleSyncCompleted(e) ==
  /\ kind[e] = "SYNC_COMPLETED"
  /\ bookKeys' = DeletePattern(Books)
  /\ Goto(e, "done")
  /\ UNCHANGED <<trending, counters, eternal, faults>>

HandleEvent(e) ==
  \/ HandleViewEvent(e) \/ HandleViewsUpdated(e) \/ HandleBookCreated(e)
  \/ HandleBookUpdated(e) \/ HandleBookDeleted(e) \/ HandleBatchCreated(e)
  \/ HandleSyncCompleted(e)

Deliver ==
  /\ queue # <<>>
  /\ queue' = Tail(queue)
  /\ clock' = clock + 1
  /\ HandleEvent(Head(queue))
  /\ UNCHANGED <<event, last>>

\* handleBookCreated: the book's key is set, with a time to live of an hour;
\* CacheService.set swallows what Redis rejects.
SetBook(e) ==
  /\ pc[e] = "set"
  /\ \/ bookKeys' = bookKeys \cup {about[e]} /\ UNCHANGED faults
     \/ bookKeys' = bookKeys /\ Fault
  /\ Goto(e, "done")
  /\ UNCHANGED <<queue, event, trending, counters, eternal, clock, last>>

\* A bug the properties must catch: the member removed is the key book:<id>,
\* which is in no sorted set.
ZRemKey(e) ==
  /\ pc[e] = "zrem"
  /\ Goto(e, "done")
  /\ UNCHANGED <<queue, event, redis, clock, faults, last>>

\* handleBookDeleted: "Remove from trending".
ZRem(e) ==
  /\ pc[e] = "zrem"
  /\ \/ trending' = Keep(trending, Books \ {about[e]}) /\ UNCHANGED faults
     \/ trending' = trending /\ Fault
  /\ eternal' = IF DOMAIN trending' = {} THEN eternal \ {TrendingKey} ELSE eternal
  /\ Goto(e, "done")
  /\ UNCHANGED <<queue, event, bookKeys, counters, clock, last>>

\* addToTrending: three commands.  What rejects ends it, and is swallowed;
\* handleViewEvent goes on to count the view.
AfterTrending(e) == IF kind[e] = "VIEWED" THEN "hincrby" ELSE "done"

ZAddViews(e) ==
  /\ pc[e] = "zadd"
  /\ \/ ZAdd(about[e], views[e]) /\ Goto(e, "trim") /\ UNCHANGED faults
     \/ /\ Fault /\ Goto(e, AfterTrending(e))
        /\ \/ ZAdd(about[e], views[e])
           \/ UNCHANGED <<trending, eternal>>
  /\ UNCHANGED <<queue, event, bookKeys, counters, clock, last>>

Trim(e) ==
  /\ pc[e] = "trim"
  /\ \/ /\ \E B \in SUBSET DOMAIN trending :
             Best(trending, B) /\ trending' = Keep(trending, B)
        /\ Goto(e, "expireTrending") /\ UNCHANGED faults
     \/ trending' = trending /\ Goto(e, AfterTrending(e)) /\ Fault
  /\ UNCHANGED <<queue, event, bookKeys, counters, eternal, clock, last>>

ExpireTrending(e) ==
  /\ pc[e] = "expireTrending"
  /\ \/ eternal' = eternal \ {TrendingKey} /\ UNCHANGED faults
     \/ eternal' = eternal /\ Fault
  /\ Goto(e, AfterTrending(e))
  /\ UNCHANGED <<queue, event, trending, bookKeys, counters, clock, last>>

\* increment: HINCRBY, TTL, and EXPIRE if there is no time to live.
HIncrBy(e) ==
  LET b == about[e]
      Effect == /\ counters' = counters \cup {b}
                /\ eternal' = IF b \in counters THEN eternal ELSE eternal \cup {b}
  IN  /\ pc[e] = "hincrby"
      /\ \/ Effect /\ Goto(e, "ttl") /\ UNCHANGED faults
         \/ /\ Fault /\ Goto(e, "done")
            /\ Effect \/ UNCHANGED <<counters, eternal>>
      /\ UNCHANGED <<queue, event, trending, bookKeys, clock, last>>

\* A bug the properties must catch: -2, no such key, taken for -1, no time to
\* live.
TtlOfNoKey(e) ==
  /\ pc[e] = "ttl"
  /\ Goto(e, IF about[e] \in counters THEN "done" ELSE "expire")
  /\ UNCHANGED <<queue, event, redis, clock, faults, last>>

Ttl(e) ==
  /\ pc[e] = "ttl"
  /\ \/ Goto(e, IF about[e] \in eternal THEN "expire" ELSE "done") /\ UNCHANGED faults
     \/ Goto(e, "done") /\ Fault
  /\ UNCHANGED <<queue, event, redis, clock, last>>

Expire(e) ==
  /\ pc[e] = "expire"
  /\ \/ eternal' = eternal \ {about[e]} /\ UNCHANGED faults
     \/ eternal' = eternal /\ Fault
  /\ Goto(e, "done")
  /\ UNCHANGED <<queue, event, trending, bookKeys, counters, clock, last>>

\* The server drops a key whose time to live has run out.
Timeout ==
  /\ \/ /\ TrendingKey \notin eternal
        /\ trending' = Keep(trending, {})
        /\ UNCHANGED <<bookKeys, counters>>
     \/ \E b \in bookKeys : bookKeys' = bookKeys \ {b} /\ UNCHANGED <<trending, counters>>
     \/ \E b \in counters \ eternal :
          counters' = counters \ {b} /\ UNCHANGED <<trending, bookKeys>>
  /\ UNCHANGED <<queue, event, pc, eternal, clock, faults, last>>

Handle(e) ==
  \/ SetBook(e) \/ ZRem(e) \/ ZAddViews(e) \/ Trim(e) \/ ExpireTrending(e)
  \/ HIncrBy(e) \/ Ttl(e) \/ Expire(e)

Init ==
  /\ queue = <<>>
  /\ kind = [e \in Events |-> "none"]
  /\ about \in [Events -> {CHOOSE b \in Books : TRUE}]
  /\ views = [e \in Events |-> 0]
  /\ pc = [e \in Events |-> "none"]
  /\ trending = [b \in {} |-> 0]
  /\ bookKeys = {}
  /\ counters = {}
  /\ eternal = {}
  /\ clock = 1
  /\ faults = 0
  /\ last = [b \in Books |-> "none"]

Next ==
  \/ \E e \in Events : Publish(e) \/ Handle(e)
  \/ Deliver
  \/ Timeout

Spec == Init /\ [][Next]_vars

-----------------------------------------------------------------------------
(* Properties.                                                             *)

Labels == {"none", "sent", "set", "zrem", "zadd", "trim", "expireTrending",
           "hincrby", "ttl", "expire", "done"}

\* The types of the variables; the set of keys without a time to live holds
\* keys that exist.
TypeOK ==
  /\ queue \in Seq(Events)
  /\ kind \in [Events -> Kinds \cup {"none"}]
  /\ about \in [Events -> Books]
  /\ views \in [Events -> 0..MaxViews]
  /\ pc \in [Events -> Labels]
  /\ DOMAIN trending \subseteq Books
  /\ trending \in [DOMAIN trending -> Nat]
  /\ bookKeys \subseteq Books
  /\ counters \subseteq Books
  /\ eternal \subseteq counters \cup {TrendingKey}
  /\ TrendingKey \in eternal => DOMAIN trending # {}
  /\ clock \in Nat /\ faults \in 0..MaxFaults
  /\ last \in [Books -> Kinds \cup {"none"}]

At(labels) == {e \in Events : pc[e] \in labels}

\* cache.service.ts:194, "Keep only top 100": the trending list is longer
\* than that by no more than the handlers that have added to it and not yet
\* trimmed it, and the commands that were rejected.
TrendingBounded ==
  Cardinality(DOMAIN trending) <= Cap + Cardinality(At({"trim"})) + faults

\* cache.service.ts:142, "Set TTL if it's a new key": a counter without a time
\* to live, or a trending list without one, is in the hands of a handler that
\* will give it one, as long as no command is rejected: keys do not pile up.
EveryKeyExpires ==
  faults = 0 =>
    /\ \A b \in eternal \ {TrendingKey} :
         \E e \in At({"ttl", "expire"}) : about[e] = b
    /\ TrendingKey \in eternal => At({"trim", "expireTrending"}) # {}

Settled == queue = <<>> /\ \A e \in Events : pc[e] \in {"none", "done"}

CountPublished(b) == \E e \in Events : kind[e] = "VIEWS_UPDATED" /\ about[e] = b

\* A view's zadd goes out as its event arrives, a deletion's zrem too: once
\* every event is handled, a book whose deletion was the last thing published
\* about it is in the trending list only if its views count was published
\* before, whose zadd waits for the answer to a del.
OnlyCountsRevive ==
  Settled /\ faults = 0 =>
    \A b \in DOMAIN trending : last[b] = "DELETED" => CountPublished(b)

\* cache-invalidation.subscriber.ts:159, "Remove from trending": once every
\* event is handled, a book whose deletion was the last thing published about
\* it is not in the trending list.
DeletedLeavesTrending ==
  Settled /\ faults = 0 => \A b \in DOMAIN trending : last[b] # "DELETED"
=============================================================================
