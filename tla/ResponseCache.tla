--------------------------- MODULE ResponseCache ----------------------------
(***************************************************************************)
(* The interceptor that answers the GET requests of one URL from Redis, or *)
(* from the handler, whose answer it then stores under a key of its own.   *)
(* URLs have keys of their own and do not affect each other.               *)
(*                                                                         *)
(* A request asks Redis; on a miss, or if Redis rejects, the handler reads *)
(* the store, awaits the log, the events and the rest, and answers; the    *)
(* SETEX goes out with the answer and nobody waits for it.  The data is a  *)
(* version number; some versions are of a book that is gone, which the     *)
(* handler answers with an error.  Time is discrete; MaxLag is the time an *)
(* answer may take from the handler's read to the end of the SETEX: no     *)
(* timeout in the code bounds it, and what is proved depends on it.        *)
(***************************************************************************)
EXTENDS Integers

CONSTANTS
  Requests,  \* requests under way at the same time
  Ttl,       \* of the route's Cacheable decorator
  MaxLag,
  MaxTime,   \* bound on the clock
  MaxData    \* bound on the number of versions

ASSUME CacheAssumption ==
  Ttl \in Nat /\ MaxLag \in Nat /\ MaxTime \in Nat /\ MaxData \in Nat

VARIABLES
  now,
  data,     \* the current version of what the handler reads
  gone,     \* there is no book to read
  pc,       \* of a request: what it does next
  val,      \* of a request: the version its handler has read
  readAt,   \* of a request: when
  cache,    \* the key's value in Redis: none, or a version and its expiry
  clean,    \* history: nothing was stored since the caches were last cleared
  ended,    \* history: when a version was replaced
  served    \* history: the set of the version a request was last answered with

request == <<pc, val, readAt>>
history == <<ended, served>>
vars    == <<now, data, gone, request, cache, clean, history>>

NoAnswer == {}
Empty == {}
Entry(v, expires) == {[version |-> v, expires |-> expires]}

\* scanKeys finds no key, whatever the pattern.
ScanKeys(entries) == {}

Goto(r, label) == pc' = [pc EXCEPT ![r] = label]

\* The request is over: what it has read is forgotten.
Finish(R) ==
  /\ pc' = [r \in Requests |-> IF r \in R THEN "idle" ELSE pc[r]]
  /\ val' = [r \in Requests |-> IF r \in R THEN 0 ELSE val[r]]
  /\ readAt' = [r \in Requests |-> IF r \in R THEN 0 ELSE readAt[r]]

Live == {e \in cache : now < e.expires}

-----------------------------------------------------------------------------
\* A bug the properties must catch: a hit renews the time to live.
HitRenews(r) ==
  /\ pc[r] = "idle"
  /\ \E e \in Live : /\ served' = [served EXCEPT ![r] = {e.version}]
                    /\ cache' = Entry(e.version, now + Ttl)
  /\ UNCHANGED <<now, data, gone, request, clean, ended>>

\* The answer is in Redis.
Hit(r) ==
  /\ pc[r] = "idle"
  /\ \E e \in Live : served' = [served EXCEPT ![r] = {e.version}]
  /\ UNCHANGED <<now, data, gone, request, cache, clean, ended>>

\* It is not, or Redis rejects, which CacheService.get answers with null.
Miss(r) ==
  /\ pc[r] = "idle"
  /\ Goto(r, "read")
  /\ UNCHANGED <<now, data, gone, val, readAt, cache, clean, history>>

\* The handler reads the store.
Read(r) ==
  /\ pc[r] = "read" /\ ~ gone
  /\ Goto(r, "answer")
  /\ val' = [val EXCEPT ![r] = data]
  /\ readAt' = [readAt EXCEPT ![r] = now]
  /\ UNCHANGED <<now, data, gone, cache, clean, history>>

\* A bug the properties must catch: errors are stored.
ThrowStored(r) ==
  /\ pc[r] \in {"read", "answer"}
  /\ Finish({r})
  /\ served' = [served EXCEPT ![r] = NoAnswer]
  /\ cache' = Entry(-1, now + Ttl)
  /\ UNCHANGED <<now, data, gone, clean, ended>>

\* There is no book, or a call of the handler is rejected: an error, which is
\* not stored.
Throw(r) ==
  /\ pc[r] \in {"read", "answer"}
  /\ Finish({r})
  /\ served' = [served EXCEPT ![r] = NoAnswer]
  /\ UNCHANGED <<now, data, gone, cache, clean, ended>>

Answer(r) ==
  /\ pc[r] = "answer"
  /\ Goto(r, "store")
  /\ served' = [served EXCEPT ![r] = {val[r]}]
  /\ UNCHANGED <<now, data, gone, val, readAt, cache, clean, ended>>

\* The SETEX that went out with the answer; CacheService.set swallows what
\* Redis rejects.
Store(r) ==
  /\ pc[r] = "store"
  /\ Finish({r})
  /\ \/ cache' = Entry(val[r], now + Ttl) /\ clean' = FALSE
     \/ UNCHANGED <<cache, clean>>
  /\ UNCHANGED <<now, data, gone, history>>

-----------------------------------------------------------------------------
\* What the handler reads changes: BookService writes, or another replaces it.
Write ==
  /\ data < MaxData
  /\ data' = data + 1
  /\ gone' \in BOOLEAN
  /\ ended' = [v \in 0..data |-> IF v = data THEN now ELSE ended[v]]
  /\ UNCHANGED <<now, request, cache, clean, served>>

\* handleSyncCompleted, "Clear all caches after sync"; the handlers of the
\* other events delete by patterns in the same way.
ClearCaches ==
  /\ cache' = cache \ ScanKeys(cache)
  /\ clean' = TRUE
  /\ UNCHANGED <<now, data, gone, request, history>>

\* The process dies, and its requests with it.
Crash ==
  /\ Finish(Requests)
  /\ served' = [r \in Requests |-> IF pc[r] \in {"read", "answer"} THEN NoAnswer ELSE served[r]]
  /\ UNCHANGED <<now, data, gone, cache, clean, ended>>

Tick ==
  /\ now < MaxTime
  /\ \A r \in Requests : pc[r] \in {"answer", "store"} => now < readAt[r] + MaxLag
  /\ now' = now + 1
  /\ UNCHANGED <<data, gone, request, cache, clean, history>>

Init ==
  /\ now = 0
  /\ data = 0
  /\ gone \in BOOLEAN
  /\ pc = [r \in Requests |-> "idle"]
  /\ val = [r \in Requests |-> 0]
  /\ readAt = [r \in Requests |-> 0]
  /\ cache = Empty
  /\ clean = TRUE
  /\ ended = [v \in {} |-> 0]
  /\ served = [r \in Requests |-> NoAnswer]

Handle(r) == Hit(r) \/ Miss(r) \/ Read(r) \/ Throw(r) \/ Answer(r) \/ Store(r)

Next == (\E r \in Requests : Handle(r)) \/ Write \/ ClearCaches \/ Crash \/ Tick

Spec == Init /\ [][Next]_vars

-----------------------------------------------------------------------------
(* Properties.                                                             *)

\* The types of the variables: the key has at most one value, and what is
\* stored is a version that was read, never an error.
TypeOK ==
  /\ now \in Nat /\ data \in Nat
  /\ gone \in BOOLEAN /\ clean \in BOOLEAN
  /\ pc \in [Requests -> {"idle", "read", "answer", "store"}]
  /\ val \in [Requests -> 0..data]
  /\ readAt \in [Requests -> 0..now]
  /\ \A e \in cache : e.version \in 0..data /\ e.expires \in Nat
  /\ \A e, f \in cache : e = f
  /\ ended \in [0..(data - 1) -> 0..now]
  /\ served \in [Requests -> SUBSET (0..data)]

Abstract == INSTANCE BoundedStaleness WITH Bound <- Ttl + MaxLag

\* cache.interceptor.ts:43: whatever requests, writes, failures and late SETEXs
\* do to each other, a request is answered with a version of the data that was
\* the current one within the last Ttl + MaxLag.
StalenessBounded == Abstract!Spec

\* cache-invalidation.subscriber.ts:192, "All caches cleared after sync
\* completion": nothing is left in the cache that was stored before.
AllCachesCleared == clean => Live = Empty
=============================================================================
