------------------------ MODULE ResponseCacheProofs -------------------------
(***************************************************************************)
(* ResponseCache implements BoundedStaleness, for any number of requests,  *)
(* any time to live and any lag.  The two things that bound the age of an  *)
(* answer are what a request under way has read, and what is in the cache: *)
(* Fresh says of each how old it can be.                                   *)
(***************************************************************************)
EXTENDS ResponseCache, TLAPS

\* A request that has read has done so in the last MaxLag, and the version it
\* has read was the current one then; a version in the cache was the current
\* one within MaxLag of the time it was stored.
Fresh ==
  /\ \A r \in Requests : pc[r] \in {"answer", "store"} =>
       /\ now <= readAt[r] + MaxLag
       /\ val[r] < data => readAt[r] <= ended[val[r]]
  /\ \A e \in cache :
       /\ e.expires <= now + Ttl
       /\ e.version < data => e.expires <= ended[e.version] + MaxLag + Ttl

IInv == TypeOK /\ Fresh

LEMMA InitInv == Init => IInv
BY CacheAssumption DEF Init, IInv, TypeOK, Fresh, Empty, NoAnswer

\* Every action preserves the invariant.
LEMMA StepInv == IInv /\ [Next]_vars => IInv'
<1> SUFFICES ASSUME IInv, [Next]_vars PROVE IInv'
  OBVIOUS
<1> USE CacheAssumption DEF IInv, TypeOK, Fresh
<1>1. ASSUME NEW r \in Requests, Hit(r) PROVE IInv'
  BY <1>1 DEF Hit, Live, request
<1>2. ASSUME NEW r \in Requests, Miss(r) PROVE IInv'
  BY <1>2 DEF Miss, Goto, history
<1>3. ASSUME NEW r \in Requests, Read(r) PROVE IInv'
  BY <1>3 DEF Read, Goto, history
<1>4. ASSUME NEW r \in Requests, Throw(r) PROVE IInv'
  BY <1>4 DEF Throw, Finish, NoAnswer
<1>5. ASSUME NEW r \in Requests, Answer(r) PROVE IInv'
  BY <1>5 DEF Answer, Goto
<1>6. ASSUME NEW r \in Requests, Store(r) PROVE IInv'
  <2>1. CASE UNCHANGED <<cache, clean>>
    BY <1>6, <2>1 DEF Store, Finish, history
  <2>2. CASE cache' = Entry(val[r], now + Ttl) /\ clean' = FALSE
    <3>1. pc[r] = "store" /\ UNCHANGED <<now, data, gone, ended, served>> /\ Finish({r})
      BY <1>6 DEF Store, history
    <3>2. TypeOK'
      <4>1. cache' = {[version |-> val[r], expires |-> now + Ttl]}
        BY <2>2 DEF Entry
      <4>2. \A e \in cache' : e.version \in 0..data' /\ e.expires \in Nat
        BY <3>1, <4>1
      <4>3. \A e, f \in cache' : e = f
        BY <4>1, Zenon
      <4>4. /\ pc' \in [Requests -> {"idle", "read", "answer", "store"}]
            /\ val' \in [Requests -> 0..data']
            /\ readAt' \in [Requests -> 0..now']
        BY <3>1 DEF Finish
      <4>5. /\ now' \in Nat /\ data' \in Nat
            /\ gone' \in BOOLEAN /\ clean' \in BOOLEAN
            /\ ended' \in [0..(data' - 1) -> 0..now']
            /\ served' \in [Requests -> SUBSET (0..data')]
        BY <2>2, <3>1
      <4> QED
        BY <4>2, <4>3, <4>4, <4>5
    <3>3. \A e \in cache' : e.version = val[r] /\ e.expires = now + Ttl
      BY <2>2 DEF Entry
    <3>4. val[r] < data => now + Ttl <= ended[val[r]] + MaxLag + Ttl
      <4> SUFFICES ASSUME val[r] < data PROVE now + Ttl <= ended[val[r]] + MaxLag + Ttl
        OBVIOUS
      <4>1. readAt[r] <= ended[val[r]] /\ now <= readAt[r] + MaxLag
        BY <3>1
      <4>2. ended[val[r]] \in Nat /\ readAt[r] \in Nat /\ now \in Nat
        OBVIOUS
      <4> QED
        BY <4>1, <4>2
    <3>5. Fresh'
      BY <3>1, <3>2, <3>3, <3>4 DEF Finish
    <3> QED
      BY <3>2, <3>5
  <2> QED
    BY <1>6, <2>1, <2>2 DEF Store
<1>7. CASE Write
  <2>1. /\ data' = data + 1
        /\ ended' = [v \in 0..data |-> IF v = data THEN now ELSE ended[v]]
        /\ gone' \in BOOLEAN
        /\ UNCHANGED <<now, pc, val, readAt, cache, clean, served>>
    BY <1>7 DEF Write, request
  <2>2. ended' \in [0..data -> 0..now]
    BY <2>1
  <2>3. TypeOK'
    BY <2>1, <2>2
  <2>4. \A v \in 0..data : v < data => ended'[v] = ended[v]
    BY <2>1
  <2>5. ended'[data] = now
    BY <2>1
  <2>6. ASSUME NEW r \in Requests, pc[r] \in {"answer", "store"}
        PROVE  now <= readAt[r] + MaxLag /\ readAt[r] <= ended'[val[r]]
    <3>1. now <= readAt[r] + MaxLag /\ readAt[r] \in 0..now /\ val[r] \in 0..data
      BY <2>6
    <3>2. CASE val[r] < data
      BY <2>4, <2>6, <3>1, <3>2
    <3>3. CASE val[r] = data
      BY <2>5, <3>1, <3>3
    <3> QED
      BY <3>1, <3>2, <3>3
  <2>7. ASSUME NEW e \in cache
        PROVE  e.expires <= ended'[e.version] + MaxLag + Ttl
    <3>1. e.version \in 0..data /\ e.expires \in Nat
      BY <2>7
    <3>2. CASE e.version < data
      BY <2>4, <2>7, <3>1, <3>2
    <3>3. CASE e.version = data
      <4>1. e.expires <= now + Ttl
        BY <2>7
      <4> QED
        BY <2>5, <3>1, <3>3, <4>1
    <3> QED
      BY <3>1, <3>2, <3>3
  <2>8. Fresh'
    BY <2>1, <2>6, <2>7
  <2> QED
    BY <2>3, <2>8
<1>8. CASE ClearCaches
  BY <1>8 DEF ClearCaches, ScanKeys, request, history
<1>9. CASE Crash
  BY <1>9 DEF Crash, Finish, NoAnswer
<1>10. CASE Tick
  BY <1>10 DEF Tick, request, history
<1>11. CASE UNCHANGED vars
  BY <1>11 DEF vars, request, history
<1> QED
  BY <1>1, <1>2, <1>3, <1>4, <1>5, <1>6, <1>7, <1>8, <1>9, <1>10, <1>11
     DEF Next, Handle

\* The types are right, and in particular no error is ever in the cache.
THEOREM TypeCorrect == Spec => []TypeOK
<1>1. IInv => TypeOK
  BY DEF IInv
<1> QED
  BY InitInv, StepInv, <1>1, PTL DEF Spec

\* What is served from the cache is recent.
LEMMA LiveIsRecent ==
  ASSUME IInv, NEW e \in Live
  PROVE  e.version \in 0..data /\ Abstract!Recent(e.version)
BY CacheAssumption DEF IInv, TypeOK, Fresh, Live, Abstract!Recent

\* So is what the handler answers.
LEMMA AnswerIsRecent ==
  ASSUME IInv, NEW r \in Requests, pc[r] = "answer"
  PROVE  val[r] \in 0..data /\ Abstract!Recent(val[r])
BY CacheAssumption DEF IInv, TypeOK, Fresh, Abstract!Recent

\* Every step is a step of BoundedStaleness, or none.
LEMMA StepImplements == IInv /\ [Next]_vars => [Abstract!Next]_Abstract!vars
<1> SUFFICES ASSUME IInv, [Next]_vars PROVE [Abstract!Next]_Abstract!vars
  OBVIOUS
<1> USE DEF Abstract!vars, Abstract!Next
<1>1. ASSUME NEW r \in Requests, Hit(r) PROVE Abstract!Serve(r)
  BY <1>1, LiveIsRecent DEF Hit, Abstract!Serve
<1>2. ASSUME NEW r \in Requests, Miss(r) PROVE UNCHANGED Abstract!vars
  BY <1>2 DEF Miss, history
<1>3. ASSUME NEW r \in Requests, Read(r) PROVE UNCHANGED Abstract!vars
  BY <1>3 DEF Read, history
<1>4. ASSUME NEW r \in Requests, Throw(r) PROVE Abstract!Fail({r})
  BY <1>4 DEF Throw, IInv, TypeOK, Abstract!Fail, NoAnswer, Abstract!NoAnswer
<1>5. ASSUME NEW r \in Requests, Answer(r) PROVE Abstract!Serve(r)
  BY <1>5, AnswerIsRecent DEF Answer, Abstract!Serve
<1>6. ASSUME NEW r \in Requests, Store(r) PROVE UNCHANGED Abstract!vars
  BY <1>6 DEF Store, history
<1>7. CASE Write
  BY <1>7 DEF Write, Abstract!Write
<1>8. CASE ClearCaches
  BY <1>8 DEF ClearCaches, history
<1>9. ASSUME Crash
      PROVE  Abstract!Fail({r \in Requests : pc[r] \in {"read", "answer"}})
  BY <1>9 DEF Crash, Abstract!Fail, NoAnswer, Abstract!NoAnswer
<1>10. CASE Tick
  BY <1>10 DEF Tick, Abstract!Tick, history
<1>11. CASE UNCHANGED vars
  BY <1>11 DEF vars, history
<1> QED
  BY <1>1, <1>2, <1>3, <1>4, <1>5, <1>6, <1>7, <1>8, <1>9, <1>10, <1>11
     DEF Next, Handle

\* cache.interceptor.ts: every answer is a version of the data that was current
\* within the last Ttl + MaxLag.
THEOREM CacheImplementsBoundedStaleness == Spec => StalenessBounded
<1>1. Init => Abstract!Init
  BY DEF Init, Abstract!Init, NoAnswer, Abstract!NoAnswer
<1> QED
  BY <1>1, InitInv, StepInv, StepImplements, PTL
     DEF Spec, StalenessBounded, Abstract!Spec
=============================================================================
