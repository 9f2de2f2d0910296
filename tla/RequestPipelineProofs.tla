------------------------ MODULE RequestPipelineProofs ------------------------
(***************************************************************************)
(* Theorems about RequestPipeline, for any number of requests, books,      *)
(* hosts and faults.                                                       *)
(***************************************************************************)
EXTENDS RequestPipeline, TLAPS

\* Keys tell URLs and verbs apart.
LEMMA KeysDiffer ==
  ASSUME NEW a, NEW b, GenerateCacheKey(a) = GenerateCacheKey(b)
  PROVE  Path(a) = Path(b) /\ Verb(a) = Verb(b)
<1>1. GenerateCacheKey(a)[2] = Verb(a) /\ GenerateCacheKey(a)[3] = Path(a)
  BY DEF GenerateCacheKey
<1>2. GenerateCacheKey(b)[2] = Verb(b) /\ GenerateCacheKey(b)[3] = Path(b)
  BY DEF GenerateCacheKey
<1> QED
  BY <1>1, <1>2

\* A body that was made for a request, or could have been.
MadeFor(body, a) ==
  /\ body.wraps = 1
  /\ body.meta.path = Path(a) /\ body.meta.verb = Verb(a)

\* The host in a body that was sent to r is that of a request of its URL.
HostKnown(r, host) ==
  host # ask[r].host =>
    \E q \in Answered \ {r} : /\ ask[q].host = host
                              /\ GenerateCacheKey(ask[q]) = GenerateCacheKey(ask[r])

\* What r was sent was made for it, or is bare because nothing could be.
WellMade(r, line, body) ==
  /\ MadeFor(body, ask[r])
  /\ body.meta.status = line
  /\ HostKnown(r, body.meta.host)

Bare(a, line, body) == ~HasUrl(a) /\ body.wraps = 0 /\ line = 500

WellAnswered(r) ==
  \/ WellMade(r, answer[r].line, answer[r].body)
  \/ Bare(ask[r], answer[r].line, answer[r].body)

\* What is stored was made for a request of that key, which was answered.
WellStored(k) ==
  /\ cache[k].meta.status = 200
  /\ \E q \in Answered : /\ k = GenerateCacheKey(ask[q])
                         /\ MadeFor(cache[k], ask[q])
                         /\ cache[k].meta.host = ask[q].host

Steps == {"idle", "lookup", "handle", "format", "catch", "store", "sent"}

AnswerInv ==
  /\ ask \in [Requests -> Asks] /\ pc \in [Requests -> Steps]
  /\ DOMAIN result = Requests /\ DOMAIN answer = Requests
  /\ \A r \in Requests :
       /\ pc[r] \in {"lookup", "store"} => ask[r].method \in Cacheable
       /\ pc[r] = "format" => ask[r].method # "none"
       /\ pc[r] = "handle" => ask[r].method # "none"
       /\ pc[r] = "store" => /\ answer[r].line = 200 /\ answer[r].body.wraps = 1
                             /\ answer[r].body.meta.host = ask[r].host
  /\ \A r \in Answered : WellAnswered(r)
  /\ \A k \in Stored : WellStored(k)

LEMMA AnswerInit == ASSUME Init PROVE AnswerInv
<1>1. Answered = {} /\ Stored = {} /\ \A r \in Requests : pc[r] = "idle"
  BY DEF Init, Answered, Stored
<1>2. /\ ask \in [Requests -> Asks] /\ pc \in [Requests -> Steps]
      /\ DOMAIN result = Requests /\ DOMAIN answer = Requests
  BY DEF Init, Steps
<1> QED
  BY <1>1, <1>2 DEF AnswerInv

\* Requests that are answered stay answered, with what they were sent, and so
\* does what is stored.
LEMMA StaysAnswered ==
  ASSUME AnswerInv, UNCHANGED ask, Answered \subseteq Answered',
         NEW r \in Answered, answer'[r] = answer[r]
  PROVE  WellAnswered(r)'
  BY DEF AnswerInv, WellAnswered, WellMade, Bare, HasUrl, HostKnown, MadeFor

LEMMA StaysStored ==
  ASSUME AnswerInv, UNCHANGED ask, Answered \subseteq Answered',
         NEW k \in Stored, cache'[k] = cache[k]
  PROVE  WellStored(k)'
  BY DEF AnswerInv, WellStored, MadeFor

\* A step that answers nobody and stores nothing.
LEMMA NoAnswer ==
  ASSUME AnswerInv, UNCHANGED <<ask, answer>>, Answered' = Answered, pc' \in [Requests -> Steps],
         DOMAIN result' = Requests,
         \A r \in Requests :
           /\ pc'[r] \in {"lookup", "store"} => ask[r].method \in Cacheable
           /\ pc'[r] \in {"format", "handle"} => ask[r].method # "none"
           /\ pc'[r] = "store" => pc[r] = "store",
         Stored' \subseteq Stored, \A k \in Stored' : cache'[k] = cache[k]
  PROVE  AnswerInv'
<1>1. \A r \in Answered' : WellAnswered(r)'
  BY StaysAnswered
<1>2. \A k \in Stored' : WellStored(k)'
  BY StaysStored
<1> QED
  BY <1>1, <1>2 DEF AnswerInv

\* A request that is sent an answer, of the meta of one with its key.
LEMMA AnswerSent ==
  ASSUME AnswerInv, NEW r \in Requests, pc[r] \notin {"store", "sent"},
         UNCHANGED <<cache, ask, result>>, NEW step \in {"store", "sent"}, Goto(r, step),
         NEW line, NEW body, Send(r, line, body),
         WellMade(r, line, body) \/ Bare(ask[r], line, body),
         step = "store" => /\ line = 200 /\ body.wraps = 1
                           /\ body.meta.host = ask[r].host /\ ask[r].method \in Cacheable
  PROVE  AnswerInv'
<1>1. /\ pc' = [pc EXCEPT ![r] = step]
      /\ answer' = [answer EXCEPT ![r] = [line |-> line, body |-> body]]
      /\ pc \in [Requests -> Steps] /\ DOMAIN answer = Requests
  BY DEF Goto, Send, AnswerInv
<1>2. /\ pc' \in [Requests -> Steps] /\ pc'[r] = step
      /\ \A q \in Requests \ {r} : pc'[q] = pc[q] /\ answer'[q] = answer[q]
      /\ answer'[r].line = line /\ answer'[r].body = body /\ DOMAIN answer' = Requests
  BY <1>1 DEF Steps
<1>3. Answered' = Answered \cup {r} /\ r \notin Answered
  BY <1>2 DEF Answered
<1>4. HostKnown(r, body.meta.host) => HostKnown(r, body.meta.host)'
  BY <1>3 DEF HostKnown
<1>5. WellAnswered(r)'
  <2>1. HostKnown(r, body.meta.host) => HostKnown(r, answer[r].body.meta.host)'
    BY <1>2, <1>4 DEF HostKnown
  <2> QED
    BY <1>2, <2>1 DEF WellAnswered, WellMade, Bare, HasUrl, MadeFor
<1>6. \A q \in Answered' : WellAnswered(q)'
  <2>1. \A q \in Answered : answer'[q] = answer[q]
    BY <1>2, <1>3 DEF Answered
  <2>2. \A q \in Answered : WellAnswered(q)'
    BY <1>3, <2>1, StaysAnswered
  <2> QED
    BY <1>3, <1>5, <2>2
<1>7. \A k \in Stored' : WellStored(k)'
  BY <1>3, StaysStored DEF Stored
<1>8. \A q \in Requests :
        /\ pc'[q] \in {"lookup", "store"} => ask'[q].method \in Cacheable
        /\ pc'[q] = "format" => ask'[q].method # "none"
        /\ pc'[q] = "handle" => ask'[q].method # "none"
        /\ pc'[q] = "store" => /\ answer'[q].line = 200 /\ answer'[q].body.wraps = 1
                               /\ answer'[q].body.meta.host = ask'[q].host
  BY <1>2 DEF AnswerInv
<1> QED
  BY <1>2, <1>6, <1>7, <1>8 DEF AnswerInv

LEMMA LookupAnswers ==
  ASSUME AnswerInv, NEW r \in Requests, Lookup(r)
  PROVE  AnswerInv'
<1> DEFINE key == GenerateCacheKey(ask[r])
<1>1. pc[r] = "lookup" /\ UNCHANGED <<items, cache, up, ask, result, faults>>
      /\ ask[r].method \in Cacheable /\ pc \in [Requests -> Steps]
  BY DEF Lookup, AnswerInv
<1>2. CASE up /\ key \in Stored
  <2>1. Send(r, 200, cache[key]) /\ Goto(r, "sent")
    BY <1>2 DEF Lookup
  <2>2. PICK q \in Answered : /\ key = GenerateCacheKey(ask[q])
                              /\ MadeFor(cache[key], ask[q])
                              /\ cache[key].meta.host = ask[q].host
    BY <1>2 DEF AnswerInv, WellStored
  <2>3. MadeFor(cache[key], ask[r]) /\ cache[key].meta.status = 200
    BY <1>2, <2>2, KeysDiffer DEF MadeFor, AnswerInv, WellStored
  <2>4. HostKnown(r, cache[key].meta.host)
    BY <1>1, <2>2 DEF HostKnown, Answered
  <2> HIDE DEF key
  <2> QED
    BY <1>1, <2>1, <2>3, <2>4, AnswerSent DEF WellMade
<1>3. CASE ~(up /\ key \in Stored)
  <2>1. Goto(r, "handle") /\ UNCHANGED answer
    BY <1>3 DEF Lookup
  <2>2. pc' \in [Requests -> Steps] /\ pc' = [pc EXCEPT ![r] = "handle"]
    BY <1>1, <2>1 DEF Goto, Steps
  <2>3. Answered' = Answered
    BY <1>1, <2>2 DEF Answered
  <2>4. "none" \notin Cacheable
    BY DEF Cacheable
  <2>5. \A q \in Requests : /\ pc'[q] \in {"lookup", "store"} => ask[q].method \in Cacheable
                            /\ pc'[q] \in {"format", "handle"} => ask[q].method # "none"
                            /\ pc'[q] = "store" => pc[q] = "store"
    BY <1>1, <2>2, <2>4 DEF AnswerInv
  <2> QED
    BY <1>1, <2>1, <2>2, <2>3, <2>5, NoAnswer DEF Stored, AnswerInv
<1> QED
  BY <1>2, <1>3

LEMMA StoreAnswers ==
  ASSUME AnswerInv, NEW r \in Requests, Store(r)
  PROVE  AnswerInv'
<1> DEFINE key == GenerateCacheKey(ask[r])
<1>1. /\ pc[r] = "store" /\ pc' = [pc EXCEPT ![r] = "sent"]
      /\ UNCHANGED <<items, up, ask, result, answer, faults>>
      /\ pc \in [Requests -> Steps]
  BY DEF Store, Goto, AnswerInv
<1>2. Answered' = Answered /\ r \in Answered /\ pc' \in [Requests -> Steps]
  BY <1>1 DEF Answered, Steps
<1>3. \A q \in Answered' : WellAnswered(q)'
  BY <1>1, <1>2, StaysAnswered
<1>4. \A k \in Stored' : WellStored(k)'
  <2>1. CASE up
    <3>1. cache' = With(key, answer[r].body)
      BY <2>1 DEF Store
    <3>2. /\ Stored' = Stored \cup {key} /\ cache'[key] = answer[r].body
          /\ \A k \in Stored : k # key => cache'[k] = cache[k]
      BY <3>1 DEF With, Stored
    <3>3. ASSUME NEW k \in Stored', k = key
          PROVE  WellStored(k)'
      <4>1. /\ MadeFor(answer[r].body, ask[r])
            /\ answer[r].body.meta.status = 200 /\ answer[r].body.meta.host = ask[r].host
        BY <1>1, <1>2 DEF AnswerInv, WellAnswered, WellMade, Bare
      <4>2. MadeFor(cache'[key], ask'[r])
        BY <1>1, <3>2, <4>1
      <4> QED
        BY <1>1, <1>2, <3>2, <3>3, <4>1, <4>2 DEF WellStored
    <3>4. \A k \in Stored : k # key => WellStored(k)'
      BY <1>1, <1>2, <3>2, StaysStored
    <3> QED
      BY <3>2, <3>3, <3>4
  <2>2. CASE ~up
    BY <1>1, <1>2, <2>2, StaysStored DEF Store, Stored
  <2> QED
    BY <2>1, <2>2
<1>5. \A q \in Requests : pc'[q] # pc[q] => pc'[q] = "sent"
  BY <1>1
<1> QED
  BY <1>1, <1>2, <1>3, <1>4, <1>5 DEF AnswerInv

LEMMA StepAnswers ==
  ASSUME AnswerInv, NEW r \in Requests, Arrive(r) \/ Step(r)
  PROVE  AnswerInv'
<1>0. pc \in [Requests -> Steps] /\ DOMAIN result = Requests
  BY DEF AnswerInv
<1>1. CASE Arrive(r) \/ Handle(r)
  <2>1. PICK step \in {"catch", "lookup", "handle", "format"} :
          /\ pc' = [pc EXCEPT ![r] = step]
          /\ step = "lookup" => ask[r].method \in Cacheable
          /\ step \in {"handle", "format"} => ask[r].method # "none"
    BY <1>1 DEF Arrive, Handle, Goto, AnswerInv
  <2>2. UNCHANGED <<cache, ask, answer>> /\ pc[r] \in {"idle", "handle"}
        /\ DOMAIN result' = Requests
    BY <1>0, <1>1 DEF Arrive, Handle
  <2>3. Answered' = Answered /\ pc' \in [Requests -> Steps]
    BY <1>0, <2>1, <2>2 DEF Answered, Steps
  <2>4. \A q \in Requests : /\ pc'[q] \in {"lookup", "store"} => ask[q].method \in Cacheable
                            /\ pc'[q] \in {"format", "handle"} => ask[q].method # "none"
                            /\ pc'[q] = "store" => pc[q] = "store"
    BY <1>0, <2>1 DEF AnswerInv
  <2> QED
    BY <2>2, <2>3, <2>4, NoAnswer DEF Stored
<1>2. CASE Format(r) /\ HasUrl(ask[r])
  <2> DEFINE a == ask[r]
             body == Body(1, Meta(a, StatusOf(a)), FALSE)
  <2>1. /\ Send(r, StatusOf(a), body) /\ pc[r] = "format"
        /\ Goto(r, IF a.method \in Cacheable THEN "store" ELSE "sent")
        /\ UNCHANGED <<cache, ask, result>>
    BY <1>2 DEF Format
  <2>2. /\ MadeFor(body, a) /\ body.wraps = 1
        /\ body.meta.status = StatusOf(a) /\ body.meta.host = a.host
    BY DEF MadeFor, Body, Meta
  <2>3. a.method \in Cacheable => StatusOf(a) = 200
    BY DEF Cacheable, StatusOf, Verb
  <2>4. WellMade(r, StatusOf(a), body)
    BY <2>2 DEF WellMade, HostKnown
  <2> HIDE DEF body
  <2> QED
    BY <2>1, <2>2, <2>3, <2>4, AnswerSent
<1>3. CASE Format(r) /\ ~HasUrl(ask[r])
  <2>1. /\ pc[r] = "format" /\ pc' = [pc EXCEPT ![r] = "catch"]
        /\ UNCHANGED <<cache, ask, answer>> /\ DOMAIN result' = Requests
    BY <1>0, <1>3 DEF Format, Goto
  <2>2. Answered' = Answered /\ pc' \in [Requests -> Steps]
    BY <1>0, <2>1 DEF Answered, Steps
  <2>3. \A q \in Requests : /\ pc'[q] \in {"lookup", "store"} => ask[q].method \in Cacheable
                            /\ pc'[q] \in {"format", "handle"} => ask[q].method # "none"
                            /\ pc'[q] = "store" => pc[q] = "store"
    BY <1>0, <2>1 DEF AnswerInv
  <2> QED
    BY <2>1, <2>2, <2>3, NoAnswer DEF Stored
<1>4. CASE Catch(r)
  <2> DEFINE thrown == result[r]
             status == StatusThrown(Filter(thrown), thrown)
             body == IF HasUrl(ask[r]) THEN RespondWithError(ask[r], status)
                                       ELSE Unwrapped(ask[r], 500)
             line == IF HasUrl(ask[r]) THEN status ELSE 500
  <2>1. Filter(thrown) = "GenericExeptionFilters" => thrown[1] # "HttpException"
    BY DEF Filter, Filters, Catches
  <2>2. /\ Send(r, line, body) /\ Goto(r, "sent") /\ pc[r] = "catch"
        /\ UNCHANGED <<cache, ask, result>>
    BY <1>4, <2>1 DEF Catch
  <2>3. WellMade(r, line, body) \/ Bare(ask[r], line, body)
    <3>1. CASE HasUrl(ask[r])
      <4>1. /\ MadeFor(body, ask[r]) /\ body.meta.status = line
            /\ body.meta.host = ask[r].host
        BY <3>1 DEF MadeFor, RespondWithError, Body, Meta
      <4> QED
        BY <4>1 DEF WellMade, HostKnown
    <3>2. CASE ~HasUrl(ask[r])
      BY <3>2 DEF Bare, Unwrapped, Body
    <3> QED
      BY <3>1, <3>2
  <2> HIDE DEF body, line
  <2> QED
    BY <2>2, <2>3, AnswerSent
<1> QED
  BY <1>1, <1>2, <1>3, <1>4, LookupAnswers, StoreAnswers DEF Step

LEMMA AnswerNext == ASSUME AnswerInv, [Next]_vars PROVE AnswerInv'
<1>1. CASE \E r \in Requests : Arrive(r) \/ Step(r)
  BY <1>1, StepAnswers
<1>2. CASE Expire \/ RedisAway \/ RedisBack \/ UNCHANGED vars
  <2>1. UNCHANGED <<ask, pc, result, answer>> /\ Answered' = Answered
    BY <1>2 DEF Expire, RedisAway, RedisBack, vars, Answered
  <2>2. Stored' \subseteq Stored /\ \A k \in Stored' : cache'[k] = cache[k]
    BY <1>2 DEF Expire, RedisAway, RedisBack, vars, Stored
  <2> QED
    BY <2>1, <2>2, NoAnswer DEF AnswerInv
<1> QED
  BY <1>1, <1>2 DEF Next

LEMMA AnswerInvariant == Spec => []AnswerInv
  BY AnswerInit, AnswerNext, PTL DEF Spec

\* Whatever path a request took, its answer was wrapped once, for any number of
\* requests: what is stored was wrapped, and each exception meets a filter that
\* takes it.  The one way to a bare answer, an error of Express, is a Host of
\* which the formatter and the filters can make no URL.
THEOREM AnswersWrappedOnce == Spec => []WrappedOnce
<1>1. AnswerInv => WrappedOnce
  BY DEF AnswerInv, WellAnswered, WellMade, Bare, WellStored, MadeFor, WrappedOnce
<1> QED
  BY <1>1, AnswerInvariant, PTL

\* And it is about what was asked: the keys of the cache and the order of the
\* filters and of the interceptors fit each other.
THEOREM AnswersFit == Spec => []AnswerIsOwn
<1>1. AnswerInv => AnswerIsOwn
  BY DEF AnswerInv, WellAnswered, WellMade, Bare, MadeFor, HostKnown, AnswerIsOwn
<1> QED
  BY <1>1, AnswerInvariant, PTL

-----------------------------------------------------------------------------
(* The types.  What is stored is no error because what is about to be      *)
(* stored is none.                                                         *)

TypeInv ==
  /\ TypeOK
  /\ \A r \in Requests : pc[r] = "store" => ~answer[r].body.error

Answers == [line : Statuses, body : Bodies]

Results == {"nothing", "HttpException", "Error"} \X Statuses

\* The meta made for a request is one, and so is a body.
LEMMA BodyType ==
  ASSUME NEW a \in Asks, NEW status \in Statuses, NEW wraps \in {0, 1}, NEW error \in BOOLEAN
  PROVE  /\ Body(wraps, Meta(a, status), error) \in Bodies
         /\ Body(wraps, Meta(a, status), error).error = error
<1>1. a.host \in Hosts
  BY DEF Asks
<1> QED
  BY <1>1 DEF Body, Meta, Bodies

LEMMA KeyType == ASSUME NEW a \in Asks PROVE GenerateCacheKey(a) \in {GenerateCacheKey(x) : x \in Asks}
  OBVIOUS

\* A request is sent an answer.
LEMMA SendType ==
  ASSUME TypeInv, NEW r \in Requests, NEW line \in Statuses, NEW body \in Bodies,
         NEW step \in {"store", "sent"}, Goto(r, step), Send(r, line, body),
         step = "store" => ~body.error,
         UNCHANGED <<items, cache, up, ask, result, faults>>
  PROVE  TypeInv'
<1>1. /\ pc \in [Requests -> Steps]
      /\ answer \in [Requests -> Answers]
  BY DEF TypeInv, TypeOK, Answers, Steps
<1>2. answer' = [answer EXCEPT ![r] = [line |-> line, body |-> body]]
      /\ pc' = [pc EXCEPT ![r] = step]
  BY DEF Send, Goto
<1>3. [line |-> line, body |-> body] \in Answers
  BY DEF Answers
<1>4. answer' \in [Requests -> Answers]
  BY <1>1, <1>2, <1>3
<1>5. pc' \in [Requests -> Steps]
  BY <1>1, <1>2 DEF Steps
<1>6. TypeOK'
  BY <1>4, <1>5 DEF TypeInv, TypeOK, Answers, Stored, Steps
<1>7. \A q \in Requests : pc'[q] = "store" => ~answer'[q].body.error
  BY <1>1, <1>2 DEF TypeInv
<1> QED
  BY <1>6, <1>7 DEF TypeInv

\* A request goes on unanswered.
LEMMA GotoType ==
  ASSUME TypeInv, NEW r \in Requests, NEW step \in {"lookup", "handle", "format", "catch"},
         Goto(r, step), UNCHANGED <<cache, up, ask, answer>>, items' \subseteq Books,
         UNCHANGED result \/ \E thrown \in Results : result' = [result EXCEPT ![r] = thrown],
         UNCHANGED faults \/ Fault
  PROVE  TypeInv'
<1>1. /\ pc' \in [Requests -> Steps]
      /\ \A q \in Requests : pc'[q] = "store" => pc[q] = "store"
  BY DEF TypeInv, TypeOK, Goto, Steps
<1>2. faults' \in 0..MaxFaults
  BY PipelineAssumption DEF TypeInv, TypeOK, Fault
<1>3. result' \in [Requests -> Results]
  BY DEF TypeInv, TypeOK, Results
<1> QED
  BY <1>1, <1>2, <1>3 DEF TypeInv, TypeOK, Stored, Steps, Results

\* What the routing and the methods throw.
LEMMA Thrown ==
  /\ <<"HttpException", 404>> \in Results
  /\ <<"HttpException", 400>> \in Results
  /\ <<"Error", 413>> \in Results
  /\ <<"Error", 500>> \in Results
  BY DEF Results, Statuses

LEMMA StepType ==
  ASSUME TypeInv, NEW r \in Requests, Arrive(r) \/ Step(r)
  PROVE  TypeInv'
<1>1. /\ ask[r] \in Asks /\ result[r] \in Results
      /\ items \subseteq Books
  BY DEF TypeInv, TypeOK, Results
<1>2. CASE Arrive(r)
  <2>1. \E step \in {"lookup", "handle", "catch"} : Goto(r, step)
    BY <1>2 DEF Arrive
  <2>2. UNCHANGED result \/ \E thrown \in Results : result' = [result EXCEPT ![r] = thrown]
    BY <1>2, Thrown DEF Arrive
  <2> QED
    BY <1>1, <1>2, <2>1, <2>2, GotoType DEF Arrive
<1>3. CASE Lookup(r)
  <2> DEFINE key == GenerateCacheKey(ask[r])
  <2>1. CASE up /\ key \in Stored
    <3>1. cache[key] \in Bodies
      BY <2>1 DEF TypeInv, TypeOK
    <3>2. Send(r, 200, cache[key]) /\ Goto(r, "sent")
          /\ UNCHANGED <<items, cache, up, ask, result, faults>>
      BY <1>3, <2>1 DEF Lookup
    <3> HIDE DEF key
    <3> QED
      BY <3>1, <3>2, SendType DEF Statuses
  <2>2. CASE ~(up /\ key \in Stored)
    BY <1>1, <1>3, <2>2, GotoType DEF Lookup
  <2> QED
    BY <2>1, <2>2
<1>4. CASE Handle(r)
  <2>1. Goto(r, "format") \/ Goto(r, "catch")
    BY <1>4 DEF Handle
  <2>2. items' \subseteq Books
    <3>1. ask[r].book \in Books
      BY <1>1 DEF Asks
    <3>2. Done(ask[r]) \subseteq Books
      BY <1>1, <3>1 DEF Done
    <3> QED
      BY <1>1, <1>4, <3>2 DEF Handle
  <2>3. UNCHANGED result \/ \E thrown \in Results : result' = [result EXCEPT ![r] = thrown]
    BY <1>4, Thrown DEF Handle
  <2>4. (UNCHANGED faults \/ Fault) /\ UNCHANGED <<cache, up, ask, answer>>
    BY <1>4 DEF Handle
  <2> QED
    BY <2>1, <2>2, <2>3, <2>4, GotoType
<1>8. CASE Format(r) /\ ~HasUrl(ask[r])
  <2>1. /\ Goto(r, "catch") /\ UNCHANGED <<items, cache, up, ask, answer, faults>>
        /\ \E thrown \in Results : result' = [result EXCEPT ![r] = thrown]
    BY <1>8, Thrown DEF Format
  <2> QED
    BY <1>1, <2>1, GotoType
<1>5. CASE Format(r) /\ HasUrl(ask[r])
  <2> DEFINE status == StatusOf(ask[r])
             body == Body(1, Meta(ask[r], status), FALSE)
             step == IF ask[r].method \in Cacheable THEN "store" ELSE "sent"
  <2>1. status \in Statuses
    BY DEF StatusOf, Statuses
  <2>2. body \in Bodies /\ ~body.error
    <3> HIDE DEF status
    <3> QED
      BY <1>1, <2>1, BodyType
  <2>3. Send(r, status, body) /\ Goto(r, step) /\ step \in {"store", "sent"}
        /\ UNCHANGED <<items, cache, up, ask, result, faults>>
    BY <1>5 DEF Format
  <2> HIDE DEF status, body, step
  <2> QED
    BY <2>1, <2>2, <2>3, SendType
<1>6. CASE Store(r)
  <2> DEFINE key == GenerateCacheKey(ask[r])
             body == answer[r].body
  <2>1. pc[r] = "store" /\ Goto(r, "sent") /\ UNCHANGED <<items, up, ask, result, answer, faults>>
    BY <1>6 DEF Store
  <2>2. body \in Bodies /\ ~body.error
    BY <2>1 DEF TypeInv, TypeOK
  <2>3. /\ pc' \in [Requests -> Steps]
        /\ \A q \in Requests : pc'[q] = "store" => pc[q] = "store"
    BY <2>1 DEF TypeInv, TypeOK, Goto, Steps
  <2>4. key \in {GenerateCacheKey(a) : a \in Asks}
    BY <1>1, KeyType
  <2>5. cache' = cache \/ cache' = With(key, body)
    BY <1>6 DEF Store
  <2> HIDE DEF key, body
  <2>6. /\ Stored' \subseteq {GenerateCacheKey(a) : a \in Asks}
        /\ \A k \in Stored' : cache'[k] \in Bodies /\ ~cache'[k].error
    BY <2>2, <2>4, <2>5 DEF TypeInv, TypeOK, With, Stored
  <2> QED
    BY <2>1, <2>3, <2>6 DEF TypeInv, TypeOK, Steps
<1>7. CASE Catch(r)
  <2> DEFINE thrown == result[r]
             status == StatusThrown(Filter(thrown), thrown)
  <2>1. status \in Statuses /\ thrown[2] \in Statuses /\ 500 \in Statuses
    BY <1>1 DEF StatusThrown, Statuses, Results
  <2>2. /\ Goto(r, "sent") /\ UNCHANGED <<items, cache, up, ask, result, faults>>
        /\ \E line \in {thrown[2], status, 500}, wraps \in {0, 1} :
             Send(r, line, Body(wraps, Meta(ask[r], line), TRUE))
    BY <1>7 DEF Catch, RespondWithError, Unwrapped
  <2>3. PICK line \in {thrown[2], status, 500}, wraps \in {0, 1} :
          Send(r, line, Body(wraps, Meta(ask[r], line), TRUE))
    BY <2>2
  <2> HIDE DEF thrown, status
  <2>4. line \in Statuses
    BY <2>1, <2>3
  <2>5. Body(wraps, Meta(ask[r], line), TRUE) \in Bodies
    BY <1>1, <2>3, <2>4, BodyType
  <2> DEFINE body == Body(wraps, Meta(ask[r], line), TRUE)
  <2> HIDE DEF body
  <2>6. body \in Bodies /\ Send(r, line, body)
    BY <2>3, <2>5 DEF body
  <2> QED
    BY <2>2, <2>4, <2>6, SendType
<1> QED
  BY <1>2, <1>3, <1>4, <1>5, <1>6, <1>7, <1>8 DEF Step

\* The variables keep their types, and what is stored is never an error: only
\* what a method answered passes the ResponseParser on its way to the cache.
THEOREM TypeCorrect == Spec => []TypeOK
<1>1. Init => TypeInv
  <2> SUFFICES ASSUME Init PROVE TypeInv
    OBVIOUS
  <2>1. ask \in [Requests -> Asks]
    BY DEF Init
  <2>2. ASSUME NEW r \in Requests
        PROVE  [line |-> 200, body |-> Body(0, Meta(ask[r], 200), FALSE)] \in Answers
    <3>1. ask[r] \in Asks /\ 200 \in Statuses
      BY <2>1 DEF Statuses
    <3>2. Body(0, Meta(ask[r], 200), FALSE) \in Bodies
      BY <3>1, BodyType
    <3> QED
      BY <3>1, <3>2 DEF Answers
  <2>3. answer \in [Requests -> Answers]
    BY <2>2 DEF Init
  <2>4. /\ items \subseteq Books /\ Stored = {} /\ up \in BOOLEAN /\ faults \in 0..MaxFaults
        /\ pc \in [Requests -> Steps]
        /\ result \in [Requests -> Results]
        /\ \A r \in Requests : pc[r] # "store"
    BY PipelineAssumption DEF Init, Stored, Statuses, Steps, Results
  <2> QED
    BY <2>1, <2>3, <2>4 DEF TypeInv, TypeOK, Answers, Steps, Results
<1>2. TypeInv /\ [Next]_vars => TypeInv'
  <2> SUFFICES ASSUME TypeInv, [Next]_vars PROVE TypeInv'
    OBVIOUS
  <2>1. CASE \E r \in Requests : Arrive(r) \/ Step(r)
    BY <2>1, StepType
  <2>2. CASE Expire \/ RedisAway \/ RedisBack \/ UNCHANGED vars
    <3>1. UNCHANGED <<items, ask, pc, result, answer>> /\ up' \in BOOLEAN
          /\ (UNCHANGED faults \/ Fault)
      BY <2>2 DEF Expire, RedisAway, RedisBack, vars, TypeInv, TypeOK
    <3>2. Stored' \subseteq Stored /\ \A k \in Stored' : cache'[k] = cache[k]
      BY <2>2 DEF Expire, RedisAway, RedisBack, vars, Stored
    <3>3. faults' \in 0..MaxFaults
      BY <3>1, PipelineAssumption DEF TypeInv, TypeOK, Fault
    <3> QED
      BY <3>1, <3>2, <3>3 DEF TypeInv, TypeOK
  <2> QED
    BY <2>1, <2>2 DEF Next
<1>3. TypeInv => TypeOK
  BY DEF TypeInv
<1> QED
  BY <1>1, <1>2, <1>3, PTL DEF Spec
=============================================================================
