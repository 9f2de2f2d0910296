--------------------------- MODULE RequestPipeline ---------------------------
(***************************************************************************)
(* What the server wraps around a method of BookController: the            *)
(* CacheInterceptor, inside of it the ResponseParser, which puts what the  *)
(* method answers into {meta, data, errors}, and outside of both the       *)
(* exception filters, which put exceptions into the same form.             *)
(*                                                                         *)
(* A body is modelled by how often it is wrapped and by what its meta and  *)
(* its error say.  Redis may be out of reach for ever.  The meta takes a   *)
(* URL made of what the client sent, its Host header included, and where   *)
(* there is none to be made, formatting throws, in the filters as well.    *)
(***************************************************************************)
EXTENDS Integers

CONSTANTS
  Requests,
  Books,     \* the ids of books; of an author and a year, for the search
  Hosts,     \* the Host headers of the clients
  Malformed, \* those of them that make no URL
  MaxFaults  \* bound on the calls of a method that fail, and on Redis going away

ASSUME PipelineAssumption == MaxFaults \in Nat

Methods == {"create", "findAll", "findOne", "getLogsForBook", "findByAuthorAndYear",
            "update", "remove"}

\* The routes of the controller, and those that are none of it.
Asks == [method : Methods \cup {"none"}, book : Books, host : Hosts]

VARIABLES
  items,   \* the books there are
  cache,   \* Redis: the bodies that are stored, by key
  up,      \* whether Redis can be reached
  ask,     \* of a request: what it is going to ask for
  pc,      \* of a request: its step
  result,  \* of a request: what the method has answered, or thrown
  answer,  \* of a request: the status line and the body it was sent
  faults   \* the part of the budget that is spent

vars == <<items, cache, up, ask, pc, result, answer, faults>>

Fault == faults < MaxFaults /\ faults' = faults + 1

Goto(r, step) == pc' = [pc EXCEPT ![r] = step]

-----------------------------------------------------------------------------
\* The routes marked with @Cacheable.
Cacheable == {"findAll", "findOne", "findByAuthorAndYear"}

Verb(a) ==
  CASE a.method = "create" -> "POST"
    [] a.method = "update" -> "PUT"
    [] a.method = "remove" -> "DELETE"
    [] OTHER -> "GET"

\* The path of the URL: the routes without parameters name no book.
Path(a) ==
  IF a.method \in {"create", "findAll"} THEN <<"book">>
  ELSE IF a.method \in {"findOne", "update", "remove"} THEN <<"book", a.book>>
  ELSE <<"book", a.method, a.book>>

\* A bug the properties must catch: the key of the method alone.
KeyOfMethod(a) == <<a.method, Verb(a)>>

\* The name of the method, the verb, the URL and, when there are any, the
\* parameters; the routes that are cached have no body.  The host is in none.
GenerateCacheKey(a) ==
  IF a.method = "findAll" THEN <<a.method, Verb(a), Path(a)>>
                          ELSE <<a.method, Verb(a), Path(a), a.book>>

Stored == DOMAIN cache

\* The meta of createMetaData.
Meta(a, status) == [host |-> a.host, path |-> Path(a), verb |-> Verb(a), status |-> status]

\* Whether new URL takes what buildFullURLFromRequest puts together.
HasUrl(a) == a.host \notin Malformed

\* What a body is: how often it was wrapped, and its meta and error.
Body(wraps, meta, error) == [wraps |-> wraps, meta |-> meta, error |-> error]

Send(r, line, body) == answer' = [answer EXCEPT ![r] = [line |-> line, body |-> body]]

\* A bug the properties must catch: a DELETE says that it sends no body.
StatusNoContent(a) ==
  CASE Verb(a) = "POST" -> 201 [] Verb(a) = "DELETE" -> 204 [] OTHER -> 200

\* The status Nest sets before the method runs.
StatusOf(a) == IF Verb(a) = "POST" THEN 201 ELSE 200

-----------------------------------------------------------------------------
\* Ahead of the routes: a body that is no JSON, a malformed escape (400), a body
\* that is too large (an error of Express, no HttpException), or no route.
Arrive(r) ==
  /\ pc[r] = "idle"
  /\ \/ /\ Goto(r, "catch")
        /\ \E thrown \in {<<"HttpException", 400>>, <<"Error", 413>>} :
             result' = [result EXCEPT ![r] = thrown]
     \/ /\ ask[r].method = "none"
        /\ Goto(r, "catch")
        /\ result' = [result EXCEPT ![r] = <<"HttpException", 404>>]
     \/ /\ ask[r].method # "none"
        /\ Goto(r, IF ask[r].method \in Cacheable THEN "lookup" ELSE "handle")
        /\ UNCHANGED result
  /\ UNCHANGED <<items, cache, up, ask, answer, faults>>

\* A bug the properties must catch: the client waits for Redis for ever
\* (maxRetriesPerRequest: null).
LookupWaits(r) ==
  /\ pc[r] = "lookup" /\ up
  /\ LET key == GenerateCacheKey(ask[r]) IN
       IF key \in Stored
         THEN Send(r, 200, cache[key]) /\ Goto(r, "sent")
         ELSE Goto(r, "handle") /\ UNCHANGED answer
  /\ UNCHANGED <<items, cache, up, ask, result, faults>>

\* cacheService.get: a hit is what the request is sent; a miss, or a Redis that
\* does not answer after three retries, leads to the method.
Lookup(r) ==
  /\ pc[r] = "lookup"
  /\ LET key == GenerateCacheKey(ask[r]) IN
       IF up /\ key \in Stored
         THEN Send(r, 200, cache[key]) /\ Goto(r, "sent")
         ELSE Goto(r, "handle") /\ UNCHANGED answer
  /\ UNCHANGED <<items, cache, up, ask, result, faults>>

\* The items after a call of the method that was done.
Done(a) ==
  CASE a.method = "create" -> items \cup {a.book}
    [] a.method = "remove" -> items \ {a.book}
    [] OTHER -> items

\* The calls that are bound to throw: about a book that is not there, and the
\* search, whose year is a string where the index has a number.
BoundToThrow(a) ==
  \/ a.method \in {"findOne", "update", "getLogsForBook"} /\ a.book \notin items
  \/ a.method = "findByAuthorAndYear"

\* And those that may throw with nothing out of order: the dto of a create or
\* an update may lack attributes.
MayThrow(a) == BoundToThrow(a) \/ a.method \in {"create", "update"}

\* The methods answer, or throw, half done maybe: all but getLogsForBook catch
\* what is thrown, their own NotFoundException as well, and throw an Error.
Handle(r) ==
  /\ pc[r] = "handle"
  /\ LET a == ask[r] IN
       \/ /\ ~BoundToThrow(a)
          /\ Goto(r, "format")
          /\ items' = Done(a)
          /\ UNCHANGED <<result, faults>>
       \/ /\ IF MayThrow(a) THEN UNCHANGED faults ELSE Fault
          /\ Goto(r, "catch")
          /\ items' \in {items, Done(a)}
          /\ result' = [result EXCEPT ![r] =
               IF BoundToThrow(a) /\ a.method = "getLogsForBook"
                 THEN <<"HttpException", 404>> ELSE <<"Error", 500>>]
  /\ UNCHANGED <<cache, up, ask, answer>>

\* ResponseParser wraps the answer, and the answer of a cached route is sent
\* while the CacheInterceptor stores it; a meta without a URL throws.
Format(r) ==
  /\ pc[r] = "format"
  /\ LET a == ask[r] IN
       IF HasUrl(a)
         THEN /\ Send(r, StatusOf(a), Body(1, Meta(a, StatusOf(a)), FALSE))
              /\ Goto(r, IF a.method \in Cacheable THEN "store" ELSE "sent")
              /\ UNCHANGED result
         ELSE /\ result' = [result EXCEPT ![r] = <<"Error", 500>>]
              /\ Goto(r, "catch")
              /\ UNCHANGED answer
  /\ UNCHANGED <<items, cache, up, ask, faults>>

\* The cache with one more body.
With(key, body) == [k \in Stored \cup {key} |-> IF k = key THEN body ELSE cache[k]]

\* cacheService.set, with what the request was sent; it swallows what fails.
Store(r) ==
  /\ pc[r] = "store"
  /\ Goto(r, "sent")
  /\ cache' = IF up THEN With(GenerateCacheKey(ask[r]), answer[r].body) ELSE cache
  /\ UNCHANGED <<items, up, ask, result, answer, faults>>

-----------------------------------------------------------------------------
(* The exception filters.                                                  *)

\* A bug the properties must catch: registered the other way round.
FiltersSwapped == <<"HttpExeptionsFilter", "GenericExeptionFilters">>

\* useGlobalFilters of main; Nest tries them from the last to the first.
Filters == <<"GenericExeptionFilters", "HttpExeptionsFilter">>

\* @Catch(HttpException) and @Catch().
Catches(filter, thrown) ==
  filter = "HttpExeptionsFilter" => thrown[1] = "HttpException"

Filter(thrown) ==
  IF Catches(Filters[2], thrown) THEN Filters[2] ELSE Filters[1]

\* handleHttpException and handlerGenericException: the status of the answer.
StatusThrown(filter, thrown) ==
  IF filter = "HttpExeptionsFilter" THEN thrown[2] ELSE 500

\* The body of respondWithError, and that of the answer Express makes of what
\* a filter throws, which has no meta.
RespondWithError(a, status) == Body(1, Meta(a, status), TRUE)

Unwrapped(a, status) == Body(0, Meta(a, status), TRUE)

\* The filter that is tried answers, unless it throws itself: the generic one
\* an HttpException, again, and either where the meta has no URL.
Catch(r) ==
  /\ pc[r] = "catch"
  /\ LET thrown == result[r]
         filter == Filter(thrown)
         status == StatusThrown(filter, thrown)
     IN IF filter = "GenericExeptionFilters" /\ thrown[1] = "HttpException"
          THEN Send(r, thrown[2], Unwrapped(ask[r], thrown[2]))
        ELSE IF HasUrl(ask[r])
          THEN Send(r, status, RespondWithError(ask[r], status))
          ELSE Send(r, 500, Unwrapped(ask[r], 500))
  /\ Goto(r, "sent")
  /\ UNCHANGED <<items, cache, up, ask, result, faults>>

-----------------------------------------------------------------------------
(* Redis, outside of the requests.                                         *)

Expire ==
  /\ up
  /\ \E key \in Stored : cache' = [k \in Stored \ {key} |-> cache[k]]
  /\ UNCHANGED <<items, up, ask, pc, result, answer, faults>>

RedisAway ==
  /\ up /\ up' = FALSE /\ Fault
  /\ UNCHANGED <<items, cache, ask, pc, result, answer>>

RedisBack ==
  /\ ~up /\ up' = TRUE
  /\ UNCHANGED <<items, cache, ask, pc, result, answer, faults>>

Init ==
  /\ items = Books
  /\ cache = [k \in {} |-> k]
  /\ up = TRUE
  /\ ask \in [Requests -> Asks]
  /\ pc = [r \in Requests |-> "idle"]
  /\ result = [r \in Requests |-> <<"nothing", 200>>]
  /\ answer = [r \in Requests |-> [line |-> 200, body |-> Body(0, Meta(ask[r], 200), FALSE)]]
  /\ faults = 0

Step(r) == Lookup(r) \/ Handle(r) \/ Format(r) \/ Store(r) \/ Catch(r)

Next ==
  \/ \E r \in Requests : Arrive(r) \/ Step(r)
  \/ Expire \/ RedisAway \/ RedisBack

\* A request that has come is worked on; Redis need not come back.
Fairness == \A r \in Requests : WF_vars(Step(r))

Spec == Init /\ [][Next]_vars /\ Fairness

-----------------------------------------------------------------------------
(* Properties.                                                             *)

Statuses == {200, 201, 400, 404, 413, 500}

Bodies == [wraps : {0, 1}, error : BOOLEAN,
           meta : [host : Hosts, path : {Path(a) : a \in Asks},
                   verb : {Verb(a) : a \in Asks}, status : Statuses]]

\* The types of the variables; a body that is stored is no error.
TypeOK ==
  /\ items \subseteq Books
  /\ Stored \subseteq {GenerateCacheKey(a) : a \in Asks}
  /\ \A k \in Stored : cache[k] \in Bodies /\ ~cache[k].error
  /\ up \in BOOLEAN
  /\ ask \in [Requests -> Asks]
  /\ pc \in [Requests -> {"idle", "lookup", "handle", "format", "catch", "store", "sent"}]
  /\ result \in [Requests -> {"nothing", "HttpException", "Error"} \X Statuses]
  /\ answer \in [Requests -> [line : Statuses, body : Bodies]]
  /\ faults \in 0..MaxFaults

Answered == {r \in Requests : pc[r] \in {"store", "sent"}}

\* Whatever path a request took, through the cache, around a Redis that is
\* away, or into a filter, its answer was wrapped once, neither left as it was
\* nor wrapped again, and so is what the cache keeps for others.  Only a client
\* whose own Host makes no URL may get a bare error, and gets nothing else
\* that is bare.
WrappedOnce ==
  /\ \A r \in Answered :
       answer[r].body.wraps # 1 =>
         ~HasUrl(ask[r]) /\ answer[r].body.wraps = 0 /\ answer[r].line = 500
  /\ \A k \in Stored : cache[k].wraps = 1

\* An answer that has a meta is about what was asked: the meta has the path and
\* the verb of the request, and the status that is in the status line; only a
\* body that was made for another request of the same URL names another host.
AnswerIsOwn ==
  \A r \in Answered : answer[r].body.wraps = 1 =>
    LET meta == answer[r].body.meta IN
      /\ meta.path = Path(ask[r]) /\ meta.verb = Verb(ask[r])
      /\ meta.status = answer[r].line
      /\ meta.host # ask[r].host =>
           \E q \in Answered \ {r} : /\ ask[q].host = meta.host
                                     /\ GenerateCacheKey(ask[q]) = GenerateCacheKey(ask[r])

\* Every request is answered, even if Redis never comes back.
EveryRequestAnswered == \A r \in Requests : pc[r] # "idle" ~> r \in Answered
=============================================================================
