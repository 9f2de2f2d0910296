# Specifications of the book service

TLA+ models of the concurrent core of this NestJS service, the TLC runs that
check them, and TLAPS proofs of what matters most. Paths below are relative to
the repository (`src/...` is the application's source directory).

## The system

A REST API over a catalogue of books. Every book is kept twice, as an item of a
DynamoDB table and as a row of a Postgres table, and no transaction spans the
two. Redis carries the events of the service (pub/sub) and caches answers.

| Component | State | Operations | Talks to |
|---|---|---|---|
| `BookService`, writes (`book/book.service.ts`) | items in DynamoDB, rows of `books`, rows of `book_logs` | `create`, `update`, `updateViewsCount`, `remove`, `batchWrite`, `logOperation` | both stores, the publisher |
| `BookService`, synchronisation, and `BookSyncCronService` | the same, and a snapshot of one store during a run | `syncAllFromPostgresToDynamo`, `syncAllFromDynamoToPostgres` | both stores, the publisher |
| `BookService`, reads | READ rows of `book_logs` | `findAll`, `findOne`, `findByAuthorAndYear`, `batchRead`, `getLogsForBook` | both stores, the publisher |
| `BookEventPublisher` | none | one method per event | Redis pub/sub, one or two channels |
| `CacheInvalidationSubscriber` | none of its own | one handler per event | `CacheService`, Redis |
| `CacheService`, `RedisService` | keys, counters and the sorted set `trending:books` in Redis | get, set, delete, increment, addToTrending, invalidations | Redis, one connection for commands, one for messages |
| `CacheInterceptor` | the answers stored in Redis | the cached GET routes | `CacheService`, the handler |
| `DynamoService`, and the script that seeds its table | the table: none, with its index, or without | `ensureTableExists`, `createTable`; `create-table`, `batch-write-item` | DynamoDB |
| `main.ts`, `RedisService.subscribe` | the subscriptions and their callbacks | `bootstrap`, `onModuleInit`, `listen` | Redis, the modules' hooks |
| `ResponseParser`, `ResponseFormatterService`, the exception filters | none | wrap answers and errors in `{meta, data, errors}` | the interceptor, Express |
| `HttpService` | the headers of the outgoing calls | `initAxios`, get/post/put/patch/delete | nobody calls it yet |
| logger, configuration, wiring | none | pure functions and declarations | |

What is hard here:

* **Two stores, no transaction.** Every write is two awaited calls and a log,
  any of which can be rejected, with or without having taken effect; the
  process can die between any two of them.
* **Check, then act.** `update` and `updateViewsCount` look for the item and
  then upsert it; `remove` can come in between.
* **Bodies nobody validates.** No ValidationPipe is installed: a POST without a
  title leaves an item that Postgres does not take, neither from the request nor
  from the cron job, ever.
* **A copying job.** The cron job reads one store, then writes the other, row
  by row, while requests go on, in both directions, and the two directions
  compare different columns.
* **Handlers that interleave.** The subscriber awaits none of the handlers it
  starts, so that the commands of two events mix in Redis.
* **Two programs that make one table.** The seeding script and the service both
  look for the table and make it, each its own.
* **A start that waits for Redis.** `listen` waits for the subscriptions, not for
  the table; the connection can be lost in between, and later, with the messages
  under way, and is mended in two steps, between which more are lost.
* **Pages of a list that grows.** Logs are read newest first, by offset, while
  more are written.
* **An order of registration.** Filters are tried from the last to the first,
  interceptors from the first to the last; what is cached is what the formatter
  made, for one request, and served to others. Formatting itself can throw, on
  the Host header of the client, and then throws in the filter too.
* **A fill nobody awaits.** The interceptor stores an answer after it has been
  sent, however old what it read is by then, and no invalidation ever removes it.

What makes each part correct:

* *stores*: what was acknowledged, or logged as written, exists in both stores;
  what is gone stays gone; the cron job changes nothing a request did not make
  different, converges when it gets to its end, and in the end brings every row
  to the table, and every item to Postgres if it can be saved there and fits the
  page; view counts are not lost, as far as the job leaves them alone;
* *subscriber*: the trending list stays near its bound, keys do not live for
  ever, a deleted book leaves the list;
* *interceptor*: an answer is never older than the time to live and the lag of
  the request that stored it, and errors are never stored;
* *reads*: the READ logs tell what was answered, but for calls that failed; a
  client that pages misses nothing;
* *start*: it ends; the table comes unless a call fails, from one of the two
  programs that make it; a message is handled once unless nobody was subscribed;
* *pipeline*: every request is answered, once wrapped unless its own Host makes no
  URL, with what it asked for.

## Modules

| Module | What it is |
|---|---|
| `BookStores` | the two stores, the requests that write them or log a read, and the cron job |
| `MCBookStores` | its symmetry, for TLC |
| `BookStoresProofs` | theorems about `BookStores`: types, what is gone, the cron job |
| `BookRecordsProofs` | theorems about `BookStores`: what was recorded of a book, and its views |
| `CacheSubscriber` | the subscriber's handlers and the Redis keys they keep |
| `MCCacheSubscriber` | its symmetry, for TLC |
| `CacheSubscriberProofs` | theorems about `CacheSubscriber` |
| `BoundedStaleness` | abstract: what a cache with a time to live promises |
| `ResponseCache` | the interceptor, one URL; implements `BoundedStaleness` |
| `MCResponseCache` | its symmetry, for TLC |
| `ResponseCacheProofs` | theorems about `ResponseCache`, the implementation among them |
| `BookReads` | the methods that read, their READ logs, and a client that pages through logs |
| `MCBookReads` | its symmetry, for TLC |
| `BookReadsProofs` | theorems about `BookReads` |
| `Startup` | the start of the process: subscriptions, the table, and the messages after it |
| `EventChannel` | abstract: the order in which events are handled, and how they are lost |
| `StartupProofs` | theorems about `Startup`, that it implements `EventChannel` among them |
| `RequestPipeline` | a request on its way through cache, formatter and filters |
| `RequestPipelineProofs` | theorems about `RequestPipeline` |

### BookStores

`dynamo`, `pg` and `logs` are the tables; `used` is the set of ids `uuid()` has
drawn; a book has in `logs` the operations that were logged of it. A request is one call of a method of `BookService`: `op` is the method,
`pc` the call it awaits, `book` and `row` its local variables, `batch` the items
a `batchWrite` has gathered. `cron`, `todo` and `cur` are the cron job's: the
call it awaits, the rows (then items) its loop has still to go through, the one
it is at. One action is one awaited call; its effect, the answer and the code up
to the next `await` are one step, as they are in Node.js, where the answer's
continuation runs to the next `await` without interruption.

| Action | Code |
|---|---|
| `Start` | a call of `create`, `update`, `updateViewsCount`, `remove`, `batchWrite`, `findOne` up to its first await |
| `PutItem`, `Get`, `UpdateItem`, `Increment`, `DeleteItem` | the calls of the DynamoDB client |
| `SaveRow`, `DeleteRow` | `bookRepository.save`, `.delete` |
| `Log`, `Publish` | `logOperation` (which swallows errors), the publisher (which swallows those of the general channel) |
| `BatchSave`, `BatchLog`, `BatchPut` | the loop of `batchWrite`, and its one `batchWrite` of items |
| `SyncStart` .. `PgDone` | `syncAllFromPostgresToDynamo` |
| `DynScan` .. `DynDone` | `syncAllFromDynamoToPostgres` |
| `SyncReject` | a call of the cron job is rejected: nothing catches it and the run ends |
| `Crash` | the process dies; the stores keep what they hold |

Abstractions: title, author and publicationYear travel together everywhere and
are one value of `Contents`, or `None` when the client left out one of them
(`Dtos`): `create` then leaves an item whose `save` is rejected, `batchWrite`
ends, and `update` is rejected by DynamoDB, whose expression names a value it is
not given. An attribute sent as `null` is not told from one left out. A missing
`views` is 0, as every reader makes it. A `findOne` stands for each of the books
that `findAll`, `findByAuthorAndYear` and `batchRead` read and then log, one
after the other, in the same `book_logs`; `BookReads` has these methods in full.
The start is what `init.sql` leaves: rows of the seeds with a CREATE log each,
and in DynamoDB any part of the same books, since the table may be that of the
script (all of them), that of the service (none), or that of a script whose
second command failed. `book_logs` takes logs without author or title: TypeORM
synchronises its columns with the entity, where both are nullable.
`repository.save` is one step (TypeORM's own select and insert are not split).
Reads of DynamoDB see the last write, as LocalStack's do. One process runs, and
a run of the cron job ends before the next starts (ten hours apart). The page a
`Scan` answers with holds `ScanLimit` items, any of them. `touched` and `missed`
are history: the books requests wrote since the job read, the items its scan
left out.

### CacheSubscriber

Events are published (`Publish`) in any order, queue up on the one connection,
and are delivered (`Deliver`); each starts a handler (`HandleViewEvent` ..
`HandleSyncCompleted`: the code up to the first command it waits for), whose
further Redis commands are actions of their own (`SetBook`, `ZRem`, `ZAddViews`, `Trim`, `ExpireTrending`,
`HIncrBy`, `Ttl`, `Expire`). All commands share one connection, so Redis runs
them in the order they are sent. A handler that awaits nothing before its first
command sends it as the event arrives: the `zadd` of a view and the `del` of a
view count are part of `Deliver`. `trending` is the sorted set, `bookKeys` and
`counters` the books that have those keys, `eternal` the keys without a time to
live, which `Timeout` never removes. The score of a view is the clock
(`Date.now()`) and is larger than any view count. A lost message is one that is
never published.

### ResponseCache and BoundedStaleness

The data a URL shows is a version number that `Write` increases; `gone` says
that there is nothing to show. A request hits (`Hit`), or misses (`Miss`, also
when Redis rejects), reads (`Read`), fails (`Throw`) or answers (`Answer`), and
the SETEX that nobody awaits takes effect later or is rejected (`Store`).
`ClearCaches` is the handler of SYNC_COMPLETED: since `scanKeys` returns no key,
it removes none. `Tick` passes time, by at most `MaxLag` between a read and the
end of its SETEX. That bound is an assumption about the environment; no timeout
in the code enforces it. `BoundedStaleness` says what this promises: an answer is
a version that was current within the last `Bound` = `Ttl + MaxLag`.

### BookReads

A read (`r`) calls one of four methods once. `Scan`, `Query`, `BatchGet` and
`Get` are the awaited calls that read the items; `LogNext` is `logOperation` for
the next of them, which swallows what rejects; `PublishSwallowed` and
`PublishTwice` are the publisher's methods, told apart by whether a rejected
publication reaches the caller; `FindLogs` is the list of logs `findOne` adds.
`found` is what was read, `todo` what is still to log, `logged` the READs that
are in `book_logs`. The second part is `getLogsForBook` and a client that asks
for one page after the other until one is not full (`GetForLogs`, `FindPage`,
`FindPageRejects`); `rows` are the logs of the book it pages (`whose`).

`timestamp` is given by the database when an insert starts, so that a row may have
the time of another, or up to `Skew` less than one that was there before.
`IsPage` says what a page of rows ordered by time is: rows of the same time come
in any order, another one in every query. `Write` is what the methods of
`BookStores` do to the items, and the log they leave.

Over HTTP `findByAuthorAndYear` never gets books: `year` is the string of the URL
and the index has a number, so that DynamoDB rejects the query. `Query` has that
rejection, and the answer a caller with a number would get.

### Startup

`main` is the step of `bootstrap`: `NestFactory.create`, which waits for Postgres,
the SUBSCRIBE of the first channel, its
callback, those of the second, the hooks done (`initialised`), the server
listening. `ensure` is the step of `ensureTableExists`, which nobody awaits;
`script` that of the container that makes and seeds the table. `link` is the
subscriber's connection: down, up, or ready; `subscribed` is
what Redis knows of it, `remembered` what ioredis subscribes to again, `callbacks` how
many listeners the channel has, `wire` the messages under way; `published`,
`handled` and `missed` are history. `Crash`, and `SubscribeRejects`, which ends
the process because nothing handles the rejection of `bootstrap`, take the
process with its connection; a new one starts where the table and the script are.
The hook of `DynamoService` may run before or after that of the subscriber.

A connection that is lost is mended in two steps. `Connect` is the new connection
and its ready check; Redis forwards nothing to it yet. `Resubscribe` is the
SUBSCRIBE of all channels ioredis remembers, after which the commands that have
queued up go out. What is published in between is missed, with the connection up.
The client is lazy: the first SUBSCRIBE of `bootstrap` goes through the same two
steps, with nothing to remember. A SUBSCRIBE of ioredis itself that is rejected,
after three retries, is an unhandled rejection, which ends the process: `Crash`.

What the table holds is not in this module. The script writes the seeds to it, but
so does the first half of the cron job, whose rows are the same books, into
whichever table there is. `MadeByOne` therefore speaks of the tables, and says who
made them: a script that has got past its `create-table` has a plain one, and
where no call failed it gives up only for the one with the index.

`EventChannel` is what publishers may rely on: `times` says of every event that was
sent how often it was handled (`handled` here), `lost` which ones never will be
(`missed`). `Handle` takes the first event that is under way, of whatever channel;
`LoseAll` loses all of them at once, as a lost connection or a crash does; and an
event is lost as it is sent only when nothing is under way. The wire, the
subscriptions, the callbacks and the steps of `bootstrap` are what `Startup` hides
behind that. Its queue is Redis's one connection to a subscriber, which keeps the
order of its messages.

### RequestPipeline

`ask` is what a request asks for: a method of the controller or no route at all,
a parameter and a Host header. `Arrive` is the routing and the check whether the
route is cached; `Lookup` the look into the cache, which Redis being away turns
into a miss; `Handle` the method, which answers or throws; `Format` the
ResponseParser; `Store` the SETEX after the answer; `Catch` the filters. Ahead of
the routes, Express refuses a malformed escape or a body that is no JSON (400,
which Nest makes an HttpException) and a body that is too large (an error of
Express, which the generic filter answers with 500). The meta of every body
holds a URL made of the protocol, the Host header and the path; for a Host in
`Malformed`, `new URL` throws in the formatter, after the method has done its
work, and once more in the filter, so that the client gets the bare error Express
makes (`Unwrapped`). A request line with an absolute URL, which makes either no
URL or that of another host, is not modelled apart. A body is
how often it was wrapped, its meta, and whether it is an error. `Filters` is the
order of registration, `Filter` how Nest picks. Data and time are left to
`ResponseCache`.

## Runs

| Run | Checks | Bounds |
|---|---|---|
| `stores_service` | `TypeOK`, `SyncConverges`, `RecordedBooksExist`, `SyncKeepsRows`, `GoneIsForever` | 2 requests of any method, the cron job, 2 books, 2 contents or none, scan page of 1, 2 faults |
| `stores_views` | `NoLostIncrement` | 3 requests, view counts included, no cron job, 1 fault |
| `stores_liveness` | `RowsReachItems`, `EventuallyConsistent` | 2 requests of `create`, `update`, `updateViewsCount`, `remove`, the cron job, 3 books, scan page of 2, 1 fault, fairness |
| `subscriber` | `TypeOK`, `TrendingBounded`, `EveryKeyExpires`, `OnlyCountsRevive` | 3 events of any type, 3 books, list of 1, 1 rejected command |
| `staleness` | `TypeOK`, `StalenessBounded` (refinement) | 2 requests at once, 3 versions, time to live 2, lag 2, 6 ticks |
| `reads` | `TypeOK`, `PagesMissNothing`, `ReadsAreCounted` | 2 reads, 2 books, scan page of 1, log pages of 2, writes up to 2 rows, 1 fault |
| `startup` | `TypeOK`, `MadeByOne`, `TableUnlessFault`, `HandledOnce`, `StartEnds`, `HandledInOrder` (refinement) | 3 events, 3 faults (rejected calls, lost connections, crashes) |
| `pipeline` | `TypeOK`, `WrappedOnce`, `AnswerIsOwn`, `EveryRequestAnswered` | 2 requests of any route, 2 books, 2 hosts and a malformed one, 1 fault |
| `sync_log` | `SyncLogsOnlyUnlogged`: **violated** | 1 request |
| `publish_failure` | `PublishFailureIsSwallowed`: **violated** | 1 `findOne`, 1 fault |
| `trending_zombie` | `DeletedLeavesTrending` with view counts: **violated** | 3 events |
| `caches_cleared` | `AllCachesCleared`: **violated** | 2 requests |

Why the bounds are enough for the interesting cases. Two requests and the cron
job give every pair of racing writers with a third that copies; three requests
add a writer that comes after. Two books let `create` add one to a seeded one;
with a scan page of one, as in `stores_service`, the table is then larger than
the page. A batch of that run is one dto, since only one id is left to draw; the
race of a batch with the job needs no more, but that a batch is half done does
not come up beyond its one row. `stores_liveness` has a third book, so that the table
both fits and outgrows its page of two; it leaves out batches. One fault leaves one half-done write; two let the repair fail too. A trending
list of one is over its bound with the second book, and three books with three
events put two handlers between a `zadd` and its trim. Pages of two with two
reads that each may log what is paged, and two rows before or between, make a
client ask for a second page that has moved. Three faults in `startup` are a
crash, a lost connection and a rejected call in one behaviour, and three events
one before, one while and one after nobody is subscribed. Two requests with
two hosts are what it takes to be served the answer of another, and the one fault
of `pipeline` is a call that fails or a Redis that goes away and need not come back. With a time to live and a
lag of 2, the clock runs past their sum by 2, so an answer could be too old.

Constants `MaxFaults`, `MaxViews`, `MaxTime`, `MaxData`, `MaxRows`, `MaxEvents`, and the requests and
events that happen once, bound the state space; deadlock is not checked in the
runs where everything that can happen once has happened and there is no timer.

What the violated runs show:

* `sync_log`: the job looks for a log of an unchanged book (line 511 of
  `book.service.ts`) and writes its own after an await; a `create` that had
  saved its row but not its log fills the gap, and the comment "Evitar duplicados
  de log" does not hold.
* `publish_failure`: the publisher's comment says that a failing publication does
  not affect the main operation; `publishBookViewed` publishes a second time
  outside of the catch block and makes `findOne` fail after the book was found and
  its read logged. `publishViewsUpdated` has the same form, and would make
  `updateViewsCount`, which nothing calls today, fail after both stores have taken
  the count.
* `trending_zombie`: the handler of VIEWS_UPDATED sends its `zadd` only after its
  `del` is answered; a deletion delivered meanwhile sends its `zrem` first, and
  the deleted book is back in the list. (No route leads to `updateViewsCount`
  today, so nothing publishes the event.) Nothing but a views count can do that:
  `OnlyCountsRevive` holds in `subscriber`, because the `zadd` of a view goes out
  as the event arrives.
* `caches_cleared`: "All caches cleared after sync completion" clears nothing.

### Fairness

`FairSpec` of `BookStores` assumes weak fairness of every awaited call (a call
that is made settles) and of the cron job (its timer recurs for as long as the
process, or the one that replaces it, runs). Clients owe nothing: no request has
to be made. Two things are claimed. `RowsReachItems`: in the end every row of
Postgres has an item equal to it, whatever the requests left behind. The first half of the job
gets through whatever the table holds, so this needs no more. `EventuallyConsistent`: the stores become equal for
good, *if* from some time on no item lacks an attribute and the table fits one page
of a `Scan` (`Copyable`). Both conditions are needed. An incomplete POST leaves an
item the job's `save` of which is rejected in every run from then on, and so does an
`updateViewsCount` that races with a `remove`; and items the page leaves out may
never be copied.

`Startup` assumes weak fairness of the steps of `bootstrap`, Postgres' answer
among them, and of the connection ioredis tries for ever (`Connect`,
`Resubscribe`), which takes a Redis that comes back; nobody has to start the process or the
script, and it may crash (`StartEnds` then holds with the process gone). With
`RequestPipeline`, weak fairness of the steps of a request that has come: Node.js
runs them, and a command to a Redis that is away is rejected after three retries
(`maxRetriesPerRequest`), so that Redis need not come back. That is what ioredis
does of a connection that breaks; a Redis that takes commands and never answers is
left out, since no `commandTimeout` is set and such a request would wait for ever.

## Proofs

TLAPS proves, for every value of the constants:

* `BookStoresProofs`: `TypeCorrect` (`TypeOK`), `GoneStaysGone`
  (`GoneIsForever`), `SyncMakesEqual` (`SyncConverges`), `SyncRewritesNothing`
  (`SyncKeepsRows`). `TypeOK` is not inductive alone: that no row of Postgres
  lacks content depends on which book a request or the job is at, which is what
  `Bookkeeping` adds (`IInv`). `GoneStaysGone`
  needs the same invariant, which ties a request to the book it writes.
  `SyncConverges` speaks of the end of a run only; `SyncInv` says what holds on
  the way of every book no request has written since the run read the rows. In
  the first half what is still to do is what the table of rows holds, and what is
  done has an equal item; in the second half every row has an equal item, and an
  item of the page that is done with has a row.
* `BookRecordsProofs`: `RecordsHold` (`RecordedBooksExist`) and `ViewsAllCounted`
  (`NoLostIncrement`). Both rest on `IInv` and on `OpInv`, which says what method
  a request is in by the call it awaits. `RecordedBooksExist` is not inductive: a
  log is written by a call that does not look at the stores. The logs it speaks of are those of
  writes (`WriteLogs`), and not the ones `init.sql` inserts; a READ log tells of an item
  only, since a `findOne` can read what a `create` has put and not saved yet. `RecordInv` says what
  each request, and the cron job, has behind it at each call (`RequestRecord`,
  `SyncRecord`): the item from the first write on, the row from the save on, and
  the job that it only logs books of its snapshot whose item it has just written
  or found equal. Rows and items leave the stores by `remove` only (`RowsStay`),
  and that one was asked for is never forgotten (`RemovalStaysAsked`).
  `ViewsAllCounted` counts: the atomic increment adds one to the item and at most
  one request to `Increments`. What could undo it is a put with a count of 0;
  `CreateInv` says that such a put is pending only for a book with no item
  (`Unborn`), that one request alone is about to make it, and that no request got
  past its check on that book. It assumes that `"sync"` is not among the methods,
  as the run `stores_views` does: the cron job does lose counts, since it puts
  back the row it read before, views included.
* `CacheSubscriberProofs`: `TypeCorrect`; `KeysExpire` (`EveryKeyExpires`);
  `TrendingStaysBounded` (`TrendingBounded`); `ViewsNeverRevive`
  (`OnlyCountsRevive`). All rest on `ControlInv`: an event in the queue has no
  handler yet and is there once, so that a delivery starts one handler and
  disturbs no other. The bound on the list counts `Trimmers`, a finite set even
  when the events are not finitely many. `ViewsNeverRevive` needs `ReviveInv`:
  while no count of a deleted book was published, the book is in the list only
  as long as a deletion of it has yet to run its `zrem`, and behind each view of
  it in the queue there is such a deletion. This is where the order of delivery,
  and that a view's `zadd` goes out as the view arrives, are used.
* `ResponseCacheProofs`: `TypeCorrect`, and `CacheImplementsBoundedStaleness`,
  the refinement. The invariant needed is `Fresh`: what a request has read was
  current when it read it, which was not longer ago than `MaxLag`; what is in the
  cache expires at most `MaxLag + Ttl` after it stopped being current, and at
  most `Ttl` from now. The last part is what makes it inductive: when a write
  replaces the version in the cache, the expiry is known only relative to now.

* `BookReadsProofs`: `TypeCorrect`; `LogsTellTheReads` (`ReadsAreCounted`), which
  counts the faults: each is tied to one log that was not written, or to one read
  that failed after logging; and `PagesComplete` (`PagesMissNothing`). The
  invariant of the last one is about ranks: every log that was there at the first
  page and has not been seen has at least `offset` newer ones, so that the next
  page starts no later than the first log not seen; what is logged meanwhile can
  only add to the newer ones. It holds whatever the `Skew`: an insert that comes
  late may itself be missed, but takes no other log out of the pages to come.
* `StartupProofs`: `TypeCorrect`, `EventsHandledOnce` (`HandledOnce`), by an
  invariant that says where in `bootstrap` each callback and subscription is
  there, what Redis forwards in each state of the connection, and that a message
  is handled, missed, or once on the wire; `TableOfOneKind` (`MadeByOne`) and `TableIsThere` (`TableUnlessFault`); and
  `StartupImplementsEventChannel` (`HandledInOrder`), the refinement. It needs the
  invariant of `EventsHandledOnce`, by which what is under way in `EventChannel` is
  what is on the wire, and that the wire is in the order of publication
  (`OrderInv`); every other step is a stutter.
* `RequestPipelineProofs`: `TypeCorrect`, with the invariant that what is about to
  be stored is a body of the formatter, no error and wrapped; `AnswersWrappedOnce` (`WrappedOnce`) and `AnswersFit`
  (`AnswerIsOwn`), from one invariant: what is
  stored was made for a request of that key which was answered, so that a hit
  has the path and the verb of its own request, and the host of a request that
  was answered.

They assume the assumptions named in the modules, which TLC evaluates in every
run and which only say what kinds of values the constants are, that there is a
book, and that no book is called `trending:books`.

Only model-checked: `RowsReachItems`, `EventuallyConsistent`, `StartEnds` and `EveryRequestAnswered`,
which are liveness under fairness and out of the prover's reach. Every invariant
and action property that a passing run checks is a theorem; the properties of the
violated runs are refuted by them.

## Not modelled

* `HttpService`, its module and the interceptor that logs outgoing calls: nothing
  in the repository makes an outgoing call, and no module provides that
  interceptor, so that no state of the program has one. That its headers are a
  field of a singleton, shared by all requests, and that headers given to a call
  replace the ones `fetch` has put together (`...restConfig` comes last), is worth
  a model once there is a caller.
* `exists`, `getTTL`, `refreshTTL`, `getOrSet`, `getTrending*`, and most wrappers
  of `RedisService`: no caller. `updateCurrentlyViewing`: no event carries a user.
  `onModuleDestroy`: `main.ts` enables no shutdown hooks.
* The wording of errors (`getCode`, `getErrorMessage`, `findConstants`), the data of
  answers, logging, configuration, Swagger: nothing the rest of the program reads.
* The decorators of the DTOs: no ValidationPipe is installed, so they check nothing.
* `src/aws-config/old`: dead code.
* A process that dies inside a handler of `CacheSubscriber`, between a `zadd` and its
  trim or an `hincrby` and its `expire`: the model has the commands that are
  rejected, and `EveryKeyExpires` is stated for none of them. After either, the
  next view trims the list and finds the counter without a time to live; the counter of a book that is not
  viewed again stays.
* `updateViewsCount`, `batchWrite` and `batchRead` are modelled as they are written;
  no route leads to them today. `NoLostIncrement` is about the service without its
  cron job, which is always there as it is shipped: the job puts back rows with the
  counts it read, so that counts are lost with it.
* Log rows whose time is older than one that was there before (`Skew` > 0): TLC's
  runs have none, the theorem `PagesComplete` covers them.
* A second process: one runs, and a run of the cron job does not overlap the next.
* That the catch blocks of `update` and `findOne` answer 500 for a book that is
  not there, and that the scores of `trending:books` mix milliseconds and counts,
  are in the models as they are in the code; no doc or test says otherwise, so no
  property does.

## Plan

Done, most of the service's risk first: `BookStores`, `CacheSubscriber`,
`ResponseCache` with `BoundedStaleness`, `BookReads`, `Startup`,
`RequestPipeline`, each with its proofs, and `EventChannel`, which `Startup`
implements. What is left:

* of `BookStores`, the safety half of `EventuallyConsistent`: that stores a run of
  the cron job has made equal stay equal while no request is made;
* `HttpClient`, once the service calls somebody.
