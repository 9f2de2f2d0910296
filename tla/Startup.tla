------------------------------- MODULE Startup -------------------------------
(***************************************************************************)
(* The start of the application: its subscriptions at Redis, the table it  *)
(* makes in DynamoDB, the script that makes and seeds one as well, and     *)
(* what becomes of the events it then publishes to itself.                 *)
(*                                                                         *)
(* NestFactory.create waits for Postgres, and listen for onModuleInit of   *)
(* CacheInvalidationSubscriber, but not for ensureTableExists, which goes  *)
(* on while the server listens.  The process may die and be started again, *)
(* and its subscriber connection may be lost, which ioredis mends in two   *)
(* steps: it connects, and then sends a SUBSCRIBE of its own.              *)
(*                                                                         *)
(* What the table holds is the matter of BookStores: the cron job, too,    *)
(* puts the books of the seeds into whichever table there is.              *)
(***************************************************************************)
EXTENDS Integers, Sequences

CONSTANTS
  MaxEvents,  \* the events that are published in one behaviour
  MaxFaults   \* bound on rejected calls, lost connections and crashes

ASSUME StartupAssumption == MaxEvents \in Nat /\ MaxFaults \in Nat

Channels == {"books:events", "books:views"}

VARIABLES
  table,       \* DynamoDB: no table, one with AuthorYearIndex, or a plain one
  script,      \* the step of the seed-dynamo container
  main,        \* the step of bootstrap
  ensure,      \* the step of ensureTableExists
  link,        \* the subscriber's connection: down, up, or subscribed again
  subscribed,  \* Redis: the channels it forwards to that connection
  remembered,  \* ioredis: the channels it subscribes to again
  callbacks,   \* of a channel: how many of its callbacks listen to messages
  wire,        \* the events on their way to the process
  published,   \* the events that were published: their channels, in order
  handled,     \* of each of them: how often a callback was called with it
  missed,      \* those published without a subscription or lost under way
  faults       \* the part of the budget that is spent

redis  == <<link, subscribed, remembered, callbacks, wire>>
events == <<published, handled, missed>>
vars   == <<table, script, main, ensure, redis, events, faults>>

Fault == faults < MaxFaults /\ faults' = faults + 1

-----------------------------------------------------------------------------
(* The table: two programs make it, each in its own way.                   *)

\* A bug the properties must catch: the steps of the script are not tied.
ScriptCreateOrNot ==
  /\ script = "create"
  /\ table' = IF table = "none" THEN "plain" ELSE table
  /\ script' = "write"
  /\ UNCHANGED <<main, ensure, redis, events, faults>>

\* create-table of the script; a table that is there makes it fail, or a call
\* that rejects, done or not, and the shell's && then ends it.
ScriptCreate ==
  /\ script = "create"
  /\ \/ /\ table = "none"
        /\ table' = "plain" /\ script' = "write" /\ UNCHANGED faults
     \/ /\ table # "none"
        /\ script' = "failed" /\ UNCHANGED <<table, faults>>
     \/ /\ table' \in {table, IF table = "none" THEN "plain" ELSE table}
        /\ script' = "failed" /\ Fault
  /\ UNCHANGED <<main, ensure, redis, events>>

\* batch-write-item of the seeds, into the table there is.
ScriptWrite ==
  /\ script = "write"
  /\ \/ script' = "done" /\ UNCHANGED faults
     \/ script' = "failed" /\ Fault
  /\ UNCHANGED <<table, main, ensure, redis, events>>

\* onModuleInit of DynamoService; hooks run one module after the other, that
\* of the subscriber before or after this one.
EnsureTableExists ==
  /\ main \in {"subscribeEvents", "initialised"}
  /\ ensure = "idle"
  /\ ensure' = "describe"
  /\ UNCHANGED <<table, script, main, redis, events, faults>>

\* A bug the properties must catch: any error of describeTable ends it.
DescribeOnly ==
  /\ ensure = "describe"
  /\ ensure' = "ended"
  /\ UNCHANGED <<table, script, main, redis, events, faults>>

\* describeTable: only ResourceNotFoundException leads to createTable, every
\* other error is logged and nothing more.
DescribeTable ==
  /\ ensure = "describe"
  /\ \/ ensure' = (IF table = "none" THEN "create" ELSE "ended") /\ UNCHANGED faults
     \/ ensure' = "ended" /\ Fault
  /\ UNCHANGED <<table, script, main, redis, events>>

\* createTable, with the index; that there is one by now is an error like any
\* other, logged and nothing more.
CreateTable ==
  /\ ensure = "create"
  /\ ensure' = "ended"
  /\ \/ table' = (IF table = "none" THEN "indexed" ELSE table) /\ UNCHANGED faults
     \/ Fault /\ UNCHANGED table
  /\ UNCHANGED <<script, main, redis, events>>

-----------------------------------------------------------------------------
(* bootstrap, and the subscriptions it waits for.                          *)

Start ==
  /\ main = "down"
  /\ main' = "create"
  /\ UNCHANGED <<table, script, ensure, redis, events, faults>>

\* NestFactory.create, which waits for the connection to Postgres; the clients
\* of Redis connect with their first command.
Create ==
  /\ main = "create"
  /\ main' = "subscribeEvents"
  /\ UNCHANGED <<table, script, ensure, redis, events, faults>>

\* The process is gone, and so are its connection and what was under way.
Die ==
  /\ main' = "down"
  /\ ensure' = "idle"
  /\ link' = "down"
  /\ subscribed' = {} /\ remembered' = {}
  /\ callbacks' = [c \in Channels |-> 0]
  /\ wire' = <<>>
  /\ missed' = missed \cup {wire[i] : i \in DOMAIN wire}
  /\ Fault
  /\ UNCHANGED <<table, script, published, handled>>

Crash == main # "down" /\ Die

\* Postgres cannot be reached in ten attempts, or create rejects otherwise.
CreateRejects == main = "create" /\ Die

\* A SUBSCRIBE that is answered: from then on Redis forwards the channel.  It
\* waits for the connection, and goes out after ioredis' own.
Subscribe(channel, from, to) ==
  /\ main = from /\ link = "ready"
  /\ main' = to
  /\ subscribed' = subscribed \cup {channel}
  /\ remembered' = remembered \cup {channel}
  /\ UNCHANGED <<table, script, ensure, link, callbacks, wire, events, faults>>

\* One that is rejected: onModuleInit rejects, listen with it, and nobody
\* handles that, which ends the process.
SubscribeRejects == main \in {"subscribeEvents", "subscribeViews"} /\ Die

\* The callback is added once the await of the SUBSCRIBE has returned.
OnMessage(channel, from, to) ==
  /\ main = from
  /\ main' = to
  /\ callbacks' = [callbacks EXCEPT ![channel] = @ + 1]
  /\ UNCHANGED <<table, script, ensure, link, subscribed, remembered, wire, events,
                 faults>>

SubscribeToEvents ==
  \/ Subscribe("books:events", "subscribeEvents", "onEvents")
  \/ OnMessage("books:events", "onEvents", "subscribeViews")
  \/ Subscribe("books:views", "subscribeViews", "onViews")
  \/ OnMessage("books:views", "onViews", "initialised")

\* listen, after the hooks of all modules.
Listen ==
  /\ main = "initialised" /\ ensure # "idle"
  /\ main' = "serving"
  /\ UNCHANGED <<table, script, ensure, redis, events, faults>>

-----------------------------------------------------------------------------
(* The subscriber's connection.                                            *)

\* publish, by a request or the cron job: Redis forwards the message to whom
\* is subscribed when it comes, and keeps nothing.
Publish(channel) ==
  /\ main = "serving" /\ Len(published) < MaxEvents
  /\ published' = Append(published, channel)
  /\ handled' = Append(handled, 0)
  /\ wire' = IF channel \in subscribed THEN Append(wire, Len(published) + 1) ELSE wire
  /\ missed' = IF channel \in subscribed THEN missed ELSE missed \cup {Len(published) + 1}
  /\ UNCHANGED <<table, script, main, ensure, link, subscribed, remembered, callbacks,
                 faults>>

\* A bug the properties must catch: a callback takes the messages of both
\* channels for its own.
DeliverToAll ==
  /\ wire # <<>>
  /\ wire' = Tail(wire)
  /\ handled' = [handled EXCEPT ![Head(wire)] =
                  @ + callbacks["books:events"] + callbacks["books:views"]]
  /\ UNCHANGED <<table, script, main, ensure, link, subscribed, remembered, callbacks,
                 published, missed, faults>>

\* A bug the properties must catch: the last message of the backlog is first.
DeliverLast ==
  /\ wire # <<>>
  /\ wire' = SubSeq(wire, 1, Len(wire) - 1)
  /\ LET e == wire[Len(wire)] IN
       handled' = [handled EXCEPT ![e] = @ + callbacks[published[e]]]
  /\ UNCHANGED <<table, script, main, ensure, link, subscribed, remembered, callbacks,
                 published, missed, faults>>

\* The message event of the connection: each of its listeners looks whether
\* the channel is its own.
Deliver ==
  /\ wire # <<>>
  /\ wire' = Tail(wire)
  /\ handled' = [handled EXCEPT ![Head(wire)] = @ + callbacks[published[Head(wire)]]]
  /\ UNCHANGED <<table, script, main, ensure, link, subscribed, remembered, callbacks,
                 published, missed, faults>>

Disconnect ==
  /\ link # "down"
  /\ link' = "down"
  /\ subscribed' = {}
  /\ wire' = <<>>
  /\ missed' = missed \cup {wire[i] : i \in DOMAIN wire}
  /\ Fault
  /\ UNCHANGED <<table, script, main, ensure, remembered, callbacks, published, handled>>

\* A bug the properties must catch: only a connection with a subscription is
\* mended.
ConnectSubscriber ==
  /\ main \notin {"down", "create"} /\ link = "down" /\ remembered # {}
  /\ link' = "up"
  /\ UNCHANGED <<table, script, main, ensure, subscribed, remembered, callbacks, wire,
                 events, faults>>

\* ioredis connects, for the first command of the client (lazyConnect) or
\* after a lost connection, and asks Redis whether it is ready.  The
\* connection is a new one: Redis forwards nothing to it.
Connect ==
  /\ main \notin {"down", "create"} /\ link = "down"
  /\ link' = "up"
  /\ UNCHANGED <<table, script, main, ensure, subscribed, remembered, callbacks, wire,
                 events, faults>>

\* A bug the properties must catch: the callbacks are added again as well.
ResubscribeTwice ==
  /\ link = "up"
  /\ link' = "ready"
  /\ subscribed' = remembered
  /\ callbacks' = [c \in Channels |-> IF c \in remembered THEN callbacks[c] + 1 ELSE 0]
  /\ UNCHANGED <<table, script, main, ensure, remembered, wire, events, faults>>

\* Once it is ready, ioredis sends one SUBSCRIBE of all it remembers, and then
\* what has queued up.  (When Redis goes away in between, the command is sent
\* again; after three vain retries it rejects, nobody handles that, and the
\* process ends: Crash.)
Resubscribe ==
  /\ link = "up"
  /\ link' = "ready"
  /\ subscribed' = remembered
  /\ UNCHANGED <<table, script, main, ensure, remembered, callbacks, wire, events, faults>>

-----------------------------------------------------------------------------
Init ==
  /\ table = "none" /\ script = "create"
  /\ main = "down" /\ ensure = "idle"
  /\ link = "down" /\ subscribed = {} /\ remembered = {}
  /\ callbacks = [c \in Channels |-> 0]
  /\ wire = <<>> /\ published = <<>> /\ handled = <<>> /\ missed = {}
  /\ faults = 0

Bootstrap == Create \/ SubscribeToEvents \/ EnsureTableExists \/ Listen

Next ==
  \/ ScriptCreate \/ ScriptWrite
  \/ Start \/ Bootstrap \/ DescribeTable \/ CreateTable
  \/ CreateRejects \/ SubscribeRejects \/ Crash
  \/ \E c \in Channels : Publish(c)
  \/ Deliver \/ Disconnect \/ Connect \/ Resubscribe

\* The process goes on while it lives, and ioredis keeps trying to connect, to
\* a Redis that comes back; nobody has to start the process, or the script.
Fairness ==
  /\ WF_vars(Create) /\ WF_vars(SubscribeToEvents) /\ WF_vars(EnsureTableExists)
  /\ WF_vars(Listen) /\ WF_vars(Connect) /\ WF_vars(Resubscribe)

Spec == Init /\ [][Next]_vars /\ Fairness

-----------------------------------------------------------------------------
(* Properties.                                                             *)

Steps == {"down", "create", "subscribeEvents", "onEvents", "subscribeViews", "onViews",
          "initialised", "serving"}

\* The types of the variables; ensureTableExists runs in a process.
TypeOK ==
  /\ table \in {"none", "plain", "indexed"}
  /\ script \in {"create", "write", "done", "failed"}
  /\ main \in Steps
  /\ ensure \in {"idle", "describe", "create", "ended"}
  /\ link \in {"down", "up", "ready"}
  /\ subscribed \subseteq remembered /\ remembered \subseteq Channels
  /\ callbacks \in [Channels -> {0, 1}]
  /\ published \in Seq(Channels) /\ handled \in Seq(Nat)
  /\ Len(handled) = Len(published)
  /\ wire \in Seq(1..Len(published))
  /\ missed \subseteq 1..Len(published)
  /\ faults \in 0..MaxFaults

\* One of the two programs makes the table and the other leaves it as it is:
\* the script writes its seeds to a table of its own, which lacks the index
\* that findByAuthorAndYear queries, and where no call has failed it gives up
\* only for the service's table, which has that index.
MadeByOne ==
  /\ script \in {"write", "done"} => table = "plain"
  /\ script = "failed" /\ faults = 0 => table = "indexed"

\* Once ensureTableExists has ended there is a table, whatever the script does
\* meanwhile, unless a call failed: it is made once, and never tried again.
TableUnlessFault == ensure = "ended" /\ faults = 0 => table # "none"

\* Every event is handled once, by the callback of its channel, as soon as it
\* has come: no event comes before its callback is there, and none is handled
\* twice after the connection was mended.  Only what was under way when the
\* connection went, or published before its channel was subscribed to again,
\* is missed, and nothing is if the connection never went.
HandledOnce ==
  /\ \A e \in 1..Len(published) :
       IF e \in missed \/ e \in {wire[i] : i \in DOMAIN wire}
         THEN handled[e] = 0
         ELSE handled[e] = 1
  /\ faults = 0 => missed = {}

\* The events of both channels are handled in the order they were published,
\* through restarts and lost connections: what is under way is never overtaken,
\* and a connection that is mended does not go back to what was lost.
Channel == INSTANCE EventChannel WITH times <- handled, lost <- missed

HandledInOrder == Channel!Spec

\* Every start ends: with a server that listens, or with the process gone.
StartEnds == main = "create" ~> main \in {"serving", "down"}
=============================================================================
