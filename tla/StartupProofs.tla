---------------------------- MODULE StartupProofs ----------------------------
(***************************************************************************)
(* Theorems about Startup, for any number of events and faults.            *)
(***************************************************************************)
EXTENDS Startup, TLAPS

-----------------------------------------------------------------------------
(* The types, and what the connection and the callbacks have in common.    *)

\* The last step of bootstrap that left the callback of a channel in place.
Listening(channel) ==
  \/ main \in {"initialised", "serving"}
  \/ main \in {"subscribeViews", "onViews"} /\ channel = "books:events"

\* A process that serves remembers both channels; a connection that is ready
\* is subscribed to what is remembered, and it takes a fault to lose it; on one
\* that is not, nothing is under way.
LinkInv ==
  /\ TypeOK
  /\ \A c \in Channels : callbacks[c] = IF Listening(c) THEN 1 ELSE 0
  /\ main \notin {"down", "create", "subscribeEvents"} => "books:events" \in remembered
  /\ main \in {"onViews", "initialised", "serving"} => "books:views" \in remembered
  /\ main \in {"down", "create", "subscribeEvents"} => remembered = {}
  /\ main \in {"down", "create"} => link = "down"
  /\ subscribed = IF link = "ready" THEN remembered ELSE {}
  /\ link # "ready" => wire = <<>>
  /\ remembered # {} /\ link # "ready" => faults # 0
  /\ faults = 0 => missed = {}
  /\ main # "serving" => wire = <<>>

LEMMA LinkInit == ASSUME Init PROVE LinkInv
<1>1. /\ published \in Seq(Channels) /\ handled \in Seq(Nat)
      /\ wire \in Seq(1..Len(published)) /\ Len(handled) = Len(published)
  BY DEF Init
<1>2. /\ table = "none" /\ script = "create"
      /\ main = "down" /\ ensure = "idle" /\ link = "down"
      /\ subscribed = {} /\ remembered = {} /\ missed = {}
      /\ callbacks \in [Channels -> {0, 1}] /\ faults \in 0..MaxFaults
  BY StartupAssumption DEF Init
<1>3. TypeOK
  BY <1>1, <1>2 DEF TypeOK, Steps
<1>4. \A c \in Channels : callbacks[c] = 0 /\ ~Listening(c)
  BY DEF Init, Listening
<1>5. /\ main = "down" /\ link = "down" /\ wire = <<>>
      /\ subscribed = {} /\ remembered = {} /\ missed = {}
  BY DEF Init
<1> QED
  BY <1>3, <1>4, <1>5 DEF LinkInv

LEMMA FaultType ==
  ASSUME faults \in 0..MaxFaults, Fault
  PROVE  faults' \in 0..MaxFaults /\ faults' # 0
  BY StartupAssumption DEF Fault

\* A sequence with one more element.
LEMMA Appended ==
  ASSUME NEW S, NEW q \in Seq(S), NEW x \in S
  PROVE  Append(q, x) \in Seq(S) /\ Len(Append(q, x)) = Len(q) + 1
  OBVIOUS

\* Losing the connection, or the process.
LEMMA EmptyWire ==
  ASSUME TypeOK, missed' = missed \cup {wire[i] : i \in DOMAIN wire}
  PROVE  missed' \subseteq 1..Len(published)
<1>1. \A i \in DOMAIN wire : wire[i] \in 1..Len(published)
  BY DEF TypeOK
<1> QED
  BY <1>1 DEF TypeOK

LEMMA LinkNext == ASSUME LinkInv, [Next]_vars PROVE LinkInv'
<1> USE DEF LinkInv, Channels
<1>1. CASE ScriptCreate \/ ScriptWrite \/ EnsureTableExists \/ DescribeTable \/ CreateTable
  <2>1. UNCHANGED <<main, redis, events>>
    BY <1>1 DEF ScriptCreate, ScriptWrite, EnsureTableExists, DescribeTable, CreateTable
  <2>2. /\ table' \in {"none", "plain", "indexed"}
        /\ script' \in {"create", "write", "done", "failed"}
        /\ ensure' \in {"idle", "describe", "create", "ended"}
        /\ faults' \in 0..MaxFaults /\ (faults' = faults \/ faults' # 0)
    BY <1>1, FaultType
       DEF ScriptCreate, ScriptWrite, EnsureTableExists, DescribeTable, CreateTable,
           TypeOK
  <2> QED
    BY <2>1, <2>2 DEF TypeOK, Listening, redis, events
<1>2. CASE Start \/ Create
  BY <1>2 DEF Start, Create, TypeOK, Listening, Steps, redis, events
<1>3. CASE CreateRejects \/ SubscribeRejects \/ Crash
  <2>1. Die
    BY <1>3 DEF CreateRejects, SubscribeRejects, Crash
  <2>2. missed' \subseteq 1..Len(published) /\ faults' \in 0..MaxFaults /\ faults' # 0
    BY <2>1, EmptyWire, FaultType DEF Die, TypeOK
  <2>3. /\ main' = "down" /\ ensure' = "idle"
        /\ link' = "down" /\ subscribed' = {} /\ remembered' = {}
        /\ callbacks' = [c \in Channels |-> 0]
        /\ wire' = <<>> /\ wire' \in Seq(1..Len(published'))
        /\ UNCHANGED <<table, script, published, handled>>
    BY <2>1 DEF Die
  <2>4. TypeOK'
    BY <2>2, <2>3 DEF TypeOK, Steps
  <2> QED
    BY <2>2, <2>3, <2>4 DEF Listening
<1>4. CASE SubscribeToEvents
  <2>1. CASE Subscribe("books:events", "subscribeEvents", "onEvents")
    <3>1. /\ UNCHANGED <<table, script, ensure, link, callbacks, wire, events, faults>>
          /\ main = "subscribeEvents" /\ main' = "onEvents" /\ link = "ready"
          /\ subscribed' = subscribed \cup {"books:events"}
          /\ remembered' = remembered \cup {"books:events"}
      BY <2>1 DEF Subscribe
    <3>2. TypeOK'
      BY <3>1 DEF TypeOK, Steps, events
    <3> QED
      BY <3>1, <3>2 DEF Listening, events
  <2>2. CASE OnMessage("books:events", "onEvents", "subscribeViews")
    <3>1. /\ UNCHANGED <<table, script, ensure, link, subscribed, remembered, wire,
                         events, faults>>
          /\ main = "onEvents" /\ main' = "subscribeViews"
          /\ callbacks' = [callbacks EXCEPT !["books:events"] = @ + 1]
      BY <2>2 DEF OnMessage
    <3>2. callbacks' \in [Channels -> {0, 1}] /\ callbacks'["books:events"] = 1
      BY <3>1 DEF TypeOK, Listening
    <3>3. TypeOK'
      BY <3>1, <3>2 DEF TypeOK, Steps, events
    <3> QED
      BY <3>1, <3>2, <3>3 DEF Listening, TypeOK, events
  <2>3. CASE Subscribe("books:views", "subscribeViews", "onViews")
    <3>1. /\ UNCHANGED <<table, script, ensure, link, callbacks, wire, events, faults>>
          /\ main = "subscribeViews" /\ main' = "onViews" /\ link = "ready"
          /\ subscribed' = subscribed \cup {"books:views"}
          /\ remembered' = remembered \cup {"books:views"}
      BY <2>3 DEF Subscribe
    <3>2. TypeOK'
      BY <3>1 DEF TypeOK, Steps, events
    <3> QED
      BY <3>1, <3>2 DEF Listening, events
  <2>4. CASE OnMessage("books:views", "onViews", "initialised")
    <3>1. /\ UNCHANGED <<table, script, ensure, link, subscribed, remembered, wire,
                         events, faults>>
          /\ main = "onViews" /\ main' = "initialised"
          /\ callbacks' = [callbacks EXCEPT !["books:views"] = @ + 1]
      BY <2>4 DEF OnMessage
    <3>2. callbacks' \in [Channels -> {0, 1}] /\ callbacks'["books:views"] = 1
      BY <3>1 DEF TypeOK, Listening
    <3>3. TypeOK'
      BY <3>1, <3>2 DEF TypeOK, Steps, events
    <3> QED
      BY <3>1, <3>2, <3>3 DEF Listening, TypeOK, events
  <2> QED
    BY <1>4, <2>1, <2>2, <2>3, <2>4 DEF SubscribeToEvents
<1>10. CASE Listen
  BY <1>10 DEF Listen, TypeOK, Listening, Steps, redis, events
<1>5. CASE \E c \in Channels : Publish(c)
  <2>1. PICK c \in Channels : Publish(c)
    BY <1>5
  <2>2. Len(published') = Len(published) + 1 /\ Len(handled') = Len(published')
        /\ published' \in Seq(Channels) /\ handled' \in Seq(Nat)
    <3>1. published' = Append(published, c) /\ handled' = Append(handled, 0)
      BY <2>1 DEF Publish
    <3>2. published \in Seq(Channels) /\ handled \in Seq(Nat) /\ Len(handled) = Len(published)
      BY DEF TypeOK
    <3>3. published' \in Seq(Channels) /\ Len(published') = Len(published) + 1
      BY <3>1, <3>2, Appended
    <3>4. handled' \in Seq(Nat) /\ Len(handled') = Len(handled) + 1
      BY <3>1, <3>2, Appended
    <3> QED
      BY <3>2, <3>3, <3>4
  <2>3. wire \in Seq(1..Len(published'))
    BY <2>2 DEF TypeOK
  <2>4. wire' \in Seq(1..Len(published'))
    <3>1. wire' = wire \/ wire' = Append(wire, Len(published'))
      BY <2>1, <2>2 DEF Publish
    <3>2. Len(published') \in 1..Len(published')
      BY <2>2 DEF TypeOK
    <3>3. Append(wire, Len(published')) \in Seq(1..Len(published'))
      BY <2>3, <3>2, Appended
    <3> QED
      BY <2>3, <3>1, <3>3
  <2>5. missed' \subseteq 1..Len(published')
    <3>1. missed' \subseteq missed \cup {Len(published) + 1}
      BY <2>1 DEF Publish
    <3>2. missed \subseteq 1..Len(published) /\ Len(published) \in Nat
      BY DEF TypeOK
    <3> QED
      BY <2>2, <3>1, <3>2
  <2>6. (link' # "ready" => wire' = <<>>) /\ (faults = 0 => missed' = {})
    BY <2>1 DEF Publish
  <2>7. UNCHANGED <<table, script, main, ensure, link, subscribed, remembered,
                    callbacks, faults>> /\ main = "serving"
    BY <2>1 DEF Publish
  <2>8. TypeOK'
    BY <2>2, <2>4, <2>7, <2>5 DEF TypeOK
  <2> QED
    BY <2>6, <2>7, <2>8 DEF Listening
<1>6. CASE Deliver
  <2>1. Head(wire) \in 1..Len(published) /\ wire' \in Seq(1..Len(published))
    BY <1>6 DEF Deliver, TypeOK
  <2>2. handled' \in Seq(Nat) /\ Len(handled') = Len(handled)
    BY <1>6, <2>1 DEF Deliver, TypeOK
  <2> QED
    BY <1>6, <2>1, <2>2 DEF Deliver, TypeOK, Listening, Steps
<1>7. CASE Disconnect
  <2>1. missed' \subseteq 1..Len(published) /\ faults' \in 0..MaxFaults /\ faults' # 0
    BY <1>7, EmptyWire, FaultType DEF Disconnect, TypeOK
  <2>2. /\ UNCHANGED <<table, script, main, ensure, remembered, callbacks,
                       published, handled>>
        /\ link' = "down" /\ subscribed' = {}
        /\ wire' = <<>> /\ wire' \in Seq(1..Len(published'))
    BY <1>7 DEF Disconnect
  <2>3. TypeOK'
    BY <2>1, <2>2 DEF TypeOK
  <2>4. main \notin {"down", "create"}
    BY <1>7 DEF Disconnect
  <2> QED
    BY <2>1, <2>2, <2>3, <2>4 DEF Listening
<1>8. CASE Connect \/ Resubscribe
  <2>1. UNCHANGED <<table, script, main, ensure, remembered, callbacks, wire, events,
                    faults>>
    BY <1>8 DEF Connect, Resubscribe
  <2>2. /\ main \notin {"down", "create"} /\ wire = <<>>
        /\ \/ link' = "up" /\ subscribed' = {} /\ (remembered # {} => faults # 0)
           \/ link' = "ready" /\ subscribed' = remembered
    BY <1>8 DEF Connect, Resubscribe
  <2>3. TypeOK'
    BY <2>1, <2>2 DEF TypeOK, events
  <2> QED
    BY <2>1, <2>2, <2>3 DEF Listening, events
<1>9. CASE UNCHANGED vars
  BY <1>9 DEF vars, redis, events, TypeOK, Listening
<1> QED
  BY <1>1, <1>2, <1>3, <1>4, <1>5, <1>6, <1>7, <1>8, <1>9, <1>10 DEF Next, Bootstrap

\* The variables keep their types, and no callback is added twice.
THEOREM TypeCorrect == Spec => []TypeOK
<1>1. LinkInv => TypeOK
  BY DEF LinkInv
<1> QED
  BY <1>1, LinkInit, LinkNext, PTL DEF Spec

-----------------------------------------------------------------------------
(* The events.                                                             *)

\* The events on the wire.
Wired == {wire[i] : i \in DOMAIN wire}

Handled ==
  \A e \in 1..Len(published) : handled[e] = IF e \in missed \cup Wired THEN 0 ELSE 1

\* No event is on the wire twice, none that is was missed, and all the others
\* have been handled once or missed.
EventInv ==
  /\ \A i, j \in 1..Len(wire) : wire[i] = wire[j] => i = j
  /\ \A e \in 1..Len(published) : e \in missed => e \notin Wired
  /\ Handled

LEMMA PublishHandled ==
  ASSUME LinkInv, EventInv, NEW c \in Channels, Publish(c)
  PROVE  EventInv'
<1> DEFINE e == Len(published) + 1
<1>1. /\ published \in Seq(Channels) /\ handled \in Seq(Nat)
      /\ Len(handled) = Len(published) /\ wire \in Seq(1..Len(published))
      /\ missed \subseteq 1..Len(published)
  BY DEF LinkInv, TypeOK
<1>2. /\ Len(published') = e /\ handled' = Append(handled, 0)
      /\ handled'[e] = 0 /\ \A x \in 1..Len(published) : handled'[x] = handled[x]
  BY <1>1 DEF Publish
<1>3. /\ e \notin missed /\ e \notin Wired /\ Wired \subseteq 1..Len(published)
      /\ e \notin 1..Len(published) /\ 1..e = (1..Len(published)) \cup {e}
  BY <1>1 DEF Wired
<1>4. CASE link = "ready"
  <2>1. subscribed = Channels
    BY <1>4 DEF Publish, LinkInv, TypeOK, Channels
  <2>2. wire' = Append(wire, e) /\ missed' = missed
    BY <1>4, <2>1 DEF Publish
  <2>3. /\ Len(wire') = Len(wire) + 1 /\ wire'[Len(wire) + 1] = e
        /\ \A i \in 1..Len(wire) : wire'[i] = wire[i]
        /\ DOMAIN wire' = 1..(Len(wire) + 1) /\ DOMAIN wire = 1..Len(wire)
    BY <1>1, <2>2
  <2>4. Wired' = Wired \cup {e}
    <3>1. \A i \in DOMAIN wire' : i \in DOMAIN wire \/ i = Len(wire) + 1
      BY <1>1, <2>3
    <3>2. Wired' \subseteq Wired \cup {e}
      BY <2>3, <3>1 DEF Wired
    <3>3. DOMAIN wire \subseteq DOMAIN wire' /\ Len(wire) + 1 \in DOMAIN wire'
      BY <1>1, <2>3
    <3>4. Wired \cup {e} \subseteq Wired'
      BY <2>3, <3>3 DEF Wired
    <3> QED
      BY <3>2, <3>4
  <2>5. \A i, j \in 1..Len(wire') : wire'[i] = wire'[j] => i = j
    <3>1. \A i \in 1..Len(wire) : wire[i] # e
      BY <1>3, <2>3 DEF Wired
    <3>2. \A i \in 1..Len(wire') : i \in 1..Len(wire) \/ i = Len(wire) + 1
      BY <1>1, <2>3
    <3> QED
      BY <2>3, <3>1, <3>2 DEF EventInv
  <2> HIDE DEF e
  <2>6. \A x \in 1..Len(published') : x \in missed' => x \notin Wired'
    BY <1>1, <1>2, <1>3, <2>2, <2>4 DEF EventInv
  <2>7. Handled'
    BY <1>2, <1>3, <2>2, <2>4 DEF EventInv, Handled, Wired
  <2> QED
    BY <2>5, <2>6, <2>7 DEF EventInv
<1>5. CASE link # "ready"
  <2>1. subscribed = {}
    BY <1>5 DEF LinkInv
  <2>2. wire' = wire /\ missed' = missed \cup {e} /\ Wired' = Wired
    BY <1>5, <2>1 DEF Publish, Wired
  <2> HIDE DEF e
  <2>3. \A x \in 1..Len(published') : x \in missed' => x \notin Wired'
    BY <1>1, <1>2, <1>3, <2>2 DEF EventInv
  <2>4. Handled'
    BY <1>2, <1>3, <2>2 DEF EventInv, Handled, Wired
  <2> QED
    BY <2>2, <2>3, <2>4 DEF EventInv
<1> QED
  BY <1>4, <1>5

LEMMA DeliverHandled ==
  ASSUME LinkInv, EventInv, Deliver
  PROVE  EventInv'
<1> DEFINE e == Head(wire)
<1>1. /\ published \in Seq(Channels) /\ handled \in Seq(Nat)
      /\ Len(handled) = Len(published) /\ wire \in Seq(1..Len(published))
      /\ wire # <<>> /\ wire' = Tail(wire)
      /\ UNCHANGED <<published, missed>>
  BY DEF LinkInv, TypeOK, Deliver
<1>2. /\ Len(wire) \in Nat \ {0} /\ e = wire[1] /\ Len(wire') = Len(wire) - 1
      /\ \A i \in 1..Len(wire') : wire'[i] = wire[i + 1]
      /\ DOMAIN wire = 1..Len(wire) /\ DOMAIN wire' = 1..Len(wire')
  BY <1>1
<1>3. e \in 1..Len(published) /\ published[e] \in Channels
  BY <1>1, <1>2
<1>4. callbacks[published[e]] = 1
  BY <1>1, <1>3 DEF LinkInv, Listening
<1>5. e \in Wired /\ e \notin missed /\ handled[e] = 0
  <2>1. e \in Wired
    BY <1>2 DEF Wired
  <2> QED
    BY <1>3, <2>1 DEF EventInv, Handled, Wired
<1>6. /\ handled' = [handled EXCEPT ![e] = @ + callbacks[published[e]]]
      /\ DOMAIN handled = 1..Len(published)
  BY <1>1 DEF Deliver
<1>7. handled'[e] = 1 /\ \A x \in 1..Len(published) : x # e => handled'[x] = handled[x]
  BY <1>3, <1>4, <1>5, <1>6
<1>8. \A i, j \in 1..Len(wire') : wire'[i] = wire'[j] => i = j
  <2> SUFFICES ASSUME NEW i \in 1..Len(wire'), NEW j \in 1..Len(wire'),
                      wire'[i] = wire'[j]
               PROVE  i = j
    OBVIOUS
  <2>1. i + 1 \in 1..Len(wire) /\ j + 1 \in 1..Len(wire) /\ wire[i + 1] = wire[j + 1]
    BY <1>2
  <2>2. i + 1 = j + 1
    BY <2>1 DEF EventInv
  <2> QED
    BY <2>2
<1>9. Wired' = Wired \ {e}
  <2>1. \A i \in 1..Len(wire') : i + 1 \in 1..Len(wire) /\ i + 1 # 1
    BY <1>2
  <2>2. \A i \in 1..Len(wire) : wire[i] # e => i - 1 \in 1..Len(wire')
                                               /\ wire'[i - 1] = wire[i]
    BY <1>2
  <2>3. \A i \in 1..Len(wire') : wire'[i] # e
    BY <1>2, <2>1 DEF EventInv
  <2>4. Wired' \subseteq Wired \ {e}
    BY <1>2, <2>1, <2>3 DEF Wired
  <2>5. Wired \ {e} \subseteq Wired'
    BY <1>2, <2>2 DEF Wired
  <2> QED
    BY <2>4, <2>5
<1> HIDE DEF e
<1>10. Handled'
  BY <1>1, <1>5, <1>7, <1>9 DEF EventInv, Handled, Wired
<1> QED
  BY <1>1, <1>8, <1>9, <1>10 DEF EventInv

\* What was on the wire when the connection went.
LEMMA LoseHandled ==
  ASSUME LinkInv, EventInv, wire' = <<>>, UNCHANGED <<published, handled>>,
         missed' = missed \cup {wire[i] : i \in DOMAIN wire}
  PROVE  EventInv'
<1>1. Len(wire') = 0 /\ DOMAIN wire' = {} /\ missed' = missed \cup Wired
  BY DEF Wired
<1>2. Wired' = {}
  BY <1>1 DEF Wired
<1>3. Handled'
  BY <1>1, <1>2 DEF EventInv, Handled, Wired
<1> QED
  BY <1>1, <1>2, <1>3 DEF EventInv

LEMMA EventInvariant == Spec => []EventInv
<1>1. Init => EventInv
  <2>1. ASSUME Init PROVE Len(wire) = 0 /\ Len(published) = 0 /\ missed = {}
    BY <2>1 DEF Init
  <2> QED
    BY <2>1 DEF EventInv, Handled
<1>2. LinkInv /\ EventInv /\ [Next]_vars => EventInv'
  <2> SUFFICES ASSUME LinkInv, EventInv, [Next]_vars PROVE EventInv'
    OBVIOUS
  <2>1. CASE \E c \in Channels : Publish(c)
    BY <2>1, PublishHandled
  <2>2. CASE Deliver
    BY <2>2, DeliverHandled
  <2>3. CASE CreateRejects \/ SubscribeRejects \/ Crash \/ Disconnect
    BY <2>3, LoseHandled DEF CreateRejects, SubscribeRejects, Crash, Die, Disconnect
  <2>4. ASSUME UNCHANGED <<wire, published, handled, missed>> PROVE EventInv'
    BY <2>4 DEF EventInv, Handled, Wired
  <2>5. CASE ScriptCreate \/ ScriptWrite \/ DescribeTable \/ CreateTable \/ Start
             \/ Bootstrap \/ Connect \/ Resubscribe \/ UNCHANGED vars
    BY <2>4, <2>5 DEF ScriptCreate, ScriptWrite, DescribeTable, CreateTable, Start,
         Bootstrap, SubscribeToEvents, Subscribe, OnMessage, EnsureTableExists, Listen,
         Create, Connect, Resubscribe, vars, redis, events
  <2> QED
    BY <2>1, <2>2, <2>3, <2>5 DEF Next
<1> QED
  BY <1>1, <1>2, LinkInit, LinkNext, PTL DEF Spec

\* Every event is handled once, unless the connection, or the process, went
\* while it was under way, or it was published to a connection that ioredis had
\* not subscribed again yet; without a fault every event is.
THEOREM EventsHandledOnce == Spec => []HandledOnce
<1>1. LinkInv /\ EventInv => HandledOnce
  BY DEF LinkInv, EventInv, Handled, HandledOnce, Wired
<1> QED
  BY <1>1, LinkInit, LinkNext, EventInvariant, PTL DEF Spec

-----------------------------------------------------------------------------
(***************************************************************************)
(* Startup implements EventChannel.  What is under way there is what is on *)
(* the wire here, which needs EventInv; that its head is the first of them *)
(* needs the wire to be in the order of publication.                       *)
(***************************************************************************)

OrderInv == \A i, j \in 1..Len(wire) : i < j => wire[i] < wire[j]

LEMMA OrderNext == ASSUME LinkInv, OrderInv, [Next]_vars PROVE OrderInv'
<1>1. /\ wire \in Seq(1..Len(published)) /\ Len(published) \in Nat
      /\ \A i \in 1..Len(wire) : wire[i] \in 1..Len(published)
  BY DEF LinkInv, TypeOK
<1>2. ASSUME UNCHANGED wire PROVE OrderInv'
  BY <1>2 DEF OrderInv
<1>3. ASSUME NEW c \in Channels, Publish(c), wire' = Append(wire, Len(published) + 1)
      PROVE  OrderInv'
  <2>1. /\ Len(wire') = Len(wire) + 1 /\ Len(wire) \in Nat
        /\ \A i \in 1..Len(wire) : wire'[i] = wire[i]
        /\ wire'[Len(wire) + 1] = Len(published) + 1
    BY <1>1, <1>3
  <2> SUFFICES ASSUME NEW i \in 1..Len(wire'), NEW j \in 1..Len(wire'), i < j
               PROVE  wire'[i] < wire'[j]
    BY DEF OrderInv
  <2>2. i \in 1..Len(wire) /\ wire'[i] = wire[i] /\ wire[i] \in 1..Len(published)
    BY <1>1, <2>1
  <2>3. CASE j \in 1..Len(wire)
    BY <2>1, <2>2, <2>3 DEF OrderInv
  <2>4. CASE j = Len(wire) + 1
    BY <1>1, <2>1, <2>2, <2>4
  <2> QED
    BY <2>1, <2>3, <2>4
<1>4. CASE Deliver
  <2>1. /\ Len(wire') = Len(wire) - 1 /\ Len(wire) \in Nat \ {0}
        /\ \A i \in 1..Len(wire') : wire'[i] = wire[i + 1]
    BY <1>1, <1>4 DEF Deliver
  <2> SUFFICES ASSUME NEW i \in 1..Len(wire'), NEW j \in 1..Len(wire'), i < j
               PROVE  wire'[i] < wire'[j]
    BY DEF OrderInv
  <2>2. i + 1 \in 1..Len(wire) /\ j + 1 \in 1..Len(wire) /\ i + 1 < j + 1
    BY <2>1
  <2>3. wire[i + 1] < wire[j + 1]
    BY <2>2 DEF OrderInv
  <2> QED
    BY <2>1, <2>3
<1>5. CASE \E c \in Channels : Publish(c)
  BY <1>2, <1>3, <1>5 DEF Publish
<1>6. CASE CreateRejects \/ SubscribeRejects \/ Crash \/ Disconnect
  <2>1. Len(wire') = 0
    BY <1>6 DEF CreateRejects, SubscribeRejects, Crash, Die, Disconnect
  <2> QED
    BY <2>1 DEF OrderInv
<1>7. CASE ScriptCreate \/ ScriptWrite \/ DescribeTable \/ CreateTable \/ Start
           \/ Bootstrap \/ Connect \/ Resubscribe \/ UNCHANGED vars
  BY <1>2, <1>7 DEF ScriptCreate, ScriptWrite, DescribeTable, CreateTable, Start,
       Bootstrap, SubscribeToEvents, Subscribe, OnMessage, EnsureTableExists, Listen,
       Create, Connect, Resubscribe, vars, redis, events
<1> QED
  BY <1>4, <1>5, <1>6, <1>7 DEF Next

\* The mapping of the set that every step of the channel is about.
LEMMA UnderWayIsWired ==
  ASSUME LinkInv, EventInv
  PROVE  Channel!UnderWay = Wired
<1>1. /\ wire \in Seq(1..Len(published)) /\ Len(handled) = Len(published)
      /\ Wired \subseteq 1..Len(published)
  BY DEF LinkInv, TypeOK, Wired
<1>2. \A e \in 1..Len(published) : e \notin missed /\ handled[e] = 0 <=> e \in Wired
  BY <1>1 DEF EventInv, Handled, Wired
<1> QED
  BY <1>1, <1>2 DEF Channel!UnderWay

LEMMA StepImplements ==
  ASSUME LinkInv, EventInv, OrderInv, [Next]_vars
  PROVE  [Channel!Next]_Channel!vars
<1>1. /\ handled \in Seq(Nat) /\ wire \in Seq(1..Len(published))
      /\ Len(handled) = Len(published) /\ Len(published) \in Nat
  BY DEF LinkInv, TypeOK
<1>2. ASSUME NEW c \in Channels, Publish(c) PROVE Channel!Send
  <2>1. handled' = Append(handled, 0)
    BY <1>2 DEF Publish
  <2>2. CASE link = "ready"
    <3>1. c \in subscribed
      BY <1>2, <2>2 DEF Publish, LinkInv, Channels
    <3> QED
      BY <1>2, <2>1, <3>1 DEF Publish, Channel!Send
  <2>3. CASE link # "ready"
    <3>1. wire = <<>>
      BY <2>3 DEF LinkInv
    <3>2. Channel!UnderWay = {}
      BY <3>1, UnderWayIsWired DEF Wired
    <3> QED
      BY <1>1, <1>2, <2>1, <2>3, <3>2 DEF Publish, Channel!Send
  <2> QED
    BY <2>2, <2>3
<1>3. CASE Deliver
  <2> DEFINE e == Head(wire)
  <2>1. /\ Len(wire) \in Nat \ {0} /\ e = wire[1] /\ 1 \in DOMAIN wire
        /\ DOMAIN wire = 1..Len(wire) /\ e \in 1..Len(published)
    BY <1>1, <1>3 DEF Deliver
  <2>2. e \in Channel!UnderWay
    BY <2>1, UnderWayIsWired DEF Wired
  <2>3. ASSUME NEW d \in Channel!UnderWay PROVE e <= d
    <3>1. PICK i \in 1..Len(wire) : d = wire[i]
      BY <2>1, UnderWayIsWired DEF Wired
    <3>2. i = 1 \/ 1 < i
      BY <3>1
    <3>3. d \in 1..Len(published)
      BY <1>1, <3>1
    <3> QED
      BY <2>1, <3>1, <3>2, <3>3 DEF OrderInv
  <2>4. callbacks[published[e]] = 1 /\ handled[e] = 0
    <3>1. published[e] \in Channels
      BY <2>1 DEF LinkInv, TypeOK
    <3>2. callbacks[published[e]] = 1
      BY <1>3, <3>1 DEF Deliver, LinkInv, Listening
    <3>3. handled[e] = 0
      BY <2>2 DEF Channel!UnderWay
    <3> QED
      BY <3>2, <3>3
  <2>5. handled' = [handled EXCEPT ![e] = handled[e] + callbacks[published[e]]]
        /\ UNCHANGED missed
    BY <1>3 DEF Deliver
  <2> HIDE DEF e
  <2>6. handled' = [handled EXCEPT ![e] = 1]
    BY <2>4, <2>5
  <2> QED
    BY <2>2, <2>3, <2>5, <2>6 DEF Channel!Handle, Channel!Next
<1>4. CASE CreateRejects \/ SubscribeRejects \/ Crash \/ Disconnect
  <2>1. missed' = missed \cup Wired /\ UNCHANGED handled
    BY <1>4 DEF CreateRejects, SubscribeRejects, Crash, Die, Disconnect, Wired
  <2> QED
    BY <2>1, UnderWayIsWired DEF Channel!LoseAll, Channel!Next
<1>5. CASE ScriptCreate \/ ScriptWrite \/ DescribeTable \/ CreateTable \/ Start
           \/ Bootstrap \/ Connect \/ Resubscribe \/ UNCHANGED vars
  <2>1. UNCHANGED <<handled, missed>>
    BY <1>5 DEF ScriptCreate, ScriptWrite, DescribeTable, CreateTable, Start,
       Bootstrap, SubscribeToEvents, Subscribe, OnMessage, EnsureTableExists, Listen,
       Create, Connect, Resubscribe, vars, redis, events
  <2> QED
    BY <2>1 DEF Channel!vars
<1> QED
  BY <1>2, <1>3, <1>4, <1>5 DEF Next, Channel!Next

\* What the service publishes to itself goes through a channel that never
\* overtakes and never repeats, across crashes, lost connections and the
\* subscriptions ioredis makes again, for any number of them.
THEOREM StartupImplementsEventChannel == Spec => HandledInOrder
<1>1. Init => Channel!Init /\ OrderInv
  <2> SUFFICES ASSUME Init PROVE Channel!Init /\ OrderInv
    OBVIOUS
  <2>1. Len(wire) = 0 /\ handled = <<>> /\ missed = {}
    BY DEF Init
  <2> QED
    BY <2>1 DEF Channel!Init, OrderInv
<1> QED
  BY <1>1, LinkInit, LinkNext, EventInvariant, OrderNext, StepImplements, PTL
     DEF Spec, HandledInOrder, Channel!Spec

-----------------------------------------------------------------------------
(* The table.                                                              *)

TableInv ==
  /\ MadeByOne
  /\ script = "create" => table # "plain"
  /\ table \in {"none", "plain", "indexed"}
  /\ TableUnlessFault
  /\ faults \in Nat

LEMMA TableInvariant == Spec => []TableInv
<1>1. Init => TableInv
  BY DEF Init, TableInv, MadeByOne, TableUnlessFault
<1>2. TableInv /\ [Next]_vars => TableInv'
  <2> SUFFICES ASSUME TableInv, [Next]_vars PROVE TableInv'
    OBVIOUS
  <2> USE DEF TableInv, MadeByOne, TableUnlessFault
  <2>1. CASE ScriptCreate \/ ScriptWrite
    BY <2>1 DEF ScriptCreate, ScriptWrite, Fault
  <2>2. CASE DescribeTable \/ CreateTable
    BY <2>2 DEF DescribeTable, CreateTable, Fault
  <2>3. CASE CreateRejects \/ SubscribeRejects \/ Crash
    BY <2>3 DEF CreateRejects, SubscribeRejects, Crash, Die, Fault
  <2>4. CASE Disconnect
    BY <2>4 DEF Disconnect, Fault
  <2>5. CASE Start \/ Bootstrap \/ Connect \/ Resubscribe \/ Deliver \/ UNCHANGED vars
             \/ \E c \in Channels : Publish(c)
    <3>1. UNCHANGED <<table, script, faults>> /\ (ensure' = ensure \/ ensure' = "describe")
      BY <2>5 DEF Start, Bootstrap, Create, SubscribeToEvents, Subscribe, OnMessage,
           EnsureTableExists, Listen, Connect, Resubscribe, Deliver, Publish, vars
    <3> QED
      BY <3>1
  <2> QED
    BY <2>1, <2>2, <2>3, <2>4, <2>5 DEF Next
<1> QED
  BY <1>1, <1>2, PTL DEF Spec

\* One of the two programs makes the table, with or without the index, and the
\* other leaves it as it is.
THEOREM TableOfOneKind == Spec => []MadeByOne
<1>1. TableInv => MadeByOne
  BY DEF TableInv
<1> QED
  BY <1>1, TableInvariant, PTL

\* A process that was told that all went well has a table, whichever of the
\* two programs made it, and in which order.
THEOREM TableIsThere == Spec => []TableUnlessFault
<1>1. TableInv => TableUnlessFault
  BY DEF TableInv
<1> QED
  BY <1>1, TableInvariant, PTL
=============================================================================
