---------------------------- MODULE EventChannel ----------------------------
(***************************************************************************)
(* What publishers of events may rely on: an event is handled once at      *)
(* most, and in the order in which the events were sent, whatever their    *)
(* channels.  Events are lost all at once, with everything that is under   *)
(* way, and one is lost as it is sent only when nothing else is.           *)
(***************************************************************************)
EXTENDS Naturals, Sequences

VARIABLES
  times,  \* of each event that was sent, in order: how often it was handled
  lost    \* the events that never will be

vars == <<times, lost>>

UnderWay == {e \in 1..Len(times) : e \notin lost /\ times[e] = 0}

Send ==
  /\ times' = Append(times, 0)
  /\ \/ UNCHANGED lost
     \/ UnderWay = {} /\ lost' = lost \cup {Len(times) + 1}

\* The first of those that are under way.
Handle ==
  \E e \in UnderWay :
    /\ \A d \in UnderWay : e <= d
    /\ times' = [times EXCEPT ![e] = 1]
    /\ UNCHANGED lost

LoseAll == lost' = lost \cup UnderWay /\ UNCHANGED times

Init == times = <<>> /\ lost = {}

Next == Send \/ Handle \/ LoseAll

Spec == Init /\ [][Next]_vars
=============================================================================
