-------------------------- MODULE BoundedStaleness --------------------------
(***************************************************************************)
(* What a cache with a time to live promises: the data changes from one    *)
(* version to the next, and a request is answered with a version that was  *)
(* the current one at some time in the last Bound units of time.  Answers  *)
(* may go back and forth between recent versions: nothing orders them.     *)
(***************************************************************************)
EXTENDS Naturals

CONSTANTS
  Requests,
  Bound

VARIABLES
  now,
  data,    \* the current version
  ended,   \* of an earlier version: when the next one took its place
  served   \* of a request: the set of the version it was last answered with

vars == <<now, data, ended, served>>

NoAnswer == {}

Recent(v) == v = data \/ (v < data /\ now <= ended[v] + Bound)

Tick == now' = now + 1 /\ UNCHANGED <<data, ended, served>>

Write ==
  /\ data' = data + 1
  /\ ended' = [v \in 0..data |-> IF v = data THEN now ELSE ended[v]]
  /\ UNCHANGED <<now, served>>

Serve(r) ==
  /\ \E v \in 0..data : Recent(v) /\ served' = [served EXCEPT ![r] = {v}]
  /\ UNCHANGED <<now, data, ended>>

\* Requests that fail are answered with no version of the data.
Fail(R) ==
  /\ served' = [r \in Requests |-> IF r \in R THEN NoAnswer ELSE served[r]]
  /\ UNCHANGED <<now, data, ended>>

Init ==
  /\ now = 0
  /\ data = 0
  /\ ended = [v \in {} |-> 0]
  /\ served = [r \in Requests |-> NoAnswer]

Next == Tick \/ Write \/ (\E r \in Requests : Serve(r)) \/ (\E R \in SUBSET Requests : Fail(R))

Spec == Init /\ [][Next]_vars
=============================================================================
