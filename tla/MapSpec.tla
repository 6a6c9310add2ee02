------------------------------ MODULE MapSpec -------------------------------
(***************************************************************************)
(* What a bounded concurrent map promises: a function is applied to each   *)
(* item at most once, to so many items at a time, and the map resolves to  *)
(* the results in the order of the items, or rejects because some          *)
(* application did.                                                        *)
(***************************************************************************)
EXTENDS Naturals, FiniteSets

CONSTANTS
  Items,      \* the indices of the items
  Width,      \* how many applications may be in flight
  Value       \* the result of each item

VARIABLES
  started,    \* items the function was applied to
  ended,      \* those whose application resolved
  failed,     \* those whose application rejected
  outcome,    \* "pending", "resolved" or "rejected"
  result      \* what the map resolved to

vars == <<started, ended, failed, outcome, result>>

InFlight == started \ (ended \cup failed)

Init ==
  /\ started \in SUBSET Items /\ Cardinality(started) <= Width
  /\ ended = {} /\ failed = {}
  /\ outcome = "pending" /\ result = <<>>

\* An application resolves, and makes room for another one.
Finish(i) ==
  /\ i \in InFlight
  /\ ended' = ended \cup {i}
  /\ started' \in {started} \cup {started \cup {j} : j \in Items \ started}
  /\ UNCHANGED <<failed, outcome, result>>

Fail(i) ==
  /\ i \in InFlight
  /\ failed' = failed \cup {i}
  /\ UNCHANGED <<started, ended, outcome, result>>

Resolve ==
  /\ outcome = "pending" /\ ended = Items
  /\ outcome' = "resolved" /\ result' = Value
  /\ UNCHANGED <<started, ended, failed>>

Reject ==
  /\ outcome = "pending" /\ failed # {}
  /\ outcome' = "rejected"
  /\ UNCHANGED <<started, ended, failed, result>>

Next == Resolve \/ Reject \/ \E i \in Items : Finish(i) \/ Fail(i)

Spec == Init /\ [][Next]_vars
=============================================================================
