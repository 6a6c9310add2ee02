-------------------------------- MODULE Pool --------------------------------
(***************************************************************************)
(* tools/comparison/src/pool.ts: mapConcurrent, the fan-out over the       *)
(* images of a report, and Semaphore, which caps the metric processes that *)
(* the function applied to the images starts.                              *)
(*                                                                         *)
(* One event loop runs everything: an action is what happens between two   *)
(* awaits. A resolved promise lets its awaiter run in a later turn, so a   *)
(* permit that was granted is not yet in use.                              *)
(***************************************************************************)
EXTENDS Naturals, Sequences, FiniteSets

CONSTANTS
  N,          \* items.length
  Limit,      \* the limit of mapConcurrent
  Permits,    \* the permits of the semaphore
  MaxRuns,    \* bound: how often one application enters the semaphore
  Faulty,     \* items on which fn, or a process it starts, may fail
  Value,      \* what fn resolves to, by item
  Hole        \* an element of out that was not assigned

ASSUME NAssumption == N \in Nat /\ Limit \in Nat /\ MaxRuns \in Nat
ASSUME PermitsAssumption == Permits \in Nat \ {0}
ASSUME FaultyAssumption == Faulty \subseteq 1 .. N
ASSUME ValueAssumption ==
  Value = [i \in 1 .. N |-> Value[i]] /\ \A i \in 1 .. N : Value[i] # Hole

\* Math.min(limit, items.length); the serial loop is a single worker.
Workers == IF N = 0 THEN {}
           ELSE IF Limit <= 1 THEN {1}
           ELSE IF Limit < N THEN 1 .. Limit ELSE 1 .. N

VARIABLES
  next,       \* the next item to claim
  wpc,        \* where each worker is in its loop and in fn
  item,       \* the item each worker has claimed last
  runs,       \* how often the application has entered the semaphore
  out,        \* the array of results
  outcome,    \* "pending", or how the map settled
  available,  \* permits in the semaphore
  waiting     \* workers that await one, first come first

mapVars == <<next, item, out, outcome>>
vars == <<mapVars, wpc, runs, available, waiting>>

\* Each worker runs up to its first await before the next one is created.
Init ==
  /\ next = Cardinality(Workers) + 1
  /\ wpc = [w \in Workers |-> "busy"]
  /\ item = [w \in Workers |-> w]
  /\ runs = [w \in Workers |-> 0]
  /\ out = [i \in 1 .. N |-> Hole]
  /\ outcome = "pending"
  /\ available = Permits
  /\ waiting = <<>>

-----------------------------------------------------------------------------
(* The loop of a worker, and Promise.all *)

\* Mutant: results are pushed as they come.
ResolvePushing(w) ==
  /\ wpc[w] = "busy"
  /\ LET free == CHOOSE i \in 1 .. N : out[i] = Hole /\ \A j \in 1 .. i - 1 : out[j] # Hole
     IN  out' = [out EXCEPT ![free] = Value[item[w]]]
  /\ next' = next + 1
  /\ IF next <= N THEN item' = [item EXCEPT ![w] = next] /\ UNCHANGED wpc
                  ELSE wpc' = [wpc EXCEPT ![w] = "done"] /\ UNCHANGED item
  /\ runs' = [runs EXCEPT ![w] = 0]
  /\ UNCHANGED <<outcome, available, waiting>>

\* fn resolves: its result is stored and the next item claimed in one turn.
Resolve(w) ==
  /\ wpc[w] = "busy"
  /\ out' = [out EXCEPT ![item[w]] = Value[item[w]]]
  /\ next' = next + 1
  /\ IF next <= N THEN item' = [item EXCEPT ![w] = next] /\ UNCHANGED wpc
                  ELSE wpc' = [wpc EXCEPT ![w] = "done"] /\ UNCHANGED item
  /\ runs' = [runs EXCEPT ![w] = 0]
  /\ UNCHANGED <<outcome, available, waiting>>

\* fn rejects, and with it the worker; the others go on.
Reject(w) ==
  /\ wpc[w] = "busy" /\ item[w] \in Faulty
  /\ wpc' = [wpc EXCEPT ![w] = "failed"]
  /\ UNCHANGED <<mapVars, runs, available, waiting>>

\* The map settles: with all workers, or with the first that failed.
Settle ==
  /\ outcome = "pending"
  /\ \/ (\A w \in Workers : wpc[w] = "done") /\ outcome' = "resolved"
     \/ (\E w \in Workers : wpc[w] = "failed") /\ outcome' = "rejected"
  /\ UNCHANGED <<next, item, out, wpc, runs, available, waiting>>

-----------------------------------------------------------------------------
(* Semaphore *)

\* run: acquire, at once or at the end of the queue.
Acquire(w) ==
  /\ wpc[w] = "busy" /\ runs[w] < MaxRuns
  /\ runs' = [runs EXCEPT ![w] = @ + 1]
  /\ IF available > 0
       THEN /\ available' = available - 1
            /\ wpc' = [wpc EXCEPT ![w] = "granted"]
            /\ UNCHANGED waiting
       ELSE /\ waiting' = Append(waiting, w)
            /\ wpc' = [wpc EXCEPT ![w] = "waiting"]
            /\ UNCHANGED available
  /\ UNCHANGED mapVars

\* acquire returns, and the process is started.
Enter(w) ==
  /\ wpc[w] = "granted"
  /\ wpc' = [wpc EXCEPT ![w] = "running"]
  /\ UNCHANGED <<mapVars, runs, available, waiting>>

\* Mutant: the permit goes to whoever came last.
ReleaseLast(w, pc) ==
  IF waiting # <<>>
    THEN /\ wpc' = [wpc EXCEPT ![w] = pc, ![waiting[Len(waiting)]] = "granted"]
         /\ waiting' = SubSeq(waiting, 1, Len(waiting) - 1)
         /\ UNCHANGED available
    ELSE /\ available' = available + 1
         /\ wpc' = [wpc EXCEPT ![w] = pc]
         /\ UNCHANGED waiting

\* release, as w goes on to pc: the next waiter gets the permit.
Release(w, pc) ==
  IF waiting # <<>>
    THEN /\ wpc' = [wpc EXCEPT ![w] = pc, ![Head(waiting)] = "granted"]
         /\ waiting' = Tail(waiting)
         /\ UNCHANGED available
    ELSE /\ available' = available + 1
         /\ wpc' = [wpc EXCEPT ![w] = pc]
         /\ UNCHANGED waiting

\* The process ends; finally releases.
Leave(w) ==
  /\ wpc[w] = "running"
  /\ Release(w, "busy")
  /\ UNCHANGED <<mapVars, runs>>

\* Mutant: a process that fails is not released.
ThrowHolding(w) ==
  /\ wpc[w] = "running" /\ item[w] \in Faulty
  /\ \E pc \in {"busy", "failed"} : wpc' = [wpc EXCEPT ![w] = pc]
  /\ UNCHANGED <<mapVars, runs, available, waiting>>

\* Mutant: fn repeats what timed out, as often as it takes.
ThrowRetrying(w) ==
  /\ wpc[w] = "running" /\ item[w] \in Faulty
  /\ wpc' = [wpc EXCEPT ![w] = "granted"]
  /\ UNCHANGED <<mapVars, runs, available, waiting>>

\* The process fails or times out; finally releases, and fn catches or not.
Throw(w) ==
  /\ wpc[w] = "running" /\ item[w] \in Faulty
  /\ \E pc \in {"busy", "failed"} : Release(w, pc)
  /\ UNCHANGED <<mapVars, runs>>

-----------------------------------------------------------------------------
Worker(w) == Resolve(w) \/ Reject(w) \/ Acquire(w) \/ Enter(w) \/ Leave(w) \/ Throw(w)

\* The loop has nothing left to run.
Ended == (\A w \in Workers : wpc[w] \in {"done", "failed"}) /\ UNCHANGED vars

Next == Settle \/ Ended \/ \E w \in Workers : Worker(w)

Spec == Init /\ [][Next]_vars

-----------------------------------------------------------------------------
(* Properties *)

\* Every variable has its type.
TypeOK ==
  /\ next \in 1 .. N + Cardinality(Workers) + 1
  /\ wpc \in [Workers -> {"busy", "waiting", "granted", "running", "done", "failed"}]
  /\ item \in [Workers -> 1 .. N]
  /\ runs \in [Workers -> 0 .. MaxRuns]
  /\ out \in [1 .. N -> {Value[i] : i \in 1 .. N} \cup {Hole}]
  /\ outcome \in {"pending", "resolved", "rejected"}
  /\ available \in 0 .. Permits
  /\ waiting \in Seq(Workers)

\* Permits are neither lost nor made, whoever fails with one or waits for one:
\* never more processes than permits, and no permit that nobody can get. A
\* worker waits only while every permit is taken, and is in the queue once.
PermitsConserved ==
  /\ available + Cardinality({w \in Workers : wpc[w] \in {"granted", "running"}}) = Permits
  /\ waiting # <<>> => available = 0
  /\ {waiting[k] : k \in DOMAIN waiting} = {w \in Workers : wpc[w] = "waiting"}
  /\ Len(waiting) = Cardinality({w \in Workers : wpc[w] = "waiting"})

\* "a waiter cannot be overtaken by a fresh acquire()", nor by a later waiter.
NoOvertaking ==
  [][\A w \in Workers : wpc[w] # "granted" /\ wpc'[w] = "granted" =>
       waiting = <<>> \/ w = Head(waiting)]_vars

Width == IF Limit <= 1 THEN 1 ELSE Limit
FailedItems == {item[w] : w \in {v \in Workers : wpc[v] = "failed"}}

Abstract == INSTANCE MapSpec WITH
  Items <- 1 .. N,
  started <- 1 .. (IF next <= N THEN next - 1 ELSE N),
  ended <- {i \in 1 .. N : out[i] # Hole},
  failed <- FailedItems,
  result <- IF outcome = "resolved" THEN out ELSE <<>>

\* The workers implement a bounded map: each item once, at most Limit at a
\* time, results by index.
Refines == Abstract!Spec
=============================================================================
