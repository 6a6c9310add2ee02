---------------------------- MODULE CSharpBatch -----------------------------
(***************************************************************************)
(* csharp/src/Chromahash/BatchEncoder.cs: worker threads that consume a    *)
(* BlockingCollection of work items, write hashes into the array the call  *)
(* returns and signal the CountdownEvent of the call, which disposes of it *)
(* as soon as its wait is over.                                            *)
(*                                                                         *)
(* Calls may overlap. Dispose, as for any IDisposable, does not overlap    *)
(* with a call. An exception on a worker thread ends the process.          *)
(***************************************************************************)
EXTENDS Integers, Sequences

CONSTANTS
  Calls,      \* calls of EncodeBatch
  Workers,    \* the threads of the pool
  Images,     \* image inputs: records of Width, Height, Length (of Rgba), Quality
  MaxTier,    \* the highest tier code
  IntBits,    \* the width of the code's int: 32
  Batches,    \* the lists a caller can pass
  Encode,     \* the hash of each image
  Null        \* an array element that was not written

ASSUME WorkersAssumption == Workers # {}
ASSUME ImagesAssumption ==
  Images \subseteq [Width : Nat, Height : Nat, Length : Nat, Quality : Nat]
ASSUME IntBitsAssumption == IntBits \in Nat \ {0}
ASSUME BatchesAssumption == Batches \subseteq Seq(Images)
ASSUME EncodeAssumption ==
  DOMAIN Encode = Images /\ \A i \in Images : Encode[i] # Null

VARIABLES
  crashed,    \* an exception escaped a worker thread
  adding,     \* _jobs is not marked complete for adding
  disposed,   \* "no"; "joining": inside Dispose; "yes"
  jobs,       \* _jobs
  cpc,        \* where each call is
  items,      \* the list of each call
  added,      \* how many work items a call has added
  count,      \* the CountdownEvent of each call
  output,     \* the array each call returns
  wpc,        \* where each worker is
  wjob        \* the WorkItem each worker holds

callVars == <<cpc, items, added>>
vars == <<crashed, adding, disposed, jobs, callVars, count, output, wpc, wjob>>

Hashes == {Encode[i] : i \in Images}
WorkItem == [call : Calls, index : Nat, input : Images]
NoItem == <<>>

\* The value of n in an int of IntBits bits: arithmetic is unchecked.
Int32(n) == ((n + 2 ^ (IntBits - 1)) % 2 ^ IntBits) - 2 ^ (IntBits - 1)

\* What EncodeBatch checks of an item.
Passes(it) ==
  /\ it.Width >= 1 /\ it.Height >= 1
  /\ it.Length = Int32(it.Width * it.Height * 4)
  /\ it.Quality <= MaxTier

\* What EncodeWithQuality, with the native library, accepts.
Encodable(it) ==
  /\ it.Quality <= MaxTier
  /\ it.Width >= 1 /\ it.Height >= 1
  /\ it.Length = it.Width * it.Height * 4

AllPass(c) == \A i \in DOMAIN items[c] : Passes(items[c][i])

Init ==
  /\ crashed = FALSE /\ adding = TRUE /\ disposed = "no"
  /\ jobs = <<>>
  /\ cpc = [c \in Calls |-> "new"]
  /\ items = [c \in Calls |-> <<>>]
  /\ added = [c \in Calls |-> 0]
  /\ count = [c \in Calls |-> 0]
  /\ output = [c \in Calls |-> <<>>]
  /\ wpc = [w \in Workers |-> "taking"]
  /\ wjob = [w \in Workers |-> NoItem]

-----------------------------------------------------------------------------
(* EncodeBatch *)

Call(c, b) ==
  /\ ~ crashed /\ cpc[c] = "new" /\ disposed # "joining"
  /\ cpc' = [cpc EXCEPT ![c] = "entered"]
  /\ items' = [items EXCEPT ![c] = b]
  /\ UNCHANGED <<crashed, adding, disposed, jobs, added, count, output, wpc, wjob>>

\* ThrowIf(_disposed), or an item that does not pass.
Throw(c) ==
  /\ ~ crashed /\ cpc[c] = "entered"
  /\ disposed # "no" \/ ~ AllPass(c)
  /\ cpc' = [cpc EXCEPT ![c] = "threw"]
  /\ UNCHANGED <<crashed, adding, disposed, jobs, items, added, count, output, wpc, wjob>>

\* Mutant: the event starts one signal short.
AcceptShort(c) ==
  /\ ~ crashed /\ cpc[c] = "entered"
  /\ disposed = "no" /\ AllPass(c)
  /\ output' = [output EXCEPT ![c] = [i \in DOMAIN items[c] |-> Null]]
  /\ count' = [count EXCEPT ![c] = Len(items[c]) - 1]
  /\ cpc' = [cpc EXCEPT ![c] = IF items[c] = <<>> THEN "returned" ELSE "adding"]
  /\ UNCHANGED <<crashed, adding, disposed, jobs, items, added, wpc, wjob>>

\* The array and the event; an empty list returns at once.
Accept(c) ==
  /\ ~ crashed /\ cpc[c] = "entered"
  /\ disposed = "no" /\ AllPass(c)
  /\ output' = [output EXCEPT ![c] = [i \in DOMAIN items[c] |-> Null]]
  /\ count' = [count EXCEPT ![c] = Len(items[c])]
  /\ cpc' = [cpc EXCEPT ![c] = IF items[c] = <<>> THEN "returned" ELSE "adding"]
  /\ UNCHANGED <<crashed, adding, disposed, jobs, items, added, wpc, wjob>>

Add(c) ==
  /\ ~ crashed /\ cpc[c] = "adding" /\ added[c] < Len(items[c])
  /\ LET n == added[c] + 1
     IN  /\ jobs' = Append(jobs, [call |-> c, index |-> n, input |-> items[c][n]])
         /\ added' = [added EXCEPT ![c] = n]
  /\ UNCHANGED <<crashed, adding, disposed, cpc, items, count, output, wpc, wjob>>

\* done.Wait() is over; the event is disposed of on the way out.
Return(c) ==
  /\ ~ crashed /\ cpc[c] = "adding" /\ added[c] = Len(items[c])
  /\ count[c] = 0
  /\ cpc' = [cpc EXCEPT ![c] = "returned"]
  /\ UNCHANGED <<crashed, adding, disposed, jobs, items, added, count, output, wpc, wjob>>

-----------------------------------------------------------------------------
(* WorkerLoop *)

Take(w) ==
  /\ ~ crashed /\ wpc[w] = "taking" /\ jobs # <<>>
  /\ wjob' = [wjob EXCEPT ![w] = Head(jobs)]
  /\ jobs' = Tail(jobs)
  /\ wpc' = [wpc EXCEPT ![w] = "encoding"]
  /\ UNCHANGED <<crashed, adding, disposed, callVars, count, output>>

\* Mutant: the index is not used, hashes are appended in order of completion.
WriteNext(w) ==
  /\ ~ crashed /\ wpc[w] = "encoding" /\ Encodable(wjob[w].input)
  /\ LET j == wjob[w]
         next == Len(items[j.call]) - count[j.call] + 1
     IN  output' = [output EXCEPT ![j.call] = [@ EXCEPT ![next] = Encode[j.input]]]
  /\ wpc' = [wpc EXCEPT ![w] = "written"]
  /\ UNCHANGED <<crashed, adding, disposed, jobs, callVars, count, wjob>>

\* Mutant: the item goes back to the queue.
WriteRequeued(w) ==
  /\ ~ crashed /\ wpc[w] = "encoding" /\ Encodable(wjob[w].input)
  /\ jobs' = Append(jobs, wjob[w])
  /\ wjob' = [wjob EXCEPT ![w] = NoItem]
  /\ wpc' = [wpc EXCEPT ![w] = "taking"]
  /\ UNCHANGED <<crashed, adding, disposed, callVars, count, output>>

Write(w) ==
  /\ ~ crashed /\ wpc[w] = "encoding" /\ Encodable(wjob[w].input)
  /\ LET j == wjob[w]
     IN  output' = [output EXCEPT ![j.call] = [@ EXCEPT ![j.index] = Encode[j.input]]]
  /\ wpc' = [wpc EXCEPT ![w] = "written"]
  /\ UNCHANGED <<crashed, adding, disposed, jobs, callVars, count, wjob>>

\* EncodeWithQuality throws, and nothing on the thread catches it.
Crash(w) ==
  /\ ~ crashed /\ wpc[w] = "encoding" /\ ~ Encodable(wjob[w].input)
  /\ crashed' = TRUE
  /\ UNCHANGED <<adding, disposed, jobs, callVars, count, output, wpc, wjob>>

Signal(w) ==
  /\ ~ crashed /\ wpc[w] = "written"
  /\ count' = [count EXCEPT ![wjob[w].call] = @ - 1]
  /\ wpc' = [wpc EXCEPT ![w] = "taking"]
  /\ wjob' = [wjob EXCEPT ![w] = NoItem]
  /\ UNCHANGED <<crashed, adding, disposed, jobs, callVars, output>>

\* The enumeration ends when the collection is complete and empty.
Exit(w) ==
  /\ ~ crashed /\ wpc[w] = "taking" /\ jobs = <<>> /\ ~ adding
  /\ wpc' = [wpc EXCEPT ![w] = "exited"]
  /\ UNCHANGED <<crashed, adding, disposed, jobs, callVars, count, output, wjob>>

-----------------------------------------------------------------------------
(* Dispose *)

\* Later calls of Dispose return at once.
Dispose ==
  /\ ~ crashed /\ disposed = "no"
  /\ \A c \in Calls : cpc[c] \in {"new", "returned", "threw"}
  /\ disposed' = "joining"
  /\ adding' = FALSE
  /\ UNCHANGED <<crashed, jobs, callVars, count, output, wpc, wjob>>

Joined ==
  /\ ~ crashed /\ disposed = "joining"
  /\ \A w \in Workers : wpc[w] = "exited"
  /\ disposed' = "yes"
  /\ UNCHANGED <<crashed, adding, jobs, callVars, count, output, wpc, wjob>>

-----------------------------------------------------------------------------
Caller(c) == Throw(c) \/ Accept(c) \/ Add(c) \/ Return(c)
Worker(w) == Take(w) \/ Write(w) \/ Crash(w) \/ Signal(w) \/ Exit(w)

Stopped == (crashed \/ disposed = "yes") /\ UNCHANGED vars

Next ==
  \/ \E c \in Calls, b \in Batches : Call(c, b)
  \/ \E c \in Calls : Caller(c)
  \/ \E w \in Workers : Worker(w)
  \/ Dispose
  \/ Joined
  \/ Stopped

Spec == Init /\ [][Next]_vars

\* Threads that can run do run; nobody need call or dispose of anything.
LiveSpec == /\ Spec
            /\ \A c \in Calls : WF_vars(Caller(c))
            /\ \A w \in Workers : WF_vars(Worker(w))
            /\ WF_vars(Joined)

-----------------------------------------------------------------------------
(* Properties *)

\* Every variable has its type.
TypeOK ==
  /\ crashed \in BOOLEAN /\ adding \in BOOLEAN
  /\ disposed \in {"no", "joining", "yes"}
  /\ jobs \in Seq(WorkItem)
  /\ cpc \in [Calls -> {"new", "entered", "adding", "returned", "threw"}]
  /\ items \in [Calls -> Seq(Images)]
  /\ added \in [Calls -> Nat] /\ count \in [Calls -> Nat]
  /\ output \in [Calls -> Seq(Hashes \cup {Null})]
  /\ wpc \in [Workers -> {"taking", "encoding", "written", "exited"}]
  /\ wjob \in [Workers -> WorkItem \cup {NoItem}]

\* The event is disposed of when the call returns: no worker has yet to signal
\* it, and none holds the array.
NoSignalAfterDispose ==
  \A c \in Calls : cpc[c] = "returned" =>
    \A w \in Workers : wjob[w] # NoItem => wjob[w].call # c

\* "an invalid item throws on the calling thread rather than failing a worker
\* mid-flight. Validation matches EncodeWithQuality."
NoWorkerFails == ~ crashed

\* Every call ends, with its hashes or with an exception of its own.
CallsEnd ==
  \A c \in Calls : cpc[c] = "entered" ~> crashed \/ cpc[c] \in {"returned", "threw"}

Status(c) == CASE cpc[c] \in {"entered", "adding"} -> "running"
               [] cpc[c] = "threw" -> "failed"
               [] OTHER -> cpc[c]

Abstract == INSTANCE BatchSpec WITH
  Valid <- {it \in Images : Passes(it)},
  Faulty <- {},
  open <- (disposed = "no"),
  status <- [c \in Calls |-> Status(c)],
  batch <- items,
  result <- [c \in Calls |-> IF cpc[c] = "returned" THEN output[c] ELSE <<>>]

\* The pool implements the promise of a batch encoder.
Refines == Abstract!Spec
=============================================================================
