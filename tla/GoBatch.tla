------------------------------ MODULE GoBatch -------------------------------
(***************************************************************************)
(* go/batch.go: BatchEncoder, worker goroutines that range over an         *)
(* unbuffered channel of jobs, write hashes straight into the slice the    *)
(* call will return and signal on a channel buffered to the item count.    *)
(*                                                                         *)
(* An encoder belongs to one goroutine, its owner: EncodeBatch and Close   *)
(* never overlap. A panic in a worker is recovered by nobody and ends the  *)
(* process; a panic in the owner may be recovered, and the owner goes on.  *)
(***************************************************************************)
EXTENDS Naturals, Sequences, FiniteSets

CONSTANTS
  Calls,      \* calls of EncodeBatch, made one after the other by the owner
  Workers,    \* the goroutines of the pool
  Images,     \* what the owner can put in a slice
  Valid,      \* the images that pass the up-front validation
  Faulty,     \* valid images on which EncodeWithQuality panics
  Batches,    \* the slices the owner can pass
  Encode,     \* EncodeWithQuality, as a function of the image
  Zero        \* the zero ChromaHash, not the hash of any image

ASSUME WorkersAssumption == Workers # {} /\ IsFiniteSet(Workers)
ASSUME ImagesAssumption == Faulty \subseteq Valid /\ Valid \subseteq Images
ASSUME BatchesAssumption == Batches \subseteq Seq(Images)
ASSUME EncodeAssumption ==
  DOMAIN Encode = Images /\ \A i \in Images : Encode[i] # Zero

VARIABLES
  crashed,    \* a goroutine panicked and took the process down
  closed,     \* be.closed
  closes,     \* how often close(be.jobs) ran; a second time panics
  opc,        \* where the owner is in each call
  items,      \* the slice of each call
  sent,       \* how many items the owner has handed over
  done,       \* signals buffered in the done channel of each call
  got,        \* signals the owner has taken from it
  out,        \* the slice each call returns
  wpc,        \* where each worker is
  wjob        \* the batchJob each worker holds

ownerVars == <<closed, closes, opc, items, sent, got>>
vars == <<crashed, ownerVars, done, out, wpc, wjob>>

Hashes == {Encode[i] : i \in Images}
Job == [call : Calls, index : Nat, input : Images]
NoJob == <<>>

ChannelOpen == closes = 0

\* The owner is inside no call.
OwnerFree == \A c \in Calls : opc[c] \in {"new", "returned", "panicked"}

\* done is made with room for a signal per item.
DoneCap(c) == Len(items[c])

Init ==
  /\ crashed = FALSE
  /\ closed = FALSE /\ closes = 0
  /\ opc = [c \in Calls |-> "new"]
  /\ items = [c \in Calls |-> <<>>]
  /\ sent = [c \in Calls |-> 0]
  /\ done = [c \in Calls |-> 0]
  /\ got = [c \in Calls |-> 0]
  /\ out = [c \in Calls |-> <<>>]
  /\ wpc = [w \in Workers |-> "waiting"]
  /\ wjob = [w \in Workers |-> NoJob]

-----------------------------------------------------------------------------
(* EncodeBatch and Close, on the owner's goroutine *)

Call(c, b) ==
  /\ ~ crashed /\ OwnerFree
  /\ opc[c] = "new"
  /\ opc' = [opc EXCEPT ![c] = "entered"]
  /\ items' = [items EXCEPT ![c] = b]
  /\ UNCHANGED <<crashed, closed, closes, sent, done, got, out, wpc, wjob>>

\* The encoder is closed, or an item does not validate.
Refuse(c) ==
  /\ ~ crashed /\ opc[c] = "entered"
  /\ closed \/ \E i \in DOMAIN items[c] : items[c][i] \notin Valid
  /\ opc' = [opc EXCEPT ![c] = "panicked"]
  /\ UNCHANGED <<crashed, closed, closes, items, sent, done, got, out, wpc, wjob>>

\* make(out); an empty slice returns at once.
Accept(c) ==
  /\ ~ crashed /\ opc[c] = "entered"
  /\ ~ closed /\ \A i \in DOMAIN items[c] : items[c][i] \in Valid
  /\ opc' = [opc EXCEPT ![c] = IF items[c] = <<>> THEN "returned" ELSE "sending"]
  /\ out' = [out EXCEPT ![c] = [i \in DOMAIN items[c] |-> Zero]]
  /\ UNCHANGED <<crashed, closed, closes, items, sent, done, got, wpc, wjob>>

\* be.jobs <- job meets a worker's receive: the channel holds nothing.
Hand(c, w) ==
  /\ ~ crashed /\ opc[c] = "sending" /\ sent[c] < Len(items[c])
  /\ ChannelOpen /\ wpc[w] = "waiting"
  /\ LET n == sent[c] + 1
     IN  /\ wjob' = [wjob EXCEPT ![w] = [call |-> c, index |-> n, input |-> items[c][n]]]
         /\ sent' = [sent EXCEPT ![c] = n]
  /\ wpc' = [wpc EXCEPT ![w] = "encoding"]
  /\ UNCHANGED <<crashed, closed, closes, opc, items, done, got, out>>

\* Mutant: the owner looks at the signals without taking one.
DrainPeeks(c) ==
  /\ ~ crashed /\ opc[c] = "sending" /\ sent[c] = Len(items[c])
  /\ got[c] < Len(items[c]) /\ done[c] > 0
  /\ UNCHANGED vars

\* <-done, once everything is sent.
Drain(c) ==
  /\ ~ crashed /\ opc[c] = "sending" /\ sent[c] = Len(items[c])
  /\ got[c] < Len(items[c]) /\ done[c] > 0
  /\ done' = [done EXCEPT ![c] = @ - 1]
  /\ got' = [got EXCEPT ![c] = @ + 1]
  /\ UNCHANGED <<crashed, closed, closes, opc, items, sent, out, wpc, wjob>>

\* Mutant: one signal too few is waited for.
ReturnEarly(c) ==
  /\ ~ crashed /\ opc[c] = "sending" /\ sent[c] = Len(items[c])
  /\ got[c] + 1 >= Len(items[c])
  /\ opc' = [opc EXCEPT ![c] = "returned"]
  /\ UNCHANGED <<crashed, closed, closes, items, sent, done, got, out, wpc, wjob>>

Return(c) ==
  /\ ~ crashed /\ opc[c] = "sending" /\ sent[c] = Len(items[c])
  /\ got[c] = Len(items[c])
  /\ opc' = [opc EXCEPT ![c] = "returned"]
  /\ UNCHANGED <<crashed, closed, closes, items, sent, done, got, out, wpc, wjob>>

\* A second Close returns at once.
Close ==
  /\ ~ crashed /\ OwnerFree
  /\ IF closed THEN UNCHANGED <<closed, closes>>
               ELSE closed' = TRUE /\ closes' = closes + 1
  /\ UNCHANGED <<crashed, opc, items, sent, done, got, out, wpc, wjob>>

-----------------------------------------------------------------------------
(* A worker goroutine *)

\* Mutant: the job refers to the loop variable instead of its value.
WriteCaptured(w) ==
  /\ ~ crashed /\ wpc[w] = "encoding" /\ wjob[w].input \in Valid \ Faulty
  /\ LET j == wjob[w]
     IN  out' = [out EXCEPT ![j.call] = [@ EXCEPT ![sent[j.call]] = Encode[j.input]]]
  /\ wpc' = [wpc EXCEPT ![w] = "written"]
  /\ UNCHANGED <<crashed, ownerVars, done, wjob>>

\* job.out[job.index] = EncodeWithQuality(...)
Write(w) ==
  /\ ~ crashed /\ wpc[w] = "encoding" /\ wjob[w].input \in Valid \ Faulty
  /\ LET j == wjob[w]
     IN  out' = [out EXCEPT ![j.call] = [@ EXCEPT ![j.index] = Encode[j.input]]]
  /\ wpc' = [wpc EXCEPT ![w] = "written"]
  /\ UNCHANGED <<crashed, ownerVars, done, wjob>>

\* job.done <- struct{}{} blocks while the buffer is full.
Signal(w) ==
  /\ ~ crashed /\ wpc[w] = "written"
  /\ done[wjob[w].call] < DoneCap(wjob[w].call)
  /\ done' = [done EXCEPT ![wjob[w].call] = @ + 1]
  /\ wpc' = [wpc EXCEPT ![w] = "waiting"]
  /\ wjob' = [wjob EXCEPT ![w] = NoJob]
  /\ UNCHANGED <<crashed, ownerVars, out>>

\* EncodeWithQuality checks what EncodeBatch validated, and may fail on a
\* faulty image: nothing recovers the panic.
Crash(w) ==
  /\ ~ crashed /\ wpc[w] = "encoding" /\ wjob[w].input \notin Valid \ Faulty
  /\ crashed' = TRUE
  /\ UNCHANGED <<ownerVars, done, out, wpc, wjob>>

\* range ends when the channel is closed.
Exit(w) ==
  /\ ~ crashed /\ wpc[w] = "waiting" /\ ~ ChannelOpen
  /\ wpc' = [wpc EXCEPT ![w] = "exited"]
  /\ UNCHANGED <<crashed, ownerVars, done, out, wjob>>

-----------------------------------------------------------------------------
Owner(c) == Refuse(c) \/ Accept(c) \/ (\E w \in Workers : Hand(c, w)) \/ Drain(c) \/ Return(c)

Worker(w) == Write(w) \/ Signal(w) \/ Crash(w) \/ Exit(w)

\* Nothing runs in a process that crashed; a closed pool has no goroutine left.
Stopped == (crashed \/ \A w \in Workers : wpc[w] = "exited") /\ UNCHANGED vars

Next ==
  \/ \E c \in Calls, b \in Batches : Call(c, b)
  \/ \E c \in Calls : Owner(c)
  \/ Close
  \/ \E w \in Workers : Worker(w)
  \/ Stopped

Spec == Init /\ [][Next]_vars

\* Goroutines that can run do run; the owner need not call or close anything.
LiveSpec == /\ Spec
            /\ \A c \in Calls : WF_vars(Owner(c))
            /\ \A w \in Workers : WF_vars(Worker(w))

-----------------------------------------------------------------------------
(* Properties *)

\* Every variable has its type.
TypeOK ==
  /\ crashed \in BOOLEAN /\ closed \in BOOLEAN /\ closes \in Nat
  /\ opc \in [Calls -> {"new", "entered", "sending", "returned", "panicked"}]
  /\ items \in [Calls -> Seq(Images)]
  /\ sent \in [Calls -> Nat] /\ done \in [Calls -> Nat] /\ got \in [Calls -> Nat]
  /\ out \in [Calls -> Seq(Hashes \cup {Zero})]
  /\ wpc \in [Workers -> {"waiting", "encoding", "written", "exited"}]
  /\ wjob \in [Workers -> Job \cup {NoJob}]

\* The slice belongs to the caller once returned: no worker still holds it, so
\* none can write to it behind the caller's back.
SliceHandedOver ==
  \A c \in Calls : opc[c] = "returned" =>
    \A w \in Workers : wjob[w] # NoJob => wjob[w].call # c

\* Every call ends: sending, reporting and draining never wait on each other
\* in a circle, however many more items than workers there are.
CallsEnd ==
  \A c \in Calls : opc[c] = "entered" ~> crashed \/ opc[c] \in {"returned", "panicked"}

Status(c) == CASE opc[c] \in {"entered", "sending"} -> "running"
               [] opc[c] = "panicked" -> "failed"
               [] OTHER -> opc[c]

Abstract == INSTANCE BatchSpec WITH
  open <- ~ closed,
  status <- [c \in Calls |-> Status(c)],
  batch <- items,
  result <- [c \in Calls |-> IF opc[c] = "returned" THEN out[c] ELSE <<>>]

\* The pool implements the promise of a batch encoder.
Refines == Abstract!Spec
=============================================================================
