----------------------------- MODULE RustBatch ------------------------------
(***************************************************************************)
(* rust/src/batch.rs: BatchEncoder, a persistent pool of worker threads.   *)
(* Calls of encode_batch (it takes &self, so they may overlap) send their  *)
(* jobs down one channel; each worker dequeues a job under a mutex,        *)
(* encodes it with the mutex released and reports on the channel of the    *)
(* call the job belongs to. Dropping the encoder closes the job channel    *)
(* and joins the workers.                                                  *)
(*                                                                         *)
(* A channel is a sequence. It is disconnected when its senders, or its    *)
(* receiver, no longer exist: who holds an end is read off the state of    *)
(* the threads (CallSenders, ReceiverAlive), never stored.                 *)
(***************************************************************************)
EXTENDS Naturals, Sequences, FiniteSets

CONSTANTS
  Calls,      \* calls of encode_batch, by any number of threads
  Workers,    \* the threads of the pool
  Images,     \* what a caller can put in a slice
  Valid,      \* the images that pass the up-front validation
  Faulty,     \* valid images on which encode_with_quality panics
  Batches,    \* the slices a caller can pass
  Encode,     \* encode_with_quality, as a function of the image
  None        \* neither a hash nor a worker

ASSUME WorkersAssumption == Workers # {} /\ None \notin Workers
ASSUME CallsAssumption == None \notin Calls
ASSUME ImagesAssumption == Faulty \subseteq Valid /\ Valid \subseteq Images
ASSUME BatchesAssumption == Batches \subseteq Seq(Images)
ASSUME EncodeAssumption ==
  DOMAIN Encode = Images /\ \A i \in Images : Encode[i] # None

VARIABLES
  encoder,    \* "alive"; "closing": job_tx is None, drop is joining; "dropped"
  jobs,       \* the job channel
  lock,       \* the worker that holds the mutex on the receiver, or None
  poisoned,   \* a thread panicked with the mutex held
  wpc,        \* where each worker is
  wjob,       \* the job each worker encodes
  cpc,        \* where each call is
  items,      \* the slice of each call
  sent,       \* how many of its items a call has sent
  results,    \* the result channel of each call
  got,        \* how many results a call has received
  out         \* the slots a call collects hashes into

poolVars == <<jobs, lock, poisoned, wpc, wjob>>
callVars == <<cpc, items, sent, results, got, out>>
vars == <<encoder, poolVars, callVars>>

\* A Job: the call its result_tx reports to, its index (from 1), the image.
Job == [call : Calls, index : Nat \ {0}, input : Images]
Hashes == {Encode[i] : i \in Images}
Result == [index : Nat \ {0}, hash : Hashes]
NoJob == [call |-> None, index |-> 0, input |-> None]

Gone == {"exited", "panicked"}

\* Some worker still shares the receiver of the job channel.
ReceiverAlive == \E w \in Workers : wpc[w] \notin Gone

\* A clone of c's result_tx is still alive outside encode_batch.
CallSenders(c) ==
  \/ \E k \in DOMAIN jobs : jobs[k].call = c
  \/ \E w \in Workers : wpc[w] = "encoding" /\ wjob[w].call = c

\* c's result_rx is still alive.
Listening(c) == cpc[c] \in {"sending", "collecting"}

-----------------------------------------------------------------------------
Init ==
  /\ encoder = "alive"
  /\ jobs = <<>>
  /\ lock = None
  /\ poisoned = FALSE
  /\ wpc = [w \in Workers |-> "idle"]
  /\ wjob = [w \in Workers |-> NoJob]
  /\ cpc = [c \in Calls |-> "new"]
  /\ items = [c \in Calls |-> <<>>]
  /\ sent = [c \in Calls |-> 0]
  /\ results = [c \in Calls |-> <<>>]
  /\ got = [c \in Calls |-> 0]
  /\ out = [c \in Calls |-> <<>>]

-----------------------------------------------------------------------------
(* encode_batch, on the calling thread *)

\* The call borrows the encoder, so it is alive for as long as the call runs.
Call(c, b) ==
  /\ cpc[c] = "new"
  /\ encoder = "alive"
  /\ cpc' = [cpc EXCEPT ![c] = "validating"]
  /\ items' = [items EXCEPT ![c] = b]
  /\ UNCHANGED <<encoder, poolVars, sent, results, got, out>>

\* An assertion on an item fails: the call panics before it sends anything.
Reject(c) ==
  /\ cpc[c] = "validating"
  /\ \E i \in DOMAIN items[c] : items[c][i] \notin Valid
  /\ cpc' = [cpc EXCEPT ![c] = "panicked"]
  /\ UNCHANGED <<encoder, poolVars, items, sent, results, got, out>>

\* Mutant: the last item of a slice is not validated.
AcceptUnchecked(c) ==
  /\ cpc[c] = "validating"
  /\ \A i \in 1 .. Len(items[c]) - 1 : items[c][i] \in Valid
  /\ cpc' = [cpc EXCEPT ![c] = IF items[c] = <<>> THEN "returned" ELSE "sending"]
  /\ UNCHANGED <<encoder, poolVars, items, sent, results, got, out>>

\* Every item validates: an empty slice returns at once, another one goes on
\* to the sending loop with a fresh result channel.
Accept(c) ==
  /\ cpc[c] = "validating"
  /\ \A i \in DOMAIN items[c] : items[c][i] \in Valid
  /\ cpc' = [cpc EXCEPT ![c] = IF items[c] = <<>> THEN "returned" ELSE "sending"]
  /\ UNCHANGED <<encoder, poolVars, items, sent, results, got, out>>

\* A panicking call drops both ends of its result channel.
Unwind(c) ==
  /\ cpc' = [cpc EXCEPT ![c] = "panicked"]
  /\ results' = [results EXCEPT ![c] = <<>>]
  /\ UNCHANGED <<encoder, poolVars, items, sent, got, out>>

\* Mutant: the second job carries the index of the first.
SendStaleIndex(c) ==
  /\ cpc[c] = "sending" /\ sent[c] < Len(items[c])
  /\ ReceiverAlive
  /\ LET n == sent[c] + 1
         stale == IF n = 2 THEN 1 ELSE n
     IN  /\ jobs' = Append(jobs, [call |-> c, index |-> stale, input |-> items[c][n]])
         /\ sent' = [sent EXCEPT ![c] = n]
  /\ UNCHANGED <<encoder, lock, poisoned, wpc, wjob, cpc, items, results, got, out>>

Send(c) ==
  /\ cpc[c] = "sending" /\ sent[c] < Len(items[c])
  /\ ReceiverAlive
  /\ LET n == sent[c] + 1
     IN  /\ jobs' = Append(jobs, [call |-> c, index |-> n, input |-> items[c][n]])
         /\ sent' = [sent EXCEPT ![c] = n]
  /\ UNCHANGED <<encoder, lock, poisoned, wpc, wjob, cpc, items, results, got, out>>

\* expect("worker pool is running")
SendFails(c) ==
  /\ cpc[c] = "sending" /\ sent[c] < Len(items[c])
  /\ ~ ReceiverAlive
  /\ Unwind(c)

\* drop(result_tx), and the slots: every sender left is in a job.
DropResultTx(c) ==
  /\ cpc[c] = "sending" /\ sent[c] = Len(items[c])
  /\ cpc' = [cpc EXCEPT ![c] = "collecting"]
  /\ out' = [out EXCEPT ![c] = [i \in DOMAIN items[c] |-> None]]
  /\ UNCHANGED <<encoder, poolVars, items, sent, results, got>>

\* Mutant: hashes are stored in the order they arrive.
CollectAsArrived(c) ==
  /\ cpc[c] = "collecting" /\ got[c] < Len(items[c])
  /\ results[c] # <<>>
  /\ out' = [out EXCEPT ![c] = [@ EXCEPT ![got[c] + 1] = Head(results[c]).hash]]
  /\ results' = [results EXCEPT ![c] = Tail(@)]
  /\ got' = [got EXCEPT ![c] = @ + 1]
  /\ UNCHANGED <<encoder, poolVars, cpc, items, sent>>

Collect(c) ==
  /\ cpc[c] = "collecting" /\ got[c] < Len(items[c])
  /\ results[c] # <<>>
  /\ LET r == Head(results[c])
     IN  out' = [out EXCEPT ![c] = [@ EXCEPT ![r.index] = r.hash]]
  /\ results' = [results EXCEPT ![c] = Tail(@)]
  /\ got' = [got EXCEPT ![c] = @ + 1]
  /\ UNCHANGED <<encoder, poolVars, cpc, items, sent>>

\* expect("every job reports a result"): no result waits and none can come.
CollectFails(c) ==
  /\ cpc[c] = "collecting" /\ got[c] < Len(items[c])
  /\ results[c] = <<>>
  /\ ~ CallSenders(c)
  /\ Unwind(c)

Filled(c) == \A i \in DOMAIN out[c] : out[c][i] # None

Return(c) ==
  /\ cpc[c] = "collecting" /\ got[c] = Len(items[c])
  /\ Filled(c)
  /\ cpc' = [cpc EXCEPT ![c] = "returned"]
  /\ results' = [results EXCEPT ![c] = <<>>]
  /\ UNCHANGED <<encoder, poolVars, items, sent, got, out>>

-----------------------------------------------------------------------------
(* The loop of a worker *)

Lock(w) ==
  /\ wpc[w] = "idle"
  /\ lock = None
  /\ lock' = w
  /\ wpc' = [wpc EXCEPT ![w] = "receiving"]
  /\ UNCHANGED <<encoder, jobs, poisoned, wjob, callVars>>

\* recv returns a job; the guard is dropped at the end of the statement.
Recv(w) ==
  /\ wpc[w] = "receiving"
  /\ jobs # <<>>
  /\ wjob' = [wjob EXCEPT ![w] = Head(jobs)]
  /\ jobs' = Tail(jobs)
  /\ wpc' = [wpc EXCEPT ![w] = "encoding"]
  /\ lock' = None
  /\ UNCHANGED <<encoder, poisoned, callVars>>

\* Mutant: the worker tries again instead of leaving its loop.
RecvClosedLoops(w) ==
  /\ wpc[w] = "receiving"
  /\ jobs = <<>> /\ encoder # "alive"
  /\ wpc' = [wpc EXCEPT ![w] = "idle"]
  /\ lock' = None
  /\ UNCHANGED <<encoder, jobs, poisoned, wjob, callVars>>

\* recv returns Err: the channel is empty and job_tx was dropped.
RecvClosed(w) ==
  /\ wpc[w] = "receiving"
  /\ jobs = <<>> /\ encoder # "alive"
  /\ wpc' = [wpc EXCEPT ![w] = "exited"]
  /\ lock' = None
  /\ UNCHANGED <<encoder, jobs, poisoned, wjob, callVars>>

\* The send fails, and that is ignored, when the call has already gone.
Report(w) ==
  /\ wpc[w] = "encoding"
  /\ wjob[w].input \in Valid \ Faulty
  /\ LET j == wjob[w]
         r == [index |-> j.index, hash |-> Encode[j.input]]
     IN  results' = [results EXCEPT ![j.call] =
                       IF Listening(j.call) THEN Append(@, r) ELSE @]
  /\ wpc' = [wpc EXCEPT ![w] = "idle"]
  /\ wjob' = [wjob EXCEPT ![w] = NoJob]
  /\ UNCHANGED <<encoder, jobs, lock, poisoned, cpc, items, sent, got, out>>

\* encode_with_quality asserts what encode_batch validated, and may panic on a
\* faulty image. The thread unwinds: its job, a mutex guard it held and its share of the
\* receiver are dropped. The last share takes the queued jobs with it.
Panic(w) ==
  /\ wpc[w] = "encoding"
  /\ wjob[w].input \notin Valid \ Faulty
  /\ wpc' = [wpc EXCEPT ![w] = "panicked"]
  /\ wjob' = [wjob EXCEPT ![w] = NoJob]
  /\ jobs' = IF \A v \in Workers \ {w} : wpc[v] \in Gone THEN <<>> ELSE jobs
  /\ poisoned' = (poisoned \/ lock = w)
  /\ lock' = IF lock = w THEN None ELSE lock
  /\ UNCHANGED <<encoder, callVars>>

-----------------------------------------------------------------------------
(* Drop for BatchEncoder, run by the owner once no call borrows it *)

CloseJobs ==
  /\ encoder = "alive"
  /\ \A c \in Calls : cpc[c] \in {"new", "returned", "panicked"}
  /\ encoder' = "closing"
  /\ UNCHANGED <<poolVars, callVars>>

Joined ==
  /\ encoder = "closing"
  /\ ~ ReceiverAlive
  /\ encoder' = "dropped"
  /\ UNCHANGED <<poolVars, callVars>>

\* The program may stop here and nowhere else.
Stopped == encoder = "dropped" /\ UNCHANGED vars

-----------------------------------------------------------------------------
Caller(c) ==
  \/ Reject(c) \/ Accept(c) \/ Send(c) \/ SendFails(c) \/ DropResultTx(c)
  \/ Collect(c) \/ CollectFails(c) \/ Return(c)

Worker(w) == Recv(w) \/ RecvClosed(w) \/ Report(w) \/ Panic(w)

Next ==
  \/ \E c \in Calls, b \in Batches : Call(c, b)
  \/ \E c \in Calls : Caller(c)
  \/ \E w \in Workers : Lock(w) \/ Worker(w)
  \/ CloseJobs
  \/ Joined
  \/ Stopped

Spec == Init /\ [][Next]_vars

\* Threads that can run do run; the mutex goes to some waiter, not to each.
\* Nothing obliges anyone to call encode_batch or to drop the encoder.
Fairness ==
  /\ \A c \in Calls : WF_vars(Caller(c))
  /\ \A w \in Workers : WF_vars(Worker(w))
  /\ WF_vars(\E w \in Workers : Lock(w))
  /\ WF_vars(Joined)

LiveSpec == Spec /\ Fairness

-----------------------------------------------------------------------------
(* Properties *)

\* Every variable has its type.
TypeOK ==
  /\ encoder \in {"alive", "closing", "dropped"}
  /\ jobs \in Seq(Job)
  /\ lock \in Workers \cup {None}
  /\ poisoned \in BOOLEAN
  /\ wpc \in [Workers -> {"idle", "receiving", "encoding"} \cup Gone]
  /\ wjob \in [Workers -> Job \cup {NoJob}]
  /\ cpc \in [Calls -> {"new", "validating", "sending", "collecting",
                        "returned", "panicked"}]
  /\ items \in [Calls -> Seq(Images)]
  /\ sent \in [Calls -> Nat]
  /\ results \in [Calls -> Seq(Result)]
  /\ got \in [Calls -> Nat]
  /\ out \in [Calls -> Seq(Hashes \cup {None})]

ItemsOf(c) == {items[c][i] : i \in DOMAIN items[c]}

\* "returning hashes in the same order as `items`", byte-identical to encoding
\* each image on its own: whatever order the workers report in.
InOrder ==
  \A c \in Calls : cpc[c] = "returned" =>
    out[c] = [i \in DOMAIN items[c] |-> Encode[items[c][i]]]

\* A slice with an item that does not validate never reaches the pool, so no
\* worker encodes any part of it.
RejectedUndispatched ==
  \A c \in Calls : ~ (ItemsOf(c) \subseteq Valid) =>
    /\ cpc[c] \in {"validating", "panicked"}
    /\ ~ CallSenders(c)

\* The work on an accepted item carries the item's own index and image.
Dispatched(c) == cpc[c] \notin {"new", "validating"} /\ ItemsOf(c) \subseteq Valid
Genuine(j) == /\ Dispatched(j.call)
              /\ j.index \in DOMAIN items[j.call]
              /\ j.input = items[j.call][j.index]

QueueGenuine == \A k \in DOMAIN jobs : Genuine(jobs[k])
WorkGenuine ==
  \A w \in Workers : wpc[w] = "encoding" => wjob[w] \in Job /\ Genuine(wjob[w])
ResultGenuine(c, r) == /\ Dispatched(c)
                       /\ r.index \in DOMAIN items[c]
                       /\ r.hash = Encode[items[c][r.index]]
ResultsGenuine ==
  \A c \in Calls : \A k \in DOMAIN results[c] : ResultGenuine(c, results[c][k])
SlotsGenuine(c) ==
  /\ Dispatched(c)
  /\ DOMAIN out[c] = DOMAIN items[c]
  /\ \A i \in DOMAIN items[c] : out[c][i] \in {None, Encode[items[c][i]]}

\* Inductive: jobs, results and slots agree with the slice they come from,
\* wherever they are. InOrder and RejectedUndispatched follow from it.
Tracked ==
  /\ QueueGenuine
  /\ WorkGenuine
  /\ ResultsGenuine
  /\ \A c \in Calls : cpc[c] = "new" => items[c] = <<>>
  /\ \A c \in Calls : cpc[c] \in {"new", "validating"} => out[c] = <<>>
  /\ \A c \in Calls : cpc[c] = "sending" => Dispatched(c)
  /\ \A c \in Calls : cpc[c] \in {"collecting", "returned"} => SlotsGenuine(c)
  /\ \A c \in Calls : cpc[c] = "returned" => Filled(c)

\* The mutex is held to dequeue and never while encoding, so a panic in the
\* encoder cannot poison it and the other workers go on.
LockDiscipline ==
  /\ ~ poisoned
  /\ \A w \in Workers : lock = w <=> wpc[w] = "receiving"

\* drop returns: every worker notices the closed channel and can be joined.
DropEnds == encoder = "closing" ~> encoder = "dropped"

-----------------------------------------------------------------------------
(* The pool implements the promise of a batch encoder. *)

Status(c) ==
  CASE cpc[c] \in {"validating", "sending", "collecting"} -> "running"
    [] cpc[c] = "panicked" -> "failed"
    [] OTHER -> cpc[c]

Abstract == INSTANCE BatchSpec WITH
  open <- (encoder = "alive"),
  status <- [c \in Calls |-> Status(c)],
  batch <- items,
  result <- [c \in Calls |-> IF cpc[c] = "returned" THEN out[c] ELSE <<>>]

\* Every behaviour of the pool is one the abstract batch encoder allows: results
\* in order or a failure with a cause, and always an answer, whatever workers
\* die and whatever calls overlap.
Refines == Abstract!LiveSpec
=============================================================================
