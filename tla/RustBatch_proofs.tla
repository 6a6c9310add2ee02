-------------------------- MODULE RustBatch_proofs --------------------------
(***************************************************************************)
(* What holds of the Rust batch pool for every set of calls, of workers    *)
(* and of slices.                                                          *)
(***************************************************************************)
EXTENDS RustBatch, SequenceTheorems, FiniteSetTheorems, TLAPS

\* Replacing an element of a sequence by another of its set.
LEMMA ReplaceInSeq ==
  ASSUME NEW S, NEW s \in Seq(S), NEW k, NEW e \in S
  PROVE  /\ [s EXCEPT ![k] = e] \in Seq(S)
         /\ Len([s EXCEPT ![k] = e]) = Len(s)
<1>1. CASE k \in DOMAIN s
  BY <1>1, ExceptSeq, LenProperties
<1>2. CASE k \notin DOMAIN s
  <2>1. [s EXCEPT ![k] = e] = s
    BY <1>2, LenProperties
  <2> QED
    BY <2>1
<1> QED
  BY <1>1, <1>2

\* The elements of a sequence, and of what a queue operation makes of it.
LEMMA Elements ==
  ASSUME NEW S, NEW s \in Seq(S)
  PROVE  \A k \in DOMAIN s : s[k] \in S
  BY ElementOfSeq, LenProperties

LEMMA AppendElements ==
  ASSUME NEW S, NEW s \in Seq(S), NEW e \in S
  PROVE  /\ Append(s, e) \in Seq(S)
         /\ DOMAIN Append(s, e) = DOMAIN s \cup {Len(s) + 1}
         /\ Append(s, e)[Len(s) + 1] = e
         /\ \A k \in DOMAIN s : Append(s, e)[k] = s[k]
<1>1. Append(s, e) \in Seq(S) /\ Len(Append(s, e)) = Len(s) + 1 /\ Len(s) \in Nat
  BY AppendProperties, LenProperties
<1>2. DOMAIN s = 1 .. Len(s) /\ DOMAIN Append(s, e) = 1 .. Len(s) + 1
  BY <1>1, LenProperties
<1> QED
  BY <1>1, <1>2, AppendProperties

LEMMA TailElements ==
  ASSUME NEW S, NEW s \in Seq(S), s # <<>>
  PROVE  /\ 1 \in DOMAIN s /\ Head(s) = s[1] /\ Head(s) \in S
         /\ Tail(s) \in Seq(S)
         /\ \A k \in DOMAIN Tail(s) : k + 1 \in DOMAIN s /\ Tail(s)[k] = s[k + 1]
<1>1. Len(s) \in Nat \ {0} /\ DOMAIN s = 1 .. Len(s)
  BY EmptySeq, LenProperties
<1>2. Tail(s) \in Seq(S) /\ Len(Tail(s)) = Len(s) - 1
  BY HeadTailProperties
<1>3. DOMAIN Tail(s) = 1 .. Len(s) - 1
  BY <1>2, LenProperties
<1> QED
  BY <1>1, <1>2, <1>3, HeadTailProperties

\* The initial values have their types.
LEMMA InitTypeOK == Init => TypeOK
<1> SUFFICES ASSUME Init PROVE TypeOK
  OBVIOUS
<1> USE DEF Init, Gone
<1>1. jobs \in Seq(Job) /\ <<>> \in Seq(Images)
      /\ <<>> \in Seq(Result) /\ <<>> \in Seq(Hashes \cup {None})
  BY EmptySeq
<1>2. items \in [Calls -> Seq(Images)] /\ results \in [Calls -> Seq(Result)]
      /\ out \in [Calls -> Seq(Hashes \cup {None})]
  BY <1>1
<1>3. wjob \in [Workers -> Job \cup {NoJob}]
  OBVIOUS
<1> QED
  BY <1>1, <1>2, <1>3, WorkersAssumption DEF TypeOK

\* Steps of encode_batch.
LEMMA CallerTypeOK ==
  ASSUME TypeOK, NEW c \in Calls, Caller(c)
  PROVE  TypeOK'
<1> USE DEF TypeOK, poolVars
<1>1. CASE Reject(c)
  BY <1>1 DEF Reject
<1>2. CASE Accept(c)
  BY <1>2 DEF Accept
<1>3. CASE Send(c)
  <2> DEFINE n == sent[c] + 1
             j == [call |-> c, index |-> n, input |-> items[c][n]]
  <2>1. n \in 1 .. Len(items[c])
    BY <1>3, LenProperties DEF Send
  <2>2. j \in Job
    BY <2>1, ElementOfSeq DEF Job
  <2>3. jobs' \in Seq(Job)
    BY <1>3, <2>2, AppendProperties DEF Send
  <2>4. sent' \in [Calls -> Nat]
    BY <1>3 DEF Send
  <2> HIDE DEF n, j
  <2> QED
    BY <1>3, <2>3, <2>4 DEF Send
<1>4. CASE SendFails(c) \/ CollectFails(c)
  <2>1. <<>> \in Seq(Result)
    BY EmptySeq
  <2>2. results' \in [Calls -> Seq(Result)]
    BY <1>4, <2>1 DEF SendFails, CollectFails, Unwind
  <2> QED
    BY <1>4, <2>2 DEF SendFails, CollectFails, Unwind
<1>5. CASE DropResultTx(c)
  <2>1. DOMAIN items[c] = 1 .. Len(items[c]) /\ Len(items[c]) \in Nat
    BY LenProperties
  <2>2. [i \in DOMAIN items[c] |-> None] \in Seq(Hashes \cup {None})
    BY <2>1, IsASeq
  <2>3. out' \in [Calls -> Seq(Hashes \cup {None})]
    BY <1>5, <2>2 DEF DropResultTx
  <2> QED
    BY <1>5, <2>3 DEF DropResultTx
<1>6. CASE Collect(c)
  <2>1. Head(results[c]) \in Result /\ Tail(results[c]) \in Seq(Result)
    BY <1>6, HeadTailProperties DEF Collect
  <2>2. [out[c] EXCEPT ![Head(results[c]).index] = Head(results[c]).hash]
          \in Seq(Hashes \cup {None})
    BY <2>1, ReplaceInSeq DEF Result
  <2>3. out' \in [Calls -> Seq(Hashes \cup {None})]
    BY <1>6, <2>2 DEF Collect
  <2>4. results' \in [Calls -> Seq(Result)]
    BY <1>6, <2>1 DEF Collect
  <2>5. got' \in [Calls -> Nat]
    BY <1>6 DEF Collect
  <2> QED
    BY <1>6, <2>3, <2>4, <2>5 DEF Collect
<1>7. CASE Return(c)
  <2>1. results' \in [Calls -> Seq(Result)]
    BY <1>7, EmptySeq DEF Return
  <2> QED
    BY <1>7, <2>1 DEF Return
<1> QED
  BY <1>1, <1>2, <1>3, <1>4, <1>5, <1>6, <1>7 DEF Caller

\* Steps of a worker.
LEMMA WorkerTypeOK ==
  ASSUME TypeOK, NEW w \in Workers, Lock(w) \/ Worker(w)
  PROVE  TypeOK'
<1> USE DEF TypeOK, callVars, Gone
<1>1. CASE Lock(w)
  BY <1>1 DEF Lock
<1>2. CASE Recv(w)
  <2>1. jobs' \in Seq(Job) /\ Head(jobs) \in Job
    BY <1>2, HeadTailProperties DEF Recv
  <2> QED
    BY <1>2, <2>1 DEF Recv
<1>3. CASE RecvClosed(w)
  BY <1>3 DEF RecvClosed
<1>4. CASE Report(w)
  <2> DEFINE j == wjob[w]
             r == [index |-> j.index, hash |-> Encode[j.input]]
  <2>1. CASE j.call \in Calls
    <3>1. j \in Job
      BY <2>1, CallsAssumption DEF NoJob, Job
    <3>2. r \in Result
      BY <3>1, ImagesAssumption DEF Result, Job, Hashes
    <3>3. Append(results[j.call], r) \in Seq(Result)
      BY <2>1, <3>2, AppendProperties
    <3>4. results' \in [Calls -> Seq(Result)]
      BY <1>4, <2>1, <3>3 DEF Report
    <3> HIDE DEF j, r
    <3> QED
      BY <1>4, <3>4 DEF Report
  <2>2. CASE j.call \notin Calls
    <3>1. results' = results
      BY <1>4, <2>2 DEF Report
    <3> QED
      BY <1>4, <3>1 DEF Report
  <2> QED
    BY <2>1, <2>2
<1>5. CASE Panic(w)
  <2>1. jobs' \in Seq(Job)
    BY <1>5, EmptySeq DEF Panic
  <2>2. poisoned' \in BOOLEAN
    BY <1>5 DEF Panic
  <2> QED
    BY <1>5, <2>1, <2>2 DEF Panic
<1> QED
  BY <1>1, <1>2, <1>3, <1>4, <1>5 DEF Worker

\* Every variable keeps its type, whatever the interleaving.
THEOREM TypeCorrect == Spec => []TypeOK
<1>1. Init => TypeOK
  BY InitTypeOK
<1>2. ASSUME TypeOK, [Next]_vars PROVE TypeOK'
  <2>1. ASSUME NEW c \in Calls, NEW b \in Batches, Call(c, b) PROVE TypeOK'
    BY <1>2, <2>1, BatchesAssumption DEF Call, TypeOK, poolVars
  <2>2. ASSUME NEW c \in Calls, Caller(c) PROVE TypeOK'
    BY <1>2, <2>2, CallerTypeOK
  <2>3. ASSUME NEW w \in Workers, Lock(w) \/ Worker(w) PROVE TypeOK'
    BY <1>2, <2>3, WorkerTypeOK
  <2>4. CASE CloseJobs \/ Joined
    BY <1>2, <2>4 DEF CloseJobs, Joined, TypeOK, poolVars, callVars
  <2>5. CASE UNCHANGED vars
    BY <1>2, <2>5 DEF TypeOK, vars, poolVars, callVars
  <2> QED
    BY <1>2, <2>1, <2>2, <2>3, <2>4, <2>5 DEF Next, Stopped
<1> QED
  BY <1>1, <1>2, PTL DEF Spec

-----------------------------------------------------------------------------
(* The lock *)

\* The mutex is never held while encoding and never poisoned.
THEOREM LockIsShort == Spec => []LockDiscipline
<1>1. Init => LockDiscipline
  BY WorkersAssumption DEF Init, LockDiscipline
<1>2. ASSUME TypeOK, LockDiscipline, [Next]_vars PROVE LockDiscipline'
  <2> USE <1>2, WorkersAssumption
      DEF LockDiscipline, TypeOK, poolVars, callVars, Gone
  <2>1. ASSUME NEW c \in Calls, NEW b \in Batches, Call(c, b) PROVE LockDiscipline'
    BY <2>1 DEF Call
  <2>2. ASSUME NEW c \in Calls, Caller(c) PROVE LockDiscipline'
    BY <2>2 DEF Caller, Reject, Accept, Send, SendFails, DropResultTx, Collect,
                CollectFails, Return, Unwind
  <2>3. ASSUME NEW w \in Workers, Lock(w) PROVE LockDiscipline'
    BY <2>3 DEF Lock
  <2>4. ASSUME NEW w \in Workers, Recv(w) \/ RecvClosed(w) PROVE LockDiscipline'
    BY <2>4 DEF Recv, RecvClosed
  <2>5. ASSUME NEW w \in Workers, Report(w) \/ Panic(w) PROVE LockDiscipline'
    BY <2>5 DEF Report, Panic
  <2>6. CASE CloseJobs \/ Joined \/ UNCHANGED vars
    BY <2>6 DEF CloseJobs, Joined, vars
  <2> QED
    BY <2>1, <2>2, <2>3, <2>4, <2>5, <2>6 DEF Next, Worker, Stopped
<1> QED
  BY <1>1, <1>2, TypeCorrect, PTL DEF Spec

-----------------------------------------------------------------------------
(* Order *)

\* Once a slice is dispatched it stays so, and the slice stays what it is.
LEMMA DispatchedKept ==
  ASSUME TypeOK, [Next]_vars, NEW c \in Calls, Dispatched(c)
  PROVE  Dispatched(c)' /\ items'[c] = items[c]
<1> USE DEF TypeOK, Dispatched, ItemsOf, poolVars, callVars
<1>1. ASSUME NEW d \in Calls, NEW b \in Batches, Call(d, b)
      PROVE  Dispatched(c)' /\ items'[c] = items[c]
  BY <1>1 DEF Call
<1>2. ASSUME NEW d \in Calls, Caller(d)
      PROVE  Dispatched(c)' /\ items'[c] = items[c]
  BY <1>2 DEF Caller, Reject, Accept, Send, SendFails, DropResultTx, Collect,
              CollectFails, Return, Unwind
<1>3. CASE UNCHANGED <<cpc, items>>
  BY <1>3
<1> QED
  BY <1>1, <1>2, <1>3
  DEF Next, Stopped, CloseJobs, Joined, Lock, Worker, Recv, RecvClosed, Report,
      Panic, vars

\* So does the link of a job to its item.
LEMMA GenuineKept ==
  ASSUME TypeOK, [Next]_vars
  PROVE  \A j \in Job : Genuine(j) => Genuine(j)'
  BY DispatchedKept DEF Genuine, Job

LEMMA QueueKept ==
  ASSUME TypeOK, Tracked, [Next]_vars
  PROVE  QueueGenuine'
<1> USE DEF TypeOK, Tracked, QueueGenuine, poolVars, callVars
<1>1. \A j \in Job : Genuine(j) => Genuine(j)'
  BY GenuineKept
<1>2. CASE jobs' = jobs \/ jobs' = <<>>
  BY <1>1, <1>2
<1>3. ASSUME NEW c \in Calls, Send(c) PROVE QueueGenuine'
  <2> DEFINE n == sent[c] + 1
             j == [call |-> c, index |-> n, input |-> items[c][n]]
  <2>1. n \in DOMAIN items[c] /\ items[c][n] \in Images
    BY <1>3, LenProperties, ElementOfSeq DEF Send
  <2>2. j \in Job /\ Genuine(j)
    BY <1>3, <2>1 DEF Send, Job, Genuine
  <2>3. jobs' = Append(jobs, j)
    BY <1>3 DEF Send
  <2> HIDE DEF j
  <2>4. \A k \in DOMAIN jobs' : jobs'[k] = j \/ (k \in DOMAIN jobs /\ jobs'[k] = jobs[k])
    BY <2>2, <2>3, AppendElements
  <2> QED
    BY <1>1, <2>2, <2>4, Elements
<1>4. ASSUME NEW w \in Workers, Recv(w) PROVE QueueGenuine'
  <2>1. jobs' = Tail(jobs) /\ jobs # <<>>
    BY <1>4 DEF Recv
  <2>2. \A k \in DOMAIN jobs' : k + 1 \in DOMAIN jobs /\ jobs'[k] = jobs[k + 1]
    BY <2>1, TailElements
  <2> QED
    BY <1>1, <2>2, Elements
<1> QED
  BY <1>2, <1>3, <1>4
  DEF Next, Call, Caller, Reject, Accept, SendFails, DropResultTx, Collect,
      CollectFails, Return, Unwind, Lock, Worker, RecvClosed, Report, Panic,
      CloseJobs, Joined, Stopped, vars

LEMMA WorkKept ==
  ASSUME TypeOK, Tracked, [Next]_vars
  PROVE  WorkGenuine'
<1> USE DEF TypeOK, Tracked, WorkGenuine, poolVars, callVars
<1>1. \A j \in Job : Genuine(j) => Genuine(j)'
  BY GenuineKept
<1>2. CASE UNCHANGED <<wpc, wjob>>
  BY <1>1, <1>2
<1>3. ASSUME NEW w \in Workers, Lock(w) \/ RecvClosed(w) \/ Report(w) \/ Panic(w)
      PROVE  WorkGenuine'
  BY <1>1, <1>3 DEF Lock, RecvClosed, Report, Panic
<1>4. ASSUME NEW w \in Workers, Recv(w) PROVE WorkGenuine'
  <2>1. Head(jobs) \in Job /\ Head(jobs) = jobs[1] /\ 1 \in DOMAIN jobs
    BY <1>4, TailElements DEF Recv
  <2>2. Genuine(Head(jobs))
    BY <2>1 DEF QueueGenuine
  <2> QED
    BY <1>1, <1>4, <2>1, <2>2 DEF Recv
<1> QED
  BY <1>2, <1>3, <1>4
  DEF Next, Call, Caller, Reject, Accept, Send, SendFails, DropResultTx, Collect,
      CollectFails, Return, Unwind, Worker, CloseJobs, Joined, Stopped, vars

LEMMA ResultsKept ==
  ASSUME TypeOK, Tracked, [Next]_vars
  PROVE  ResultsGenuine'
<1> USE DEF TypeOK, Tracked, ResultsGenuine, poolVars, callVars
<1>1. \A c \in Calls, r \in Result : ResultGenuine(c, r) => ResultGenuine(c, r)'
  BY DispatchedKept DEF ResultGenuine
<1>2. ASSUME NEW c \in Calls, results'[c] = results[c] \/ results'[c] = <<>>
      PROVE  \A k \in DOMAIN results'[c] : ResultGenuine(c, results[c][k])'
  BY <1>1, <1>2, Elements
<1>3. ASSUME NEW c \in Calls, Collect(c) PROVE ResultsGenuine'
  <2>1. results'[c] = Tail(results[c]) /\ results[c] # <<>>
        /\ \A d \in Calls \ {c} : results'[d] = results[d]
    BY <1>3 DEF Collect
  <2>2. \A k \in DOMAIN results'[c] :
          /\ k + 1 \in DOMAIN results[c]
          /\ results'[c][k] = results[c][k + 1]
          /\ results[c][k + 1] \in Result
    BY <2>1, TailElements, Elements
  <2> QED
    BY <1>1, <1>2, <2>1, <2>2
<1>4. ASSUME NEW w \in Workers, Report(w) PROVE ResultsGenuine'
  <2> DEFINE j == wjob[w]
             r == [index |-> j.index, hash |-> Encode[j.input]]
             c == j.call
  <2>1. j \in Job /\ Genuine(j)
    BY <1>4 DEF Report, WorkGenuine
  <2>2. c \in Calls /\ r \in Result /\ ResultGenuine(c, r)
    BY <2>1, ImagesAssumption DEF Job, Genuine, ResultGenuine, Result, Hashes
  <2>3. \A d \in Calls \ {c} : results'[d] = results[d]
    BY <1>4 DEF Report
  <2>4. results'[c] = results[c] \/ results'[c] = Append(results[c], r)
    BY <1>4, <2>2 DEF Report
  <2> HIDE DEF j, r, c
  <2>5. CASE results'[c] = Append(results[c], r)
    <3>1. \A k \in DOMAIN results'[c] :
            \/ results'[c][k] = r
            \/ k \in DOMAIN results[c] /\ results'[c][k] = results[c][k]
      BY <2>2, <2>5, AppendElements
    <3>2. \A k \in DOMAIN results[c] : results[c][k] \in Result
      BY <2>2, Elements
    <3> QED
      BY <1>1, <1>2, <2>2, <2>3, <3>1, <3>2
  <2> QED
    BY <1>2, <2>2, <2>3, <2>4, <2>5
<1>5. ASSUME \A c \in Calls : results'[c] = results[c] \/ results'[c] = <<>>
      PROVE  ResultsGenuine'
  BY <1>2, <1>5
<1> QED
  BY <1>3, <1>4, <1>5
  DEF Next, Call, Caller, Reject, Accept, Send, SendFails, DropResultTx,
      CollectFails, Return, Unwind, Lock, Worker, Recv, RecvClosed, Panic,
      CloseJobs, Joined, Stopped, vars

LEMMA SlotsKept ==
  ASSUME TypeOK, Tracked, [Next]_vars, NEW c \in Calls
  PROVE  /\ cpc'[c] = "new" => items'[c] = <<>>
         /\ cpc'[c] \in {"new", "validating"} => out'[c] = <<>>
         /\ cpc'[c] = "sending" => Dispatched(c)'
         /\ cpc'[c] \in {"collecting", "returned"} => SlotsGenuine(c)'
         /\ cpc'[c] = "returned" => Filled(c)'
<1> DEFINE Goal == /\ cpc'[c] = "new" => items'[c] = <<>>
                   /\ cpc'[c] \in {"new", "validating"} => out'[c] = <<>>
                   /\ cpc'[c] = "sending" => Dispatched(c)'
                   /\ cpc'[c] \in {"collecting", "returned"} => SlotsGenuine(c)'
                   /\ cpc'[c] = "returned" => Filled(c)'
<1> USE DEF TypeOK, Tracked, poolVars, callVars
<1>1. Dispatched(c) => Dispatched(c)' /\ items'[c] = items[c]
  BY DispatchedKept
<1>2. CASE cpc'[c] = cpc[c] /\ out'[c] = out[c] /\ items'[c] = items[c]
  BY <1>1, <1>2 DEF SlotsGenuine, Filled
<1>3. CASE cpc'[c] = "panicked" \/ (cpc'[c] = "validating" /\ out'[c] = <<>>)
  BY <1>3
<1>4. CASE Accept(c)
  <2>1. Dispatched(c)' /\ items'[c] = items[c]
    BY <1>4 DEF Accept, Dispatched, ItemsOf
  <2>2. CASE items[c] = <<>>
    <3>1. out'[c] = <<>>
      BY <1>4, <2>2 DEF Accept
    <3>2. DOMAIN <<>> = {}
      OBVIOUS
    <3> QED
      BY <1>4, <2>1, <2>2, <3>1, <3>2 DEF Accept, SlotsGenuine, Filled
  <2>3. CASE items[c] # <<>>
    BY <1>4, <2>1, <2>3 DEF Accept
  <2> QED
    BY <2>2, <2>3
<1>5. CASE DropResultTx(c)
  BY <1>1, <1>5 DEF DropResultTx, SlotsGenuine
<1>6. CASE Collect(c)
  <2> DEFINE r == Head(results[c])
  <2>1. r = results[c][1] /\ 1 \in DOMAIN results[c]
    BY <1>6, TailElements DEF Collect
  <2>2. r.index \in DOMAIN items[c] /\ r.hash = Encode[items[c][r.index]]
    BY <2>1 DEF ResultsGenuine, ResultGenuine
  <2>3. SlotsGenuine(c) /\ out'[c] = [out[c] EXCEPT ![r.index] = r.hash]
    BY <1>6 DEF Collect
  <2>4. cpc'[c] = "collecting"
    BY <1>6 DEF Collect
  <2> HIDE DEF r
  <2> QED
    BY <1>1, <2>2, <2>3, <2>4 DEF SlotsGenuine
<1>7. CASE Return(c)
  BY <1>1, <1>7 DEF Return, SlotsGenuine, Filled
<1>8. ASSUME NEW d \in Calls, NEW b \in Batches, Call(d, b) PROVE Goal
  BY <1>2, <1>3, <1>8 DEF Call
<1>9. ASSUME NEW d \in Calls, Caller(d) PROVE Goal
  BY <1>2, <1>3, <1>4, <1>5, <1>6, <1>7, <1>1, <1>9
  DEF Caller, Reject, Accept, Send, SendFails, DropResultTx, Collect,
      CollectFails, Return, Unwind, SlotsGenuine
<1> QED
  BY <1>2, <1>8, <1>9
  DEF Next, Stopped, CloseJobs, Joined, Lock, Worker, Recv, RecvClosed, Report,
      Panic, vars

\* Jobs, results and slots agree with the slice they come from.
THEOREM EverythingTracked == Spec => []Tracked
<1>1. Init => Tracked
  <2> SUFFICES ASSUME Init PROVE Tracked
    OBVIOUS
  <2>1. DOMAIN <<>> = {}
    OBVIOUS
  <2> QED
    BY <2>1 DEF Init, Tracked, QueueGenuine, WorkGenuine, ResultsGenuine
<1>2. ASSUME TypeOK, Tracked, [Next]_vars PROVE Tracked'
  <2>1. QueueGenuine' /\ WorkGenuine' /\ ResultsGenuine'
    BY <1>2, QueueKept, WorkKept, ResultsKept
  <2> QED
    BY <1>2, <2>1, SlotsKept DEF Tracked
<1> QED
  BY <1>1, <1>2, TypeCorrect, PTL DEF Spec

\* A call returns the hashes of its images in the order of its slice, however
\* the workers and the other calls interleave.
THEOREM ReturnsInOrder == Spec => []InOrder
<1>1. TypeOK /\ Tracked => InOrder
  <2> SUFFICES ASSUME TypeOK, Tracked, NEW c \in Calls, cpc[c] = "returned"
               PROVE  out[c] = [i \in DOMAIN items[c] |-> Encode[items[c][i]]]
    BY DEF InOrder
  <2>1. SlotsGenuine(c) /\ Filled(c)
    BY DEF Tracked
  <2>2. \A i \in DOMAIN items[c] : out[c][i] = Encode[items[c][i]]
    BY <2>1 DEF SlotsGenuine, Filled
  <2>3. out[c] = [i \in DOMAIN out[c] |-> out[c][i]]
    BY LenProperties DEF TypeOK
  <2> QED
    BY <2>1, <2>2, <2>3 DEF SlotsGenuine
<1> QED
  BY <1>1, TypeCorrect, EverythingTracked, PTL

\* A slice with an invalid item never reaches the pool.
THEOREM RejectsBeforeDispatch == Spec => []RejectedUndispatched
<1>1. TypeOK /\ Tracked => RejectedUndispatched
  <2> SUFFICES ASSUME TypeOK, Tracked, NEW c \in Calls, ~ (ItemsOf(c) \subseteq Valid)
               PROVE  cpc[c] \in {"validating", "panicked"} /\ ~ CallSenders(c)
    BY DEF RejectedUndispatched
  <2>1. ~ Dispatched(c)
    BY DEF Dispatched
  <2>2. ~ CallSenders(c)
    BY <2>1 DEF CallSenders, Tracked, QueueGenuine, WorkGenuine, Genuine
  <2>3. cpc[c] # "new"
    <3>1. DOMAIN <<>> = {}
      OBVIOUS
    <3> QED
      BY <3>1 DEF Tracked, ItemsOf
  <2> QED
    BY <2>1, <2>2, <2>3 DEF TypeOK, Tracked, SlotsGenuine
<1> QED
  BY <1>1, TypeCorrect, EverythingTracked, PTL

-----------------------------------------------------------------------------
(* The pool as a batch encoder. A call fails because its slice is refused, or  *)
(* because some image crashed a worker: as long as none does, every item is    *)
(* still to be sent, queued, in a worker, or a result, and the call counts the *)
(* results.                                                                    *)

Queued(c, i) == \E k \in DOMAIN jobs : jobs[k].call = c /\ jobs[k].index = i
Encoding(c, i) == \E w \in Workers : wpc[w] = "encoding" /\ wjob[w].call = c /\ wjob[w].index = i

Pending(c) == {i \in 1 .. Len(items[c]) : i > sent[c] \/ Queued(c, i) \/ Encoding(c, i)}

\* No job is in two places.
Same(j, k) == j.call = k.call /\ j.index = k.index

OnceInv ==
  /\ \A k, l \in DOMAIN jobs : Same(jobs[k], jobs[l]) => k = l
  /\ \A v, w \in Workers :
       wpc[v] = "encoding" /\ wpc[w] = "encoding" /\ Same(wjob[v], wjob[w]) => v = w
  /\ \A k \in DOMAIN jobs, w \in Workers : wpc[w] = "encoding" => ~ Same(jobs[k], wjob[w])

SentInv ==
  /\ \A k \in DOMAIN jobs : jobs[k].index <= sent[jobs[k].call]
  /\ \A w \in Workers : wpc[w] = "encoding" => wjob[w].index <= sent[wjob[w].call]
  /\ \A c \in Calls : cpc[c] \in {"new", "validating"} =>
       sent[c] = 0 /\ got[c] = 0 /\ results[c] = <<>>
  /\ \A c \in Calls : cpc[c] = "collecting" => sent[c] = Len(items[c])

LossInv ==
  ~ Abstract!SomeFault => \A c \in Calls : Listening(c) =>
    got[c] + Len(results[c]) + Cardinality(Pending(c)) = Len(items[c])

\* Workers end for a reason, and calls run on an encoder that is alive.
EndInv ==
  /\ \A w \in Workers : wpc[w] = "panicked" => Abstract!SomeFault
  /\ \A w \in Workers : wpc[w] = "exited" => encoder # "alive"
  /\ \A c \in Calls : cpc[c] \in {"validating", "sending", "collecting"} => encoder = "alive"

PoolInv == TypeOK /\ Tracked /\ OnceInv /\ SentInv /\ LossInv /\ EndInv

\* What is pending is a finite set, of items the call has.
LEMMA PendingFinite ==
  ASSUME TypeOK, NEW c \in Calls
  PROVE  /\ IsFiniteSet(Pending(c)) /\ Cardinality(Pending(c)) \in Nat
         /\ DOMAIN items[c] = 1 .. Len(items[c]) /\ Len(items[c]) \in Nat
         /\ Len(results[c]) \in Nat
<1>1. DOMAIN items[c] = 1 .. Len(items[c]) /\ Len(items[c]) \in Nat /\ Len(results[c]) \in Nat
  BY LenProperties DEF TypeOK
<1>2. IsFiniteSet(1 .. Len(items[c])) /\ Pending(c) \subseteq 1 .. Len(items[c])
  BY <1>1, FS_Interval DEF Pending
<1> QED
  BY <1>1, <1>2, FS_Subset, FS_CardinalityType

LEMMA IntervalSize ==
  ASSUME NEW n \in Nat
  PROVE  Cardinality(1 .. n) = n
BY FS_Interval

\* A crash of the encoder stays a reason: a slice is set before its call begins.
LEMMA FaultKept ==
  ASSUME TypeOK, Tracked, [Next]_vars, Abstract!SomeFault
  PROVE  Abstract!SomeFault'
<1>1. PICK c \in Calls : ~ Abstract!HasInvalid(items[c]) /\ Abstract!ItemsOf(items[c]) \cap Faulty # {}
  BY DEF Abstract!SomeFault
<1>2. items[c] # <<>>
  <2>1. DOMAIN <<>> = {}
    OBVIOUS
  <2> QED
    BY <1>1, <2>1 DEF Abstract!ItemsOf
<1>3. cpc[c] # "new"
  BY <1>2 DEF Tracked
<1>4. items'[c] = items[c]
  BY <1>3 DEF Next, Call, Caller, Reject, Accept, Send, SendFails, DropResultTx, Collect,
      CollectFails, Return, Unwind, Lock, Worker, Recv, RecvClosed, Report, Panic,
      CloseJobs, Joined, Stopped, vars, callVars, TypeOK
<1>5. Abstract!HasInvalid(items[c])' <=> Abstract!HasInvalid(items[c])
  BY <1>4 DEF Abstract!HasInvalid, Abstract!ItemsOf
<1>6. Abstract!ItemsOf(items[c])' = Abstract!ItemsOf(items[c])
  BY <1>4 DEF Abstract!ItemsOf
<1> QED
  BY <1>1, <1>5, <1>6 DEF Abstract!SomeFault

\* An image that crashed a worker, of a slice that was dispatched, is a reason.
LEMMA FaultOfAJob ==
  ASSUME Tracked, NEW w \in Workers, wpc[w] = "encoding", wjob[w].input \notin Valid \ Faulty
  PROVE  Abstract!SomeFault
<1>1. wjob[w] \in Job /\ Genuine(wjob[w])
  BY DEF Tracked, WorkGenuine
<1>2. PICK c \in Calls : c = wjob[w].call
  BY <1>1 DEF Job
<1>3. ItemsOf(c) \subseteq Valid /\ wjob[w].input \in ItemsOf(c)
  BY <1>1, <1>2 DEF Genuine, Dispatched, ItemsOf
<1>4. wjob[w].input \in Faulty
  BY <1>3
<1>5. Abstract!ItemsOf(items[c]) = ItemsOf(c)
  BY DEF ItemsOf, Abstract!ItemsOf
<1> QED
  BY <1>2, <1>3, <1>4, <1>5 DEF Abstract!SomeFault, Abstract!HasInvalid

\* Jobs that only leave the queue and the workers stay in one place each.
LEMMA PlacesKept ==
  ASSUME OnceInv, SentInv, jobs' = jobs \/ jobs' = <<>>, UNCHANGED sent,
         \A w \in Workers : wpc'[w] = "encoding" => wpc[w] = "encoding" /\ wjob'[w] = wjob[w]
  PROVE  /\ OnceInv'
         /\ \A k \in DOMAIN jobs' : jobs'[k].index <= sent'[jobs'[k].call]
         /\ \A w \in Workers : wpc'[w] = "encoding" => wjob'[w].index <= sent'[wjob'[w].call]
<1>1. ASSUME NEW k \in DOMAIN jobs' PROVE k \in DOMAIN jobs /\ jobs' = jobs
  <2>1. DOMAIN <<>> = {}
    OBVIOUS
  <2> QED
    BY <1>1, <2>1
<1> QED
  BY <1>1 DEF OnceInv, SentInv

LEMMA SendOnce ==
  ASSUME TypeOK, Tracked, OnceInv, SentInv, NEW c \in Calls, Send(c)
  PROVE  OnceInv' /\ SentInv' /\ \A d \in Calls : Pending(d)' = Pending(d)
<1> USE DEF TypeOK
<1>1. sent[c] \in Nat /\ sent[c] < Len(items[c]) /\ Len(items[c]) \in Nat
  BY PendingFinite DEF Send
<1>2. PICK n \in Nat \ {0} : n = sent[c] + 1
  BY <1>1
<1>3. /\ n \in 1 .. Len(items[c]) /\ n > sent[c]
      /\ \A i \in Nat : i > sent[c] <=> i > n \/ i = n
  BY <1>1, <1>2
<1>4. PICK j \in Job : j = [call |-> c, index |-> n, input |-> items[c][n]]
  BY <1>3, ElementOfSeq DEF Job
<1>5. /\ cpc[c] = "sending" /\ jobs' = Append(jobs, j) /\ sent' = [sent EXCEPT ![c] = n]
      /\ UNCHANGED <<wpc, wjob, cpc, items, results, got>>
  BY <1>2, <1>4 DEF Send
<1> DEFINE last == Len(jobs) + 1
<1>6. /\ DOMAIN jobs' = DOMAIN jobs \cup {last} /\ last \notin DOMAIN jobs /\ jobs'[last] = j
      /\ \A k \in DOMAIN jobs : jobs'[k] = jobs[k]
  <2>1. last \notin DOMAIN jobs
    BY LenProperties
  <2> QED
    BY <1>5, <2>1, AppendElements
<1>7. /\ j.call = c /\ j.index = n /\ sent'[c] = n
      /\ \A d \in Calls : d # c => sent'[d] = sent[d]
  BY <1>4, <1>5
<1> HIDE DEF last
<1>8. \A k \in DOMAIN jobs : jobs[k] \in Job /\ jobs[k].index \in Nat /\ jobs[k].call \in Calls
  <2>1. \A k \in DOMAIN jobs : jobs[k] \in Job
    BY Elements
  <2> QED
    BY <2>1 DEF Job
<1>9. \A w \in Workers : wpc[w] = "encoding" =>
        wjob[w] \in Job /\ wjob[w].index \in Nat /\ wjob[w].call \in Calls
  BY DEF Tracked, WorkGenuine, Job
<1>10. OnceInv'
  <2>1. /\ \A k \in DOMAIN jobs : ~ Same(jobs[k], j) /\ ~ Same(j, jobs[k])
        /\ \A w \in Workers : wpc[w] = "encoding" => ~ Same(j, wjob[w])
    BY <1>3, <1>7, <1>8, <1>9 DEF SentInv, Same
  <2> QED
    BY <1>5, <1>6, <2>1 DEF OnceInv
<1>11. SentInv'
  <2>1. ASSUME NEW i \in Nat, NEW d \in Calls, i <= sent[d] PROVE i <= sent'[d]
    <3>1. CASE d = c
      <4>1. i <= n
        BY <1>1, <1>2, <2>1, <3>1
      <4> QED
        BY <1>7, <3>1, <4>1
    <3>2. CASE d # c
      BY <1>7, <2>1, <3>2
    <3> QED
      BY <3>1, <3>2
  <2>2. \A k \in DOMAIN jobs' : jobs'[k].index <= sent'[jobs'[k].call]
    BY <1>6, <1>7, <1>8, <2>1 DEF SentInv
  <2>3. \A w \in Workers : wpc'[w] = "encoding" => wjob'[w].index <= sent'[wjob'[w].call]
    BY <1>5, <1>9, <2>1 DEF SentInv
  <2>4. \A d \in Calls : cpc'[d] \in {"new", "validating", "collecting"} => sent'[d] = sent[d]
    BY <1>5, <1>7
  <2> QED
    BY <1>5, <2>2, <2>3, <2>4 DEF SentInv
<1>12. ASSUME NEW d \in Calls PROVE Pending(d)' = Pending(d)
  <2>1. ASSUME NEW i PROVE Queued(d, i)' <=> Queued(d, i) \/ (d = c /\ i = n)
    <3>1. \A k \in DOMAIN jobs : jobs'[k] = jobs[k] /\ k \in DOMAIN jobs'
      BY <1>6
    <3> QED
      BY <1>6, <1>7, <3>1 DEF Queued
  <2>2. \A i : Encoding(d, i)' <=> Encoding(d, i)
    BY <1>5 DEF Encoding
  <2> SUFFICES ASSUME NEW i \in 1 .. Len(items[d])
               PROVE  i > sent'[d] \/ Queued(d, i)' \/ Encoding(d, i)' <=> i > sent[d] \/ Queued(d, i) \/ Encoding(d, i)
    BY <1>5 DEF Pending
  <2>3. CASE d # c
    BY <1>7, <2>1, <2>2, <2>3
  <2>4. CASE d = c
    <3>1. i > sent[c] <=> i > sent'[c] \/ i = n
      BY <1>3, <1>7, <2>4, PendingFinite
    <3> QED
      BY <2>1, <2>2, <2>4, <3>1
  <2> QED
    BY <2>3, <2>4
<1> QED
  BY <1>10, <1>11, <1>12

LEMMA RecvOnce ==
  ASSUME TypeOK, Tracked, OnceInv, SentInv, NEW w \in Workers, Recv(w)
  PROVE  OnceInv' /\ SentInv' /\ \A d \in Calls : Pending(d)' = Pending(d)
<1> USE DEF TypeOK
<1>1. /\ wpc[w] = "receiving" /\ jobs # <<>>
      /\ wjob' = [wjob EXCEPT ![w] = Head(jobs)] /\ jobs' = Tail(jobs)
      /\ wpc' = [wpc EXCEPT ![w] = "encoding"]
      /\ UNCHANGED <<cpc, items, sent, results, got>>
  BY DEF Recv, callVars
<1>2. /\ 1 \in DOMAIN jobs /\ Head(jobs) = jobs[1]
      /\ \A k \in DOMAIN jobs' : k \in Nat \ {0} /\ k + 1 \in DOMAIN jobs /\ jobs'[k] = jobs[k + 1]
      /\ \A k \in DOMAIN jobs : k # 1 => k - 1 \in DOMAIN jobs' /\ jobs'[k - 1] = jobs[k]
  <2>1. 1 \in DOMAIN jobs /\ Head(jobs) = jobs[1] /\ jobs' \in Seq(Job)
    BY <1>1, TailElements
  <2>2. \A k \in DOMAIN jobs' : k + 1 \in DOMAIN jobs /\ jobs'[k] = jobs[k + 1]
    BY <1>1, TailElements
  <2>3. DOMAIN jobs = 1 .. Len(jobs) /\ Len(jobs) \in Nat /\ DOMAIN jobs' = 1 .. Len(jobs')
    BY <2>1, LenProperties
  <2>4. Len(jobs') = Len(jobs) - 1
    BY <1>1, HeadTailProperties
  <2>5. \A k \in DOMAIN jobs : k # 1 => k - 1 \in DOMAIN jobs' /\ (k - 1) + 1 = k
    BY <2>3, <2>4
  <2> QED
    BY <2>1, <2>2, <2>3, <2>5
<1>3. /\ wpc'[w] = "encoding" /\ wjob'[w] = jobs[1] /\ wpc[w] # "encoding"
      /\ \A v \in Workers : v # w => wpc'[v] = wpc[v] /\ wjob'[v] = wjob[v]
  BY <1>1, <1>2
<1>4. OnceInv'
  <2>1. ASSUME NEW k \in DOMAIN jobs', NEW l \in DOMAIN jobs', Same(jobs'[k], jobs'[l]) PROVE k = l
    <3>1. k + 1 = l + 1
      BY <1>2, <2>1 DEF OnceInv
    <3> QED
      BY <1>2, <3>1
  <2>2. ASSUME NEW k \in DOMAIN jobs', NEW v \in Workers, wpc'[v] = "encoding"
        PROVE  ~ Same(jobs'[k], wjob'[v])
    <3>1. k + 1 # 1 /\ k + 1 \in DOMAIN jobs /\ jobs'[k] = jobs[k + 1]
      BY <1>2
    <3>2. CASE v = w
      <4>1. ~ Same(jobs[k + 1], jobs[1])
        BY <1>2, <3>1 DEF OnceInv
      <4> QED
        BY <1>3, <3>1, <3>2, <4>1
    <3>3. CASE v # w
      <4>1. ~ Same(jobs[k + 1], wjob[v])
        BY <1>3, <2>2, <3>1, <3>3 DEF OnceInv
      <4> QED
        BY <1>3, <3>1, <3>3, <4>1
    <3> QED
      BY <3>2, <3>3
  <2>3. ASSUME NEW u \in Workers, NEW v \in Workers, wpc'[u] = "encoding", wpc'[v] = "encoding",
               Same(wjob'[u], wjob'[v])
        PROVE  u = v
    <3>1. \A k, l : Same(k, l) <=> Same(l, k)
      BY DEF Same
    <3>2. \A v1 \in Workers : v1 # w /\ wpc'[v1] = "encoding" => ~ Same(jobs[1], wjob'[v1])
      BY <1>2, <1>3 DEF OnceInv
    <3>3. CASE u # w /\ v # w
      BY <1>3, <2>3, <3>3 DEF OnceInv
    <3>4. CASE u = w \/ v = w
      BY <1>3, <2>3, <3>1, <3>2, <3>4
    <3> QED
      BY <3>3, <3>4
  <2> QED
    BY <2>1, <2>2, <2>3 DEF OnceInv
<1>5. SentInv'
  BY <1>1, <1>2, <1>3 DEF SentInv
<1>6. ASSUME NEW d \in Calls PROVE Pending(d)' = Pending(d)
  <2>1. ASSUME NEW i PROVE Queued(d, i)' \/ Encoding(d, i)' <=> Queued(d, i) \/ Encoding(d, i)
    <3>1. Queued(d, i)' => Queued(d, i)
      BY <1>2 DEF Queued
    <3>2. Encoding(d, i)' => Queued(d, i) \/ Encoding(d, i)
      BY <1>2, <1>3 DEF Queued, Encoding
    <3>3. Encoding(d, i) => Encoding(d, i)'
      BY <1>3 DEF Encoding
    <3>4. Queued(d, i) => Queued(d, i)' \/ Encoding(d, i)'
      <4> SUFFICES ASSUME NEW k \in DOMAIN jobs, jobs[k].call = d, jobs[k].index = i
                   PROVE  Queued(d, i)' \/ Encoding(d, i)'
        BY DEF Queued
      <4>1. CASE k = 1
        BY <1>3, <4>1 DEF Encoding
      <4>2. CASE k # 1
        BY <1>2, <4>2 DEF Queued
      <4> QED
        BY <4>1, <4>2
    <3> QED
      BY <3>1, <3>2, <3>3, <3>4
  <2> QED
    BY <1>1, <2>1 DEF Pending
<1> QED
  BY <1>4, <1>5, <1>6

LEMMA OnceStep ==
  ASSUME TypeOK, Tracked, OnceInv, SentInv, EndInv, [Next]_vars
  PROVE  OnceInv' /\ SentInv'
<1> USE DEF TypeOK, poolVars, callVars
<1>1. ASSUME NEW c \in Calls, Send(c) PROVE OnceInv' /\ SentInv'
  BY <1>1, SendOnce
<1>2. ASSUME NEW w \in Workers, Recv(w) PROVE OnceInv' /\ SentInv'
  BY <1>2, RecvOnce
<1>3. ASSUME NEW w \in Workers, Lock(w) \/ RecvClosed(w) \/ Report(w) \/ Panic(w)
      PROVE  OnceInv' /\ SentInv'
  <2>1. /\ jobs' = jobs \/ jobs' = <<>>
        /\ UNCHANGED <<cpc, items, sent, got>>
        /\ \A v \in Workers : wpc'[v] = "encoding" => wpc[v] = "encoding" /\ wjob'[v] = wjob[v]
    BY <1>3 DEF Lock, RecvClosed, Report, Panic
  <2>2. \A c \in Calls : cpc[c] \in {"new", "validating"} => results'[c] = results[c]
    <3>1. CASE Report(w)
      <4>1. cpc[wjob[w].call] \notin {"new", "validating"}
        BY <3>1 DEF Report, Tracked, WorkGenuine, Genuine, Dispatched
      <4> QED
        BY <3>1, <4>1 DEF Report
    <3>2. CASE ~ Report(w)
      BY <1>3, <3>2 DEF Lock, RecvClosed, Panic
    <3> QED
      BY <3>1, <3>2
  <2> QED
    BY <2>1, <2>2, PlacesKept DEF SentInv
<1>4. ASSUME NEW c \in Calls, NEW b \in Batches, Call(c, b) PROVE OnceInv' /\ SentInv'
  <2>1. /\ UNCHANGED <<jobs, wpc, wjob, sent, results, got>> /\ cpc[c] = "new"
        /\ cpc'[c] = "validating" /\ \A d \in Calls : d # c => cpc'[d] = cpc[d] /\ items'[d] = items[d]
    BY <1>4 DEF Call
  <2> QED
    BY <2>1, PlacesKept DEF SentInv
<1>5. ASSUME NEW c \in Calls,
             Reject(c) \/ Accept(c) \/ SendFails(c) \/ DropResultTx(c) \/ Collect(c) \/ CollectFails(c) \/ Return(c)
      PROVE  OnceInv' /\ SentInv'
  <2>1. /\ UNCHANGED <<jobs, wpc, wjob, sent, items>>
        /\ cpc'[c] \notin {"new", "validating"}
        /\ \A d \in Calls : d # c => cpc'[d] = cpc[d] /\ got'[d] = got[d] /\ results'[d] = results[d]
    BY <1>5 DEF Reject, Accept, SendFails, DropResultTx, Collect, CollectFails, Return, Unwind
  <2>2. cpc'[c] = "collecting" => sent[c] = Len(items[c])
    BY <1>5 DEF Reject, Accept, SendFails, DropResultTx, Collect, CollectFails, Return, Unwind, SentInv
  <2>3. \A d \in Calls : cpc'[d] = "collecting" => sent[d] = Len(items[d])
    BY <2>1, <2>2 DEF SentInv
  <2>4. \A d \in Calls : cpc'[d] \in {"new", "validating"} => sent[d] = 0 /\ got'[d] = 0 /\ results'[d] = <<>>
    BY <2>1 DEF SentInv
  <2> QED
    BY <2>1, <2>3, <2>4, PlacesKept DEF SentInv
<1>6. CASE CloseJobs \/ Joined \/ UNCHANGED vars
  <2>1. UNCHANGED <<jobs, wpc, wjob, sent, items, cpc, got, results>>
    BY <1>6 DEF CloseJobs, Joined, vars
  <2> QED
    BY <2>1, PlacesKept DEF SentInv
<1> QED
  BY <1>1, <1>2, <1>3, <1>4, <1>5, <1>6 DEF Next, Caller, Worker, Stopped

\* The results of a call that is sending or collecting are counted, as long as no
\* image crashed a worker.
LEMMA LossStep ==
  ASSUME TypeOK, Tracked, OnceInv, SentInv, LossInv, [Next]_vars
  PROVE  LossInv'
<1> USE DEF TypeOK, poolVars, callVars
<1> SUFFICES ASSUME ~ Abstract!SomeFault', NEW c \in Calls, Listening(c)'
             PROVE  got'[c] + Len(results'[c]) + Cardinality(Pending(c)') = Len(items'[c])
  BY DEF LossInv
<1>1. ~ Abstract!SomeFault
  BY FaultKept
<1>2. Listening(c) => got[c] + Len(results[c]) + Cardinality(Pending(c)) = Len(items[c])
  BY <1>1 DEF LossInv
<1>3. got[c] \in Nat /\ Len(results[c]) \in Nat /\ Cardinality(Pending(c)) \in Nat
  BY PendingFinite
<1>4. UNCHANGED <<jobs, wpc, wjob, sent>> /\ items'[c] = items[c] => Pending(c)' = Pending(c)
  BY DEF Pending, Queued, Encoding
<1>5. CASE /\ Listening(c) /\ got'[c] = got[c] /\ results'[c] = results[c]
           /\ items'[c] = items[c] /\ Pending(c)' = Pending(c)
  <2>1. Cardinality(Pending(c)') = Cardinality(Pending(c))
    BY <1>5
  <2> QED
    BY <1>2, <1>5, <2>1
<1>6. ASSUME NEW d \in Calls, NEW b \in Batches, Call(d, b)
      PROVE  got'[c] + Len(results'[c]) + Cardinality(Pending(c)') = Len(items'[c])
  <2>1. d # c
    BY <1>6 DEF Call, Listening
  <2> QED
    BY <1>4, <1>5, <1>6, <2>1 DEF Call, Listening
<1>7. ASSUME NEW d \in Calls, Reject(d) \/ SendFails(d) \/ CollectFails(d) \/ Return(d) \/ DropResultTx(d)
      PROVE  got'[c] + Len(results'[c]) + Cardinality(Pending(c)') = Len(items'[c])
  <2>1. CASE DropResultTx(d)
    BY <1>4, <1>5, <2>1 DEF DropResultTx, Listening
  <2>2. CASE ~ DropResultTx(d)
    <3>1. d # c
      BY <1>7, <2>2 DEF Reject, SendFails, CollectFails, Return, Unwind, Listening
    <3> QED
      BY <1>4, <1>5, <1>7, <2>2, <3>1 DEF Reject, SendFails, CollectFails, Return, Unwind, Listening
  <2> QED
    BY <2>1, <2>2
<1>8. ASSUME NEW d \in Calls, Accept(d)
      PROVE  got'[c] + Len(results'[c]) + Cardinality(Pending(c)') = Len(items'[c])
  <2>1. CASE d # c
    BY <1>4, <1>5, <1>8, <2>1 DEF Accept, Listening
  <2>2. CASE d = c
    <3>1. sent[c] = 0 /\ got'[c] = 0 /\ results'[c] = <<>> /\ UNCHANGED <<items, jobs, wpc, wjob, sent>>
      BY <1>8, <2>2 DEF Accept, SentInv
    <3>2. Pending(c) = 1 .. Len(items[c])
      BY <3>1, PendingFinite DEF Pending
    <3>3. Cardinality(Pending(c)') = Len(items[c])
      <4>1. Cardinality(1 .. Len(items[c])) = Len(items[c])
        <5>1. Len(items[c]) \in Nat
          BY PendingFinite
        <5> QED
          BY <5>1, IntervalSize
      <4>2. Pending(c)' = Pending(c)
        BY <1>4, <3>1
      <4> QED
        BY <3>2, <4>1, <4>2
    <3>4. Len(results'[c]) = 0
      BY <3>1
    <3> QED
      BY <3>1, <3>3, <3>4, PendingFinite
  <2> QED
    BY <2>1, <2>2
<1>9. ASSUME NEW d \in Calls, Send(d)
      PROVE  got'[c] + Len(results'[c]) + Cardinality(Pending(c)') = Len(items'[c])
  BY <1>5, <1>9, SendOnce DEF Send, Listening
<1>10. ASSUME NEW d \in Calls, Collect(d)
       PROVE  got'[c] + Len(results'[c]) + Cardinality(Pending(c)') = Len(items'[c])
  <2>1. CASE d # c
    BY <1>4, <1>5, <1>10, <2>1 DEF Collect, Listening
  <2>2. CASE d = c
    <3>1. /\ Listening(c) /\ got'[c] = got[c] + 1 /\ results'[c] = Tail(results[c])
          /\ results[c] # <<>> /\ results[c] \in Seq(Result)
          /\ UNCHANGED <<items, jobs, wpc, wjob, sent>>
      BY <1>10, <2>2 DEF Collect, Listening
    <3>2. Len(results'[c]) = Len(results[c]) - 1
      BY <3>1, HeadTailProperties
    <3>3. Cardinality(Pending(c)') = Cardinality(Pending(c)) /\ items'[c] = items[c]
      BY <1>4, <3>1
    <3>4. got'[c] = got[c] + 1
      BY <3>1
    <3> QED
      BY <1>2, <1>3, <3>1, <3>2, <3>3, <3>4
  <2> QED
    BY <2>1, <2>2
<1>11. ASSUME NEW w \in Workers, Lock(w) \/ RecvClosed(w)
       PROVE  got'[c] + Len(results'[c]) + Cardinality(Pending(c)') = Len(items'[c])
  <2>1. UNCHANGED <<jobs, wjob, cpc, items, sent, results, got>>
    BY <1>11 DEF Lock, RecvClosed
  <2>2. \A v \in Workers : wpc'[v] = "encoding" <=> wpc[v] = "encoding"
    BY <1>11 DEF Lock, RecvClosed
  <2>3. Pending(c)' = Pending(c) /\ Listening(c)
    BY <2>1, <2>2 DEF Pending, Queued, Encoding, Listening
  <2> QED
    BY <1>5, <2>1, <2>3
<1>12. ASSUME NEW w \in Workers, Recv(w)
       PROVE  got'[c] + Len(results'[c]) + Cardinality(Pending(c)') = Len(items'[c])
  <2>1. UNCHANGED <<cpc, items, results, got>> /\ Pending(c)' = Pending(c)
    BY <1>12, RecvOnce DEF Recv
  <2> QED
    BY <1>5, <2>1 DEF Listening
<1>13. ASSUME NEW w \in Workers, Report(w)
       PROVE  got'[c] + Len(results'[c]) + Cardinality(Pending(c)') = Len(items'[c])
  <2>1. /\ wpc[w] = "encoding" /\ wpc'[w] = "idle"
        /\ \A v \in Workers : v # w => wpc'[v] = wpc[v] /\ wjob'[v] = wjob[v]
        /\ UNCHANGED <<jobs, cpc, items, sent, got>>
    BY <1>13 DEF Report
  <2>2. wjob[w] \in Job /\ Genuine(wjob[w])
    BY <2>1 DEF Tracked, WorkGenuine
  <2>3. PICK d \in Calls, i \in Nat \ {0} : d = wjob[w].call /\ i = wjob[w].index
    BY <2>2 DEF Job
  <2>4. i \in DOMAIN items[d] /\ i <= sent[d] /\ i \in 1 .. Len(items[d])
    BY <2>1, <2>2, <2>3, PendingFinite DEF Genuine, SentInv
  <2>5. Listening(c)
    BY <2>1 DEF Listening
  <2>6. CASE d # c
    <3>1. results'[c] = results[c]
      BY <1>13, <2>3, <2>6 DEF Report
    <3>2. \A l : Encoding(c, l)' <=> Encoding(c, l)
      BY <2>1, <2>3, <2>6 DEF Encoding
    <3>3. Pending(c)' = Pending(c)
      BY <2>1, <3>2 DEF Pending, Queued
    <3> QED
      BY <1>5, <2>1, <2>5, <3>1, <3>3
  <2>7. CASE d = c
    <3>1. /\ Encoding(c, i) /\ ~ Encoding(c, i)' /\ ~ Queued(c, i)
          /\ \A l : l # i => Encoding(c, l)' = Encoding(c, l)
      <4>1. Encoding(c, i)
        BY <2>1, <2>3, <2>7 DEF Encoding
      <4>2. \A v \in Workers : wpc[v] = "encoding" /\ wjob[v].call = c /\ wjob[v].index = i => v = w
        BY <2>1, <2>3, <2>7 DEF OnceInv, Same
      <4>3. ~ Encoding(c, i)'
        BY <2>1, <4>2 DEF Encoding
      <4>4. ~ Queued(c, i)
        <5>1. \A k \in DOMAIN jobs : ~ Same(jobs[k], wjob[w])
          BY <2>1 DEF OnceInv
        <5> QED
          BY <2>3, <2>7, <5>1 DEF Same, Queued
      <4>5. \A l : l # i => Encoding(c, l)' = Encoding(c, l)
        BY <2>1, <2>3 DEF Encoding
      <4> QED
        BY <4>1, <4>3, <4>4, <4>5
    <3>2. i \in Pending(c) /\ Pending(c)' = Pending(c) \ {i}
      <4>1. \A l : Queued(c, l)' = Queued(c, l)
        BY <2>1 DEF Queued
      <4>2. ~ (i > sent[c])
        BY <2>4, <2>7
      <4> QED
        BY <2>1, <2>4, <2>7, <3>1, <4>1, <4>2 DEF Pending
    <3>3. Cardinality(Pending(c)') = Cardinality(Pending(c)) - 1
      BY <3>2, PendingFinite, FS_RemoveElement
    <3>4. PICK r \in Result : results'[c] = Append(results[c], r)
      <4>1. [index |-> wjob[w].index, hash |-> Encode[wjob[w].input]] \in Result
        BY <2>2 DEF Job, Result, Hashes
      <4>2. results'[c] = Append(results[c], [index |-> wjob[w].index, hash |-> Encode[wjob[w].input]])
        BY <1>13, <2>3, <2>5, <2>7 DEF Report
      <4> QED
        BY <4>1, <4>2
    <3>5. Len(results'[c]) = Len(results[c]) + 1
      BY <3>4, AppendProperties
    <3>6. got'[c] = got[c] /\ items'[c] = items[c]
      BY <2>1
    <3> QED
      BY <1>2, <1>3, <2>5, <3>3, <3>5, <3>6
  <2> QED
    BY <2>6, <2>7
<1>14. ASSUME NEW w \in Workers, Panic(w) PROVE FALSE
  BY <1>1, <1>14, FaultOfAJob DEF Panic
<1>15. CASE CloseJobs \/ Joined \/ UNCHANGED vars
  <2>1. UNCHANGED <<jobs, wpc, wjob, sent, items, cpc, got, results>>
    BY <1>15 DEF CloseJobs, Joined, vars
  <2> QED
    BY <1>4, <1>5, <2>1 DEF Listening
<1> QED
  BY <1>6, <1>7, <1>8, <1>9, <1>10, <1>11, <1>12, <1>13, <1>14, <1>15
     DEF Next, Caller, Worker, Stopped

LEMMA EndStep ==
  ASSUME TypeOK, Tracked, EndInv, [Next]_vars
  PROVE  EndInv'
<1> USE DEF TypeOK, poolVars, callVars
<1>1. Abstract!SomeFault => Abstract!SomeFault'
  BY FaultKept
<1>2. ASSUME NEW c \in Calls, (\E b \in Batches : Call(c, b)) \/ Caller(c)
      PROVE  EndInv'
  <2>1. UNCHANGED <<encoder, wpc>>
    BY <1>2 DEF Call, Caller, Reject, Accept, Send, SendFails, DropResultTx, Collect,
                CollectFails, Return, Unwind
  <2>2. ASSUME NEW d \in Calls, cpc'[d] \in {"validating", "sending", "collecting"}
        PROVE  encoder = "alive"
    BY <1>2, <2>2 DEF EndInv, Call, Caller, Reject, Accept, Send, SendFails, DropResultTx, Collect,
                CollectFails, Return, Unwind
  <2> QED
    BY <1>1, <2>1, <2>2 DEF EndInv
<1>3. ASSUME NEW w \in Workers, Lock(w) \/ Recv(w) \/ RecvClosed(w) \/ Report(w)
      PROVE  EndInv'
  BY <1>1, <1>3 DEF EndInv, Lock, Recv, RecvClosed, Report
<1>4. ASSUME NEW w \in Workers, Panic(w) PROVE EndInv'
  <2>1. Abstract!SomeFault
    BY <1>4, FaultOfAJob DEF Panic
  <2> QED
    BY <1>1, <1>4, <2>1 DEF EndInv, Panic
<1>5. CASE CloseJobs
  BY <1>1, <1>5 DEF EndInv, CloseJobs
<1>6. CASE Joined
  BY <1>1, <1>6 DEF EndInv, Joined
<1>7. CASE UNCHANGED vars
  BY <1>1, <1>7 DEF EndInv, vars
<1> QED
  BY <1>2, <1>3, <1>4, <1>5, <1>6, <1>7 DEF Next, Worker, Stopped

LEMMA PoolInvAlways == Spec => []PoolInv
<1>1. Init => OnceInv /\ SentInv /\ LossInv /\ EndInv
  <2> SUFFICES ASSUME Init PROVE OnceInv /\ SentInv /\ LossInv /\ EndInv
    OBVIOUS
  <2>1. DOMAIN jobs = {} /\ \A w \in Workers : wpc[w] = "idle"
    BY DEF Init
  <2>2. \A c \in Calls : cpc[c] = "new" /\ sent[c] = 0 /\ got[c] = 0 /\ results[c] = <<>>
    BY DEF Init
  <2> QED
    BY <2>1, <2>2 DEF OnceInv, SentInv, LossInv, EndInv, Listening
<1>2. TypeOK /\ Tracked /\ OnceInv /\ SentInv /\ LossInv /\ EndInv /\ [Next]_vars
        => (OnceInv /\ SentInv /\ LossInv /\ EndInv)'
  BY OnceStep, LossStep, EndStep
<1> QED
  BY <1>1, <1>2, TypeCorrect, EverythingTracked, PTL DEF Spec, PoolInv

\* A call that gives up has a reason: with no result on its way, no job of its own
\* left and results to come, some image crashed a worker; so it did when no worker
\* is left to send to.
LEMMA FailsForAReason ==
  ASSUME PoolInv, NEW c \in Calls, SendFails(c) \/ CollectFails(c)
  PROVE  Abstract!SomeFault
<1> USE DEF PoolInv
<1>1. CASE SendFails(c)
  <2>1. PICK w \in Workers : wpc[w] \in Gone
    BY <1>1, WorkersAssumption DEF SendFails, ReceiverAlive
  <2>2. encoder = "alive"
    BY <1>1 DEF SendFails, EndInv
  <2> QED
    BY <2>1, <2>2 DEF Gone, EndInv
<1>2. CASE CollectFails(c)
  <2> SUFFICES ASSUME ~ Abstract!SomeFault PROVE FALSE
    OBVIOUS
  <2>1. /\ cpc[c] = "collecting" /\ got[c] < Len(items[c]) /\ results[c] = <<>> /\ ~ CallSenders(c)
        /\ sent[c] = Len(items[c]) /\ Listening(c)
    BY <1>2 DEF CollectFails, SentInv, Listening
  <2>2. Pending(c) = {}
    BY <2>1, PendingFinite DEF Pending, Queued, Encoding, CallSenders
  <2>3. Cardinality(Pending(c)) = 0 /\ Len(results[c]) = 0
    BY <2>1, <2>2, FS_EmptySet
  <2>4. got[c] + Len(results[c]) + Cardinality(Pending(c)) = Len(items[c])
    BY <2>1 DEF LossInv
  <2>5. got[c] \in Nat
    BY DEF TypeOK
  <2> QED
    BY <2>1, <2>3, <2>4, <2>5
<1> QED
  BY <1>1, <1>2

LEMMA RefinesInit == Init => Abstract!Init
BY DEF Init, Abstract!Init, Status

LEMMA RefinesStep ==
  ASSUME PoolInv, PoolInv', [Next]_vars
  PROVE  [Abstract!Next]_(Abstract!vars)
<1> DEFINE open == encoder = "alive"
           status == [c \in Calls |-> Status(c)]
           result == [c \in Calls |-> IF cpc[c] = "returned" THEN out[c] ELSE <<>>]
<1> USE DEF PoolInv, poolVars, callVars
<1>0. \A c \in Calls : Abstract!HasInvalid(items[c]) <=> ~ (ItemsOf(c) \subseteq Valid)
  BY DEF ItemsOf, Abstract!HasInvalid, Abstract!ItemsOf
<1>1. ASSUME NEW c \in Calls, NEW b \in Batches, Call(c, b) PROVE Abstract!Call(c, b)
  <2>1. /\ cpc[c] = "new" /\ cpc' = [cpc EXCEPT ![c] = "validating"]
        /\ items' = [items EXCEPT ![c] = b] /\ UNCHANGED <<encoder, out>>
    BY <1>1 DEF Call
  <2>2. cpc'[c] = "validating" /\ \A d \in Calls : d # c => cpc'[d] = cpc[d]
    BY <2>1 DEF TypeOK
  <2>3. status[c] = "new" /\ status' = [status EXCEPT ![c] = "running"]
    BY <2>1, <2>2 DEF Status
  <2>4. result' = result
    BY <2>1, <2>2
  <2> QED
    BY <2>1, <2>3, <2>4 DEF Abstract!Call
<1>2. ASSUME NEW c \in Calls, Reject(c) \/ SendFails(c) \/ CollectFails(c)
      PROVE  Abstract!Fail(c)
  <2>1. /\ cpc[c] \in {"validating", "sending", "collecting"} /\ cpc' = [cpc EXCEPT ![c] = "panicked"]
        /\ UNCHANGED <<encoder, items, out>>
    BY <1>2 DEF Reject, SendFails, CollectFails, Unwind
  <2>2. cpc'[c] = "panicked" /\ \A d \in Calls : d # c => cpc'[d] = cpc[d]
    BY <2>1 DEF TypeOK
  <2>3. status[c] = "running" /\ status' = [status EXCEPT ![c] = "failed"]
    BY <2>1, <2>2 DEF Status
  <2>4. result' = result
    BY <2>1, <2>2
  <2>5. Abstract!HasInvalid(items[c]) \/ Abstract!SomeFault
    <3>1. CASE Reject(c)
      BY <1>0, <3>1 DEF Reject, ItemsOf
    <3>2. CASE ~ Reject(c)
      BY <1>2, <3>2, FailsForAReason
    <3> QED
      BY <3>1, <3>2
  <2> QED
    BY <2>1, <2>3, <2>4, <2>5 DEF Abstract!Fail
<1>3. ASSUME NEW c \in Calls, Accept(c) \/ Return(c)
      PROVE  Abstract!Return(c) \/ UNCHANGED <<open, status, items, result>>
  <2>1. /\ cpc[c] \in {"validating", "collecting"} /\ UNCHANGED <<encoder, items, out>>
        /\ cpc'[c] \in {"sending", "returned"} /\ \A d \in Calls : d # c => cpc'[d] = cpc[d]
        /\ cpc[c] = "collecting" => cpc'[c] = "returned"
    BY <1>3 DEF Accept, Return, TypeOK
  <2>2. CASE cpc'[c] = "sending"
    <3>1. status' = status /\ result' = result
      BY <2>1, <2>2 DEF Status
    <3> QED
      BY <2>1, <3>1
  <2>3. CASE cpc'[c] = "returned"
    <3>1. /\ ItemsOf(c) \subseteq Valid
          /\ out'[c] = [i \in DOMAIN items'[c] |-> Encode[items'[c][i]]]
      <4>1. SlotsGenuine(c)' /\ Filled(c)'
        BY <2>3 DEF Tracked
      <4>2. DOMAIN out'[c] = DOMAIN items'[c] /\ \A i \in DOMAIN items'[c] : out'[c][i] = Encode[items'[c][i]]
        BY <4>1 DEF SlotsGenuine, Filled
      <4>3. out'[c] = [i \in DOMAIN out'[c] |-> out'[c][i]]
        <5>1. out'[c] \in Seq(Hashes \cup {None})
          BY DEF TypeOK
        <5> QED
          BY <5>1, LenProperties
      <4>4. (ItemsOf(c) \subseteq Valid)'
        BY <4>1 DEF SlotsGenuine, Dispatched
      <4> QED
        BY <2>1, <4>2, <4>3, <4>4 DEF ItemsOf
    <3>2. status[c] = "running" /\ status' = [status EXCEPT ![c] = "returned"]
      BY <2>1, <2>3 DEF Status
    <3>3. result' = [result EXCEPT ![c] = [i \in DOMAIN items[c] |-> Encode[items[c][i]]]]
      BY <2>1, <2>3, <3>1
    <3>4. open
      BY <2>1 DEF EndInv
    <3> QED
      BY <1>0, <2>1, <3>1, <3>2, <3>3, <3>4 DEF Abstract!Return
  <2> QED
    BY <2>1, <2>2, <2>3
<1>4. ASSUME NEW c \in Calls, Send(c) \/ DropResultTx(c) \/ Collect(c)
      PROVE  UNCHANGED <<open, status, items, result>>
  <2>1. /\ UNCHANGED <<encoder, items>> /\ cpc[c] \in {"sending", "collecting"}
        /\ cpc'[c] \in {"sending", "collecting"}
        /\ \A d \in Calls : d # c => cpc'[d] = cpc[d] /\ out'[d] = out[d]
    BY <1>4 DEF Send, DropResultTx, Collect, TypeOK
  <2>2. \A d \in Calls : /\ Status(d)' = Status(d)
                         /\ cpc'[d] = "returned" <=> cpc[d] = "returned"
                         /\ cpc[d] = "returned" => out'[d] = out[d]
    BY <2>1 DEF Status
  <2> QED
    BY <2>1, <2>2
<1>5. CASE CloseJobs
  <2>1. /\ open /\ ~ open' /\ UNCHANGED <<cpc, items, out>>
        /\ \A c \in Calls : Status(c) # "running"
    BY <1>5 DEF CloseJobs, Status
  <2>2. status' = status /\ result' = result
    BY <2>1 DEF Status
  <2>3. Abstract!Close
    BY <2>1, <2>2 DEF Abstract!Close
  <2> QED
    BY <2>3 DEF Abstract!Next
<1>6. ASSUME NEW w \in Workers, Lock(w) \/ Worker(w) PROVE UNCHANGED <<open, status, items, result>>
  <2>1. UNCHANGED <<encoder, cpc, items, out>>
    BY <1>6 DEF Lock, Worker, Recv, RecvClosed, Report, Panic
  <2> QED
    BY <2>1 DEF Status
<1>7. CASE Joined
  BY <1>7 DEF Joined, Status, Abstract!vars
<1>8. CASE UNCHANGED vars
  BY <1>8 DEF vars, Status, Abstract!vars
<1>9. UNCHANGED <<open, status, items, result>> => UNCHANGED Abstract!vars
  BY DEF Abstract!vars
<1> QED
  BY <1>1, <1>2, <1>3, <1>4, <1>5, <1>6, <1>7, <1>8, <1>9
     DEF Next, Caller, Stopped, Abstract!Next

\* The safety half of the refinement: for every pool, a call returns the hashes of
\* exactly its images, in order, or panics for a reason it may have, whatever
\* workers die and whatever calls overlap (batch.rs, encode_batch and its expects).
THEOREM RustImplementsBatch == Spec => Abstract!Spec
<1>1. PoolInv /\ PoolInv' /\ [Next]_vars => [Abstract!Next]_(Abstract!vars)
  BY RefinesStep
<1> QED
  BY <1>1, RefinesInit, PoolInvAlways, PTL DEF Spec, Abstract!Spec
=============================================================================
