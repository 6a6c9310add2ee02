------------------------- MODULE CSharpBatch_proofs -------------------------
(***************************************************************************)
(* What holds of the C# batch pool for every set of calls, lists and       *)
(* threads: it implements BatchSpec, and a call that returned leaves no    *)
(* thread behind that would signal its event or write to its array.        *)
(***************************************************************************)
EXTENDS CSharpBatch, FiniteSetTheorems, SequenceTheorems, TLAPS

\* What replacing an element, appending one and taking the first one make of a
\* sequence.
LEMMA ReplaceInArray ==
  ASSUME NEW S, NEW s \in Seq(S), NEW k \in DOMAIN s, NEW e \in S
  PROVE  /\ [s EXCEPT ![k] = e] \in Seq(S)
         /\ DOMAIN [s EXCEPT ![k] = e] = DOMAIN s
         /\ [s EXCEPT ![k] = e][k] = e
         /\ \A i \in DOMAIN s : i # k => [s EXCEPT ![k] = e][i] = s[i]
BY ExceptSeq, LenProperties

LEMMA AddedAtTheEnd ==
  ASSUME NEW S, NEW s \in Seq(S), NEW e \in S
  PROVE  /\ Append(s, e) \in Seq(S)
         /\ DOMAIN Append(s, e) = DOMAIN s \cup {Len(s) + 1} /\ Len(s) + 1 \notin DOMAIN s
         /\ Append(s, e)[Len(s) + 1] = e
         /\ \A k \in DOMAIN s : Append(s, e)[k] = s[k]
<1>1. Append(s, e) \in Seq(S) /\ Len(Append(s, e)) = Len(s) + 1 /\ Len(s) \in Nat
  BY AppendProperties, LenProperties
<1>2. DOMAIN s = 1 .. Len(s) /\ DOMAIN Append(s, e) = 1 .. Len(s) + 1
  BY <1>1, LenProperties
<1> QED
  BY <1>1, <1>2, AppendProperties

LEMMA TakenFromTheFront ==
  ASSUME NEW S, NEW s \in Seq(S), s # <<>>
  PROVE  /\ 1 \in DOMAIN s /\ Head(s) = s[1]
         /\ Tail(s) \in Seq(S)
         /\ \A k \in DOMAIN Tail(s) : k + 1 \in DOMAIN s /\ k + 1 # 1 /\ Tail(s)[k] = s[k + 1]
         /\ \A k \in DOMAIN s : k # 1 => k - 1 \in DOMAIN Tail(s) /\ Tail(s)[k - 1] = s[k]
<1>1. Len(s) \in Nat \ {0} /\ DOMAIN s = 1 .. Len(s)
  BY EmptySeq, LenProperties
<1>2. Tail(s) \in Seq(S) /\ Len(Tail(s)) = Len(s) - 1
  BY HeadTailProperties
<1>3. DOMAIN Tail(s) = 1 .. Len(s) - 1
  BY <1>2, LenProperties
<1>4. \A k \in DOMAIN Tail(s) : Tail(s)[k] = s[k + 1]
  BY <1>2, <1>3, HeadTailProperties
<1>5. \A k \in DOMAIN s : k # 1 => k - 1 \in DOMAIN Tail(s) /\ (k - 1) + 1 = k
  BY <1>1, <1>3
<1> QED
  BY <1>1, <1>2, <1>3, <1>4, <1>5

-----------------------------------------------------------------------------
(* The invariant. An item of a call is pending until it is signalled: it is    *)
(* still to be added, in the queue, or with a thread, and in one of these      *)
(* places only. The event of the call counts them.                             *)

Holding(w) == wpc[w] \in {"encoding", "written"}

Queued(c, i) == \E k \in DOMAIN jobs : jobs[k].call = c /\ jobs[k].index = i
Held(c, i) == \E w \in Workers : Holding(w) /\ wjob[w].call = c /\ wjob[w].index = i

Pending(c) == {i \in 1 .. Len(items[c]) : i > added[c] \/ Queued(c, i) \/ Held(c, i)}

\* A work item is one of those a call that waits has added.
Genuine(j) ==
  /\ j \in WorkItem
  /\ cpc[j.call] = "adding"
  /\ j.index \in 1 .. added[j.call]
  /\ j.input = items[j.call][j.index]

JobInv ==
  /\ \A k \in DOMAIN jobs : Genuine(jobs[k])
  /\ \A w \in Workers : IF Holding(w) THEN Genuine(wjob[w]) ELSE wjob[w] = NoItem

\* No work item is in two places.
Same(j, k) == j.call = k.call /\ j.index = k.index

OnceInv ==
  /\ \A k, l \in DOMAIN jobs : Same(jobs[k], jobs[l]) => k = l
  /\ \A v, w \in Workers : Holding(v) /\ Holding(w) /\ Same(wjob[v], wjob[w]) => v = w
  /\ \A k \in DOMAIN jobs, w \in Workers : Holding(w) => ~ Same(jobs[k], wjob[w])

CountInv ==
  \A c \in Calls :
    /\ cpc[c] \in {"new", "entered"} => added[c] = 0
    /\ cpc[c] \in {"adding", "returned"} =>
         added[c] <= Len(items[c]) /\ count[c] = Cardinality(Pending(c))
    /\ cpc[c] = "returned" => Pending(c) = {}

\* What is no longer pending is in the array, and what is to be signalled next.
OutputInv ==
  /\ \A c \in Calls : cpc[c] \in {"adding", "returned"} =>
       /\ AllPass(c)
       /\ DOMAIN output[c] = DOMAIN items[c]
       /\ \A i \in DOMAIN items[c] \ Pending(c) : output[c][i] = Encode[items[c][i]]
  /\ \A w \in Workers : wpc[w] = "written" =>
       output[wjob[w].call][wjob[w].index] = Encode[wjob[w].input]

\* Dispose waits for the calls.
OpenInv == \A c \in Calls : cpc[c] = "adding" => disposed = "no"

Inv == TypeOK /\ JobInv /\ OnceInv /\ CountInv /\ OutputInv /\ OpenInv

\* What is pending is a finite set, of items the call has.
LEMMA PendingFinite ==
  ASSUME TypeOK, NEW c \in Calls
  PROVE  /\ IsFiniteSet(Pending(c)) /\ Cardinality(Pending(c)) \in Nat
         /\ DOMAIN items[c] = 1 .. Len(items[c]) /\ Len(items[c]) \in Nat
<1>1. DOMAIN items[c] = 1 .. Len(items[c]) /\ Len(items[c]) \in Nat
  BY LenProperties DEF TypeOK
<1>2. IsFiniteSet(1 .. Len(items[c])) /\ Pending(c) \subseteq 1 .. Len(items[c])
  BY <1>1, FS_Interval DEF Pending
<1> QED
  BY <1>1, <1>2, FS_Subset, FS_CardinalityType

LEMMA InvInit == Init => Inv
<1> SUFFICES ASSUME Init PROVE Inv
  OBVIOUS
<1>1. <<>> \in Seq(Images) /\ <<>> \in Seq(Hashes \cup {Null}) /\ <<>> \in Seq(WorkItem)
  BY EmptySeq
<1>2. TypeOK
  BY <1>1 DEF Init, TypeOK, NoItem
<1>3. DOMAIN jobs = {} /\ \A w \in Workers : ~ Holding(w) /\ wjob[w] = NoItem /\ wpc[w] # "written"
  BY DEF Init, Holding
<1>4. \A c \in Calls : cpc[c] = "new" /\ added[c] = 0
  BY DEF Init
<1> QED
  BY <1>2, <1>3, <1>4 DEF Inv, JobInv, OnceInv, CountInv, OutputInv, OpenInv

-----------------------------------------------------------------------------
(* A caller outside the queue                                                  *)

\* A step that leaves the queue and the threads alone leaves what is pending of a
\* call alone, unless it changes the list.
LEMMA PendingKept ==
  ASSUME UNCHANGED <<jobs, added, wpc, wjob>>
  PROVE  /\ \A w \in Workers : Holding(w)' = Holding(w)
         /\ \A c : items'[c] = items[c] => Pending(c)' = Pending(c)
BY DEF Holding, Pending, Queued, Held

LEMMA CallKeeps ==
  ASSUME Inv, NEW c \in Calls, NEW b \in Batches, Call(c, b)
  PROVE  Inv'
<1> USE DEF Inv
<1>1. /\ cpc[c] = "new" /\ cpc' = [cpc EXCEPT ![c] = "entered"] /\ items' = [items EXCEPT ![c] = b]
      /\ UNCHANGED <<crashed, adding, disposed, jobs, added, count, output, wpc, wjob>>
  BY DEF Call
<1>2. /\ cpc'[c] = "entered" /\ items'[c] = b
      /\ \A d \in Calls : d # c => cpc'[d] = cpc[d] /\ items'[d] = items[d] /\ Pending(d)' = Pending(d)
  BY <1>1, PendingKept DEF TypeOK
<1>3. TypeOK'
  BY <1>1, BatchesAssumption DEF TypeOK
<1>4. \A w \in Workers : Holding(w)' = Holding(w)
  BY <1>1 DEF Holding
<1>5. \A j : Genuine(j) => j.call \in Calls /\ j.call # c
  BY <1>1 DEF Genuine, WorkItem
<1>6. \A j : Genuine(j) => Genuine(j)'
  BY <1>1, <1>2, <1>5 DEF Genuine
<1>7. JobInv'
  BY <1>1, <1>4, <1>6 DEF JobInv
<1>8. OnceInv'
  BY <1>1, <1>4 DEF OnceInv
<1>9. CountInv'
  <2> SUFFICES ASSUME NEW d \in Calls
               PROVE  /\ cpc'[d] \in {"new", "entered"} => added[d] = 0
                      /\ cpc'[d] \in {"adding", "returned"} =>
                           added[d] <= Len(items'[d]) /\ count[d] = Cardinality(Pending(d)')
                      /\ cpc'[d] = "returned" => Pending(d)' = {}
    BY <1>1 DEF CountInv
  <2>1. CASE d = c
    BY <1>1, <1>2, <2>1 DEF CountInv
  <2>2. CASE d # c
    <3>1. cpc'[d] = cpc[d] /\ items'[d] = items[d] /\ Pending(d)' = Pending(d)
      BY <1>2, <2>2
    <3> QED
      BY <3>1 DEF CountInv
  <2> QED
    BY <2>1, <2>2
<1>10. OutputInv'
  <2>1. ASSUME NEW d \in Calls, cpc'[d] \in {"adding", "returned"}
        PROVE  /\ AllPass(d)'
               /\ DOMAIN output'[d] = DOMAIN items'[d]
               /\ \A i \in DOMAIN items'[d] \ Pending(d)' : output'[d][i] = Encode[items'[d][i]]
    <3>1. d # c
      BY <1>2, <2>1
    <3>2. cpc'[d] = cpc[d] /\ items'[d] = items[d] /\ Pending(d)' = Pending(d)
      BY <1>2, <3>1
    <3> QED
      BY <1>1, <2>1, <3>2 DEF OutputInv, AllPass
  <2> QED
    BY <1>1, <2>1 DEF OutputInv
<1>11. OpenInv'
  BY <1>1, <1>2 DEF OpenInv
<1> QED
  BY <1>3, <1>7, <1>8, <1>9, <1>10, <1>11

\* Throw, Accept and Return move one call on.
LEMMA CallerKeeps ==
  ASSUME Inv, NEW c \in Calls, Throw(c) \/ Accept(c) \/ Return(c)
  PROVE  Inv'
<1> USE DEF Inv
<1>1. UNCHANGED <<crashed, adding, disposed, jobs, items, added, wpc, wjob>>
  BY DEF Throw, Accept, Return
<1>2. /\ \A w \in Workers : Holding(w)' = Holding(w)
      /\ \A d \in Calls : Pending(d)' = Pending(d)
  BY <1>1, PendingKept
<1>3. \A d \in Calls : d # c => cpc'[d] = cpc[d] /\ count'[d] = count[d] /\ output'[d] = output[d]
  BY DEF Throw, Accept, Return, TypeOK
<1>4. cpc[c] \in {"entered", "adding"} /\ (cpc[c] = "adding" => Pending(c) = {})
  <2>1. CASE cpc[c] = "adding"
    <3>1. Cardinality(Pending(c)) = 0
      BY <2>1 DEF Throw, Accept, Return, CountInv
    <3> QED
      BY <2>1, <3>1, PendingFinite, FS_EmptySet
  <2> QED
    BY <2>1 DEF Throw, Accept, Return
<1>5. \A j : Genuine(j) => (j.call \in Calls /\ j.call # c) \/ j.index \in 1 .. Len(items[c])
  <2> SUFFICES ASSUME NEW j, Genuine(j), j.call = c
               PROVE  j.index \in 1 .. Len(items[c])
    BY DEF Genuine, WorkItem
  <2>1. j.index \in 1 .. added[c] /\ added[c] <= Len(items[c])
    BY DEF Genuine, CountInv
  <2> QED
    BY <2>1, PendingFinite DEF TypeOK
<1>6. /\ \A k \in DOMAIN jobs : jobs[k].call # c
      /\ \A w \in Workers : Holding(w) => wjob[w].call # c
  <2>1. ASSUME NEW j, Genuine(j), j.call = c
        PROVE  ~ Queued(c, j.index) /\ ~ Held(c, j.index)
    <3>1. cpc[c] = "adding" /\ j.index \in 1 .. Len(items[c])
      BY <1>5, <2>1 DEF Genuine
    <3> QED
      BY <1>4, <3>1 DEF Pending
  <2> QED
    BY <2>1 DEF JobInv, Queued, Held
<1>7. JobInv'
  <2>1. \A j : Genuine(j) /\ j.call # c => Genuine(j)'
    BY <1>1, <1>3 DEF Genuine, WorkItem
  <2> QED
    BY <1>1, <1>2, <1>6, <2>1 DEF JobInv
<1>8. OnceInv'
  BY <1>1, <1>2 DEF OnceInv
<1>9. OpenInv'
  BY <1>1, <1>3 DEF OpenInv, Throw, Accept, Return, TypeOK
<1>10. ASSUME NEW d \in Calls, d # c
       PROVE  /\ cpc'[d] \in {"new", "entered"} => added[d] = 0
              /\ cpc'[d] \in {"adding", "returned"} =>
                   added[d] <= Len(items[d]) /\ count'[d] = Cardinality(Pending(d)')
              /\ cpc'[d] = "returned" => Pending(d)' = {}
              /\ cpc'[d] \in {"adding", "returned"} =>
                   /\ AllPass(d)'
                   /\ DOMAIN output'[d] = DOMAIN items[d]
                   /\ \A i \in DOMAIN items[d] \ Pending(d)' : output'[d][i] = Encode[items[d][i]]
  <2>1. cpc'[d] = cpc[d] /\ count'[d] = count[d] /\ output'[d] = output[d] /\ Pending(d)' = Pending(d)
    BY <1>2, <1>3, <1>10
  <2> QED
    BY <1>1, <2>1 DEF CountInv, OutputInv, AllPass
<1>11. \A w \in Workers : wpc'[w] = "written" =>
          output'[wjob'[w].call][wjob'[w].index] = Encode[wjob'[w].input]
  <2> SUFFICES ASSUME NEW w \in Workers, wpc[w] = "written"
               PROVE  output'[wjob[w].call][wjob[w].index] = Encode[wjob[w].input]
    BY <1>1
  <2>1. Holding(w) /\ wjob[w].call \in Calls /\ wjob[w].call # c
    BY <1>6 DEF Holding, JobInv, Genuine, WorkItem
  <2> QED
    BY <1>3, <2>1 DEF OutputInv
<1>12. CASE Throw(c)
  <2>1. cpc'[c] = "threw" /\ UNCHANGED <<count, output>>
    BY <1>12 DEF Throw, TypeOK
  <2>2. TypeOK'
    BY <1>12 DEF Throw, TypeOK
  <2>3. CountInv' /\ OutputInv'
    BY <1>1, <1>10, <1>11, <2>1 DEF CountInv, OutputInv
  <2> QED
    BY <1>7, <1>8, <1>9, <2>2, <2>3
<1>13. CASE Accept(c)
  <2>1. /\ cpc'[c] = IF items[c] = <<>> THEN "returned" ELSE "adding"
        /\ count'[c] = Len(items[c])
        /\ output'[c] = [i \in DOMAIN items[c] |-> Null]
        /\ AllPass(c) /\ cpc[c] = "entered"
    BY <1>13 DEF Accept, TypeOK
  <2>2. added[c] = 0
    BY <2>1 DEF CountInv
  <2>3. Pending(c) = 1 .. Len(items[c])
    BY <2>2, PendingFinite DEF Pending
  <2>4. Cardinality(Pending(c)) = Len(items[c])
    BY <2>3, PendingFinite, FS_Interval
  <2>5. cpc'[c] = "returned" => Pending(c) = {}
    BY <2>1, <2>3
  <2>6. CountInv'
    <3>1. 0 <= Len(items[c]) /\ cpc'[c] \in {"returned", "adding"}
      BY <2>1, PendingFinite
    <3> QED
      BY <1>1, <1>2, <1>10, <2>1, <2>2, <2>4, <2>5, <3>1 DEF CountInv
  <2>7. OutputInv'
    <3>1. AllPass(c)' /\ DOMAIN output'[c] = DOMAIN items[c] /\ DOMAIN items[c] \ Pending(c)' = {}
      BY <1>1, <1>2, <2>1, <2>3, PendingFinite DEF AllPass
    <3> QED
      BY <1>1, <1>10, <1>11, <3>1 DEF OutputInv
  <2>8. TypeOK'
    <3>1. [i \in DOMAIN items[c] |-> Null] \in Seq(Hashes \cup {Null})
      BY PendingFinite, IsASeq
    <3>2. Len(items[c]) \in Nat
      BY PendingFinite
    <3> QED
      BY <1>13, <3>1, <3>2 DEF Accept, TypeOK
  <2> QED
    BY <1>7, <1>8, <1>9, <2>6, <2>7, <2>8
<1>14. CASE Return(c)
  <2>1. cpc[c] = "adding" /\ cpc'[c] = "returned" /\ UNCHANGED <<count, output>>
    BY <1>14 DEF Return, TypeOK
  <2>2. TypeOK'
    BY <1>14 DEF Return, TypeOK
  <2>3. CountInv'
    BY <1>1, <1>2, <1>4, <1>10, <2>1 DEF CountInv
  <2>4. OutputInv'
    BY <1>1, <1>2, <1>10, <1>11, <2>1 DEF OutputInv, AllPass
  <2> QED
    BY <1>7, <1>8, <1>9, <2>2, <2>3, <2>4
<1> QED
  BY <1>12, <1>13, <1>14

LEMMA AddKeeps ==
  ASSUME Inv, NEW c \in Calls, Add(c)
  PROVE  Inv'
<1> USE DEF Inv
<1>1. added[c] \in Nat /\ added[c] < Len(items[c]) /\ Len(items[c]) \in Nat
  BY PendingFinite DEF Add, TypeOK
<1>2. PICK n \in Nat : n = added[c] + 1
  BY <1>1
<1>3. /\ n \in 1 .. Len(items[c]) /\ n > added[c] /\ added[c] \in Nat
      /\ \A i \in Nat : i > added[c] <=> i > n \/ i = n
  BY <1>1, <1>2
<1>4. PICK j \in WorkItem : j = [call |-> c, index |-> n, input |-> items[c][n]]
  BY <1>3, ElementOfSeq DEF WorkItem, TypeOK
<1> DEFINE last == Len(jobs) + 1
<1>5. /\ cpc[c] = "adding" /\ jobs' = Append(jobs, j) /\ added' = [added EXCEPT ![c] = n]
       /\ UNCHANGED <<crashed, adding, disposed, cpc, items, count, output, wpc, wjob>>
  BY <1>2, <1>4 DEF Add
<1>6. /\ jobs' \in Seq(WorkItem)
      /\ DOMAIN jobs' = DOMAIN jobs \cup {last} /\ last \notin DOMAIN jobs /\ jobs'[last] = j
      /\ \A k \in DOMAIN jobs : jobs'[k] = jobs[k]
  BY <1>5, <1>4, AddedAtTheEnd DEF TypeOK
<1>7. /\ j.call = c /\ j.index = n /\ j.input = items[c][n]
      /\ added'[c] = n /\ \A d \in Calls : d # c => added'[d] = added[d]
      /\ added' \in [Calls -> Nat]
  BY <1>3, <1>4, <1>5 DEF TypeOK
<1> HIDE DEF last
<1>8. TypeOK'
  BY <1>5, <1>6, <1>7 DEF TypeOK
<1>9. \A w \in Workers : Holding(w)' = Holding(w)
  BY <1>5 DEF Holding
<1>10. \A k : Genuine(k) => k.index \in Nat /\ (k.call = c => k.index <= added[c])
  BY <1>3 DEF Genuine, WorkItem
<1>11. \A d \in Calls : Pending(d)' = Pending(d)
  <2>1. ASSUME NEW d \in Calls, NEW i
        PROVE  Queued(d, i)' <=> Queued(d, i) \/ (d = c /\ i = n)
    <3>1. ASSUME NEW k \in DOMAIN jobs PROVE jobs'[k] = jobs[k] /\ k \in DOMAIN jobs'
      BY <1>6
    <3> QED
      BY <1>6, <1>7, <3>1 DEF Queued
  <2>2. \A d, i : Held(d, i)' <=> Held(d, i)
    BY <1>5, <1>9 DEF Held
  <2> SUFFICES ASSUME NEW d \in Calls, NEW i \in 1 .. Len(items[d])
               PROVE  i > added'[d] \/ Queued(d, i)' \/ Held(d, i)' <=> i > added[d] \/ Queued(d, i) \/ Held(d, i)
    BY <1>5 DEF Pending
  <2>3. CASE d # c
    BY <1>7, <2>1, <2>2, <2>3
  <2>4. CASE d = c
    <3>1. i \in Nat
      BY <2>4, PendingFinite
    <3>2. i > added[c] <=> i > added'[c] \/ i = n
      BY <1>3, <1>7, <3>1
    <3> QED
      BY <2>1, <2>2, <2>4, <3>2
  <2> QED
    BY <2>3, <2>4
<1>12. JobInv'
  <2>1. ASSUME NEW k, Genuine(k) PROVE Genuine(k)'
    <3>1. k.call \in Calls /\ k.index \in 1 .. added[k.call]
      BY <2>1 DEF Genuine, WorkItem
    <3>2. k.index \in 1 .. added'[k.call]
      BY <1>3, <1>7, <3>1
    <3> QED
      BY <1>5, <2>1, <3>2 DEF Genuine
  <2>2. Genuine(j)'
    <3>1. n \in 1 .. n
      BY <1>3
    <3> QED
      BY <1>5, <1>4, <1>7, <3>1 DEF Genuine
  <2> QED
    BY <1>5, <1>6, <1>9, <2>1, <2>2 DEF JobInv
<1>13. OnceInv'
  <2>1. /\ \A k \in DOMAIN jobs : ~ Same(jobs[k], j)
        /\ \A w \in Workers : Holding(w) => ~ Same(wjob[w], j)
    <3>1. ASSUME NEW k, Genuine(k) PROVE ~ Same(k, j)
      BY <1>3, <1>7, <1>10, <3>1 DEF Same
    <3> QED
      BY <3>1 DEF JobInv
  <2>2. \A k, l : Same(k, l) <=> Same(l, k)
    BY DEF Same
  <2> QED
    BY <1>5, <1>6, <1>9, <2>1, <2>2 DEF OnceInv
<1>14. CountInv'
  <2> SUFFICES ASSUME NEW d \in Calls
               PROVE  /\ cpc[d] \in {"new", "entered"} => added'[d] = 0
                      /\ cpc[d] \in {"adding", "returned"} =>
                           added'[d] <= Len(items[d]) /\ count[d] = Cardinality(Pending(d))
                      /\ cpc[d] = "returned" => Pending(d) = {}
    BY <1>5, <1>11 DEF CountInv
  <2>1. CASE d = c
    BY <1>5, <1>3, <1>7, <2>1, PendingFinite DEF CountInv
  <2>2. CASE d # c
    BY <1>7, <2>2 DEF CountInv
  <2> QED
    BY <2>1, <2>2
<1>15. OutputInv' /\ OpenInv'
  BY <1>5, <1>11 DEF OutputInv, OpenInv, AllPass
<1> QED
  BY <1>8, <1>12, <1>13, <1>14, <1>15

-----------------------------------------------------------------------------
(* A thread                                                                    *)

LEMMA TakeKeeps ==
  ASSUME Inv, NEW w \in Workers, Take(w)
  PROVE  Inv'
<1> USE DEF Inv
<1>1. /\ wpc[w] = "taking" /\ jobs # <<>>
      /\ wjob' = [wjob EXCEPT ![w] = Head(jobs)] /\ jobs' = Tail(jobs)
      /\ wpc' = [wpc EXCEPT ![w] = "encoding"]
      /\ UNCHANGED <<crashed, adding, disposed, cpc, items, added, count, output>>
  BY DEF Take, callVars
<1>2. /\ 1 \in DOMAIN jobs /\ Head(jobs) = jobs[1] /\ jobs' \in Seq(WorkItem)
      /\ \A k \in DOMAIN jobs' : k + 1 \in DOMAIN jobs /\ k + 1 # 1 /\ jobs'[k] = jobs[k + 1]
      /\ \A k \in DOMAIN jobs : k # 1 => k - 1 \in DOMAIN jobs' /\ jobs'[k - 1] = jobs[k]
  BY <1>1, TakenFromTheFront DEF TypeOK
<1>3. /\ wpc'[w] = "encoding" /\ wjob'[w] = jobs[1]
      /\ \A v \in Workers : v # w => wpc'[v] = wpc[v] /\ wjob'[v] = wjob[v]
  BY <1>1, <1>2 DEF TypeOK
<1>4. /\ Holding(w)' /\ ~ Holding(w)
      /\ \A v \in Workers : v # w => Holding(v)' = Holding(v)
  BY <1>1, <1>3 DEF Holding
<1>5. Genuine(jobs[1]) /\ jobs[1] \in WorkItem
  BY <1>2 DEF JobInv, Genuine
<1>6. TypeOK'
  BY <1>1, <1>2, <1>5 DEF TypeOK
<1>7. \A j : Genuine(j)' = Genuine(j)
  BY <1>1 DEF Genuine
<1>8. JobInv'
  BY <1>2, <1>3, <1>4, <1>5, <1>7 DEF JobInv
<1>9. OnceInv'
  <2>1. ASSUME NEW k \in DOMAIN jobs', NEW l \in DOMAIN jobs', Same(jobs'[k], jobs'[l]) PROVE k = l
    <3>1. k + 1 = l + 1
      BY <1>2, <2>1 DEF OnceInv
    <3>2. k \in Nat /\ l \in Nat
      BY <1>2, LenProperties
    <3> QED
      BY <3>1, <3>2
  <2>2. ASSUME NEW k \in DOMAIN jobs', NEW v \in Workers, Holding(v)' PROVE ~ Same(jobs'[k], wjob'[v])
    BY <1>2, <1>3, <1>4, <2>2 DEF OnceInv
  <2>3. ASSUME NEW u \in Workers, NEW v \in Workers, Holding(u)', Holding(v)', Same(wjob'[u], wjob'[v])
        PROVE  u = v
    <3>1. \A k, l : Same(k, l) <=> Same(l, k)
      BY DEF Same
    <3> QED
      BY <1>2, <1>3, <1>4, <2>3, <3>1 DEF OnceInv
  <2> QED
    BY <2>1, <2>2, <2>3 DEF OnceInv
<1>10. \A d : Pending(d)' = Pending(d)
  <2>1. ASSUME NEW d, NEW i PROVE Queued(d, i)' \/ Held(d, i)' <=> Queued(d, i) \/ Held(d, i)
    <3>1. Queued(d, i)' => Queued(d, i)
      BY <1>2 DEF Queued
    <3>2. Held(d, i)' => Queued(d, i) \/ Held(d, i)
      BY <1>2, <1>3, <1>4 DEF Queued, Held
    <3>3. Held(d, i) => Held(d, i)'
      BY <1>3, <1>4 DEF Held
    <3>4. Queued(d, i) => Queued(d, i)' \/ Held(d, i)'
      <4> SUFFICES ASSUME NEW k \in DOMAIN jobs, jobs[k].call = d, jobs[k].index = i
                   PROVE  Queued(d, i)' \/ Held(d, i)'
        BY DEF Queued
      <4>1. CASE k = 1
        BY <1>3, <1>4, <4>1 DEF Held
      <4>2. CASE k # 1
        BY <1>2, <4>2 DEF Queued
      <4> QED
        BY <4>1, <4>2
    <3> QED
      BY <3>1, <3>2, <3>3, <3>4
  <2> QED
    BY <1>1, <2>1 DEF Pending
<1>11. CountInv' /\ OpenInv'
  BY <1>1, <1>10 DEF CountInv, OpenInv
<1>12. OutputInv'
  BY <1>1, <1>3, <1>10 DEF OutputInv, AllPass
<1> QED
  BY <1>6, <1>8, <1>9, <1>11, <1>12

LEMMA WriteKeeps ==
  ASSUME Inv, NEW w \in Workers, Write(w)
  PROVE  Inv'
<1> USE DEF Inv
<1> DEFINE c == wjob[w].call
           k == wjob[w].index
           h == Encode[wjob[w].input]
<1>1. /\ wpc[w] = "encoding" /\ wpc' = [wpc EXCEPT ![w] = "written"]
      /\ output' = [output EXCEPT ![c] = [@ EXCEPT ![k] = h]]
      /\ UNCHANGED <<crashed, adding, disposed, jobs, cpc, items, added, count, wjob>>
  BY DEF Write, callVars
<1>2. Holding(w) /\ Genuine(wjob[w])
  BY <1>1 DEF Holding, JobInv
<1>3. /\ c \in Calls /\ cpc[c] = "adding" /\ k \in DOMAIN items[c] /\ h = Encode[items[c][k]]
      /\ h \in Hashes \cup {Null}
  <2>1. c \in Calls /\ cpc[c] = "adding" /\ k \in 1 .. added[c] /\ wjob[w].input \in Images
    BY <1>2 DEF Genuine, WorkItem
  <2>2. added[c] <= Len(items[c]) /\ added[c] \in Nat
    BY <2>1 DEF CountInv, TypeOK
  <2>3. k \in DOMAIN items[c]
    BY <2>1, <2>2, PendingFinite
  <2> QED
    BY <1>2, <2>1, <2>3 DEF Genuine, Hashes
<1> HIDE DEF c, k, h
<1>4. DOMAIN output[c] = DOMAIN items[c] /\ output[c] \in Seq(Hashes \cup {Null})
  BY <1>3 DEF OutputInv, TypeOK
<1>5. /\ output'[c] = [output[c] EXCEPT ![k] = h]
      /\ \A d \in Calls : d # c => output'[d] = output[d]
  BY <1>1, <1>3 DEF TypeOK
<1>6. /\ output'[c] \in Seq(Hashes \cup {Null}) /\ DOMAIN output'[c] = DOMAIN items[c]
      /\ output'[c][k] = h
      /\ \A i \in DOMAIN items[c] : i # k => output'[c][i] = output[c][i]
  BY <1>3, <1>4, <1>5, ReplaceInArray
<1>7. TypeOK'
  BY <1>1, <1>5, <1>6 DEF TypeOK
<1>8. /\ wpc'[w] = "written" /\ \A v \in Workers : v # w => wpc'[v] = wpc[v]
      /\ \A v \in Workers : Holding(v)' = Holding(v)
  BY <1>1 DEF Holding, TypeOK
<1>9. /\ \A j : Genuine(j)' = Genuine(j)
      /\ \A d : Pending(d)' = Pending(d)
  BY <1>1, <1>8 DEF Genuine, Pending, Queued, Held
<1>10. JobInv' /\ OnceInv' /\ CountInv' /\ OpenInv'
  BY <1>1, <1>8, <1>9 DEF JobInv, OnceInv, CountInv, OpenInv
<1>11. ASSUME NEW d \in Calls, cpc[d] \in {"adding", "returned"}
       PROVE  /\ AllPass(d)' /\ DOMAIN output'[d] = DOMAIN items[d]
              /\ \A i \in DOMAIN items[d] \ Pending(d) : output'[d][i] = Encode[items[d][i]]
  <2>1. AllPass(d)'
    BY <1>1, <1>11 DEF OutputInv, AllPass
  <2>2. CASE d = c
    BY <1>3, <1>6, <1>11, <2>1, <2>2 DEF OutputInv
  <2>3. CASE d # c
    BY <1>5, <1>11, <2>1, <2>3 DEF OutputInv
  <2> QED
    BY <2>2, <2>3
<1>12. ASSUME NEW v \in Workers, wpc'[v] = "written"
       PROVE  output'[wjob[v].call][wjob[v].index] = Encode[wjob[v].input]
  <2>1. CASE v = w
    BY <1>6, <2>1 DEF c, k, h
  <2>2. CASE v # w
    <3>1. wpc[v] = "written" /\ Genuine(wjob[v])
      BY <1>8, <1>12, <2>2 DEF Holding, JobInv
    <3>2. output[wjob[v].call][wjob[v].index] = Encode[wjob[v].input] /\ wjob[v].call \in Calls
      BY <3>1 DEF OutputInv, Genuine, WorkItem
    <3>3. CASE wjob[v].call # c
      BY <1>5, <3>2, <3>3
    <3>4. CASE wjob[v].call = c
      <4>1. wjob[v].index \in 1 .. added[c] /\ added[c] <= Len(items[c]) /\ added[c] \in Nat
        BY <1>3, <3>1, <3>4 DEF Genuine, CountInv, TypeOK
      <4>2. wjob[v].index \in DOMAIN items[c]
        BY <1>3, <4>1, PendingFinite
      <4>3. wjob[v].index = k => Encode[wjob[v].input] = h
        BY <1>3, <3>1, <3>4 DEF Genuine
      <4> QED
        BY <1>6, <3>2, <3>4, <4>2, <4>3
    <3> QED
      BY <3>3, <3>4
  <2> QED
    BY <2>1, <2>2
<1>13. OutputInv'
  BY <1>1, <1>9, <1>11, <1>12 DEF OutputInv
<1> QED
  BY <1>7, <1>10, <1>13

LEMMA SignalKeeps ==
  ASSUME Inv, NEW w \in Workers, Signal(w)
  PROVE  Inv'
<1> USE DEF Inv
<1>1. /\ wpc[w] = "written" /\ Holding(w)
      /\ count' = [count EXCEPT ![wjob[w].call] = @ - 1]
      /\ wpc' = [wpc EXCEPT ![w] = "taking"] /\ wjob' = [wjob EXCEPT ![w] = NoItem]
      /\ UNCHANGED <<crashed, adding, disposed, jobs, cpc, items, added, output>>
  BY DEF Signal, callVars, Holding
<1>2. Genuine(wjob[w])
  BY <1>1 DEF JobInv
<1>3. PICK c \in Calls : c = wjob[w].call
  BY <1>2 DEF Genuine, WorkItem
<1>4. PICK i \in 1 .. added[c] : i = wjob[w].index
  BY <1>2, <1>3 DEF Genuine
<1>5. /\ wpc'[w] = "taking" /\ wjob'[w] = NoItem
      /\ \A v \in Workers : v # w => wpc'[v] = wpc[v] /\ wjob'[v] = wjob[v]
      /\ \A d \in Calls : d # c => count'[d] = count[d]
      /\ count'[c] = count[c] - 1
  BY <1>1, <1>3 DEF TypeOK
<1>6. ~ Holding(w)' /\ \A v \in Workers : v # w => Holding(v)' = Holding(v)
  BY <1>5 DEF Holding
<1>7. cpc[c] = "adding" /\ i \in 1 .. Len(items[c]) /\ i \in DOMAIN items[c]
  <2>1. cpc[c] = "adding" /\ added[c] <= Len(items[c]) /\ added[c] \in Nat
    BY <1>2, <1>3 DEF Genuine, CountInv, TypeOK
  <2> QED
    BY <2>1, PendingFinite
<1>8. /\ Held(c, i) /\ ~ Held(c, i)' /\ ~ Queued(c, i) /\ ~ (i > added[c])
      /\ \A d \in Calls : \A l : ~ (d = c /\ l = i) => Held(d, l)' = Held(d, l)
  <2>1. Held(c, i)
    BY <1>1, <1>3, <1>4 DEF Held
  <2>2. \A v \in Workers : Holding(v) /\ wjob[v].call = c /\ wjob[v].index = i => v = w
    BY <1>1, <1>3, <1>4 DEF OnceInv, Same
  <2>3. ~ Held(c, i)'
    BY <1>5, <1>6, <2>2 DEF Held
  <2>4. ~ Queued(c, i)
    BY <1>1, <1>3, <1>4 DEF OnceInv, Same, Queued
  <2>5. \A d \in Calls : \A l : ~ (d = c /\ l = i) => Held(d, l)' = Held(d, l)
    BY <1>3, <1>4, <1>5, <1>6 DEF Held
  <2>6. ~ (i > added[c])
    BY DEF TypeOK
  <2> QED
    BY <2>1, <2>3, <2>4, <2>5, <2>6
<1>9. /\ i \in Pending(c) /\ Pending(c)' = Pending(c) \ {i}
      /\ \A d \in Calls : d # c => Pending(d)' = Pending(d)
  <2>1. \A d, l : Queued(d, l)' = Queued(d, l)
    BY <1>1 DEF Queued
  <2> QED
    BY <1>1, <1>7, <1>8, <2>1 DEF Pending
<1>10. Cardinality(Pending(c)') = Cardinality(Pending(c)) - 1 /\ Cardinality(Pending(c)') \in Nat
  <2>1. Cardinality(Pending(c) \ {i}) = Cardinality(Pending(c)) - 1
    BY <1>9, PendingFinite, FS_RemoveElement
  <2>2. Cardinality(Pending(c) \ {i}) \in Nat
    BY PendingFinite, FS_RemoveElement, FS_CardinalityType
  <2> QED
    BY <1>9, <2>1, <2>2
<1>11. count'[c] = Cardinality(Pending(c)')
  <2>1. count[c] = Cardinality(Pending(c))
    BY <1>7 DEF CountInv
  <2> QED
    BY <1>5, <1>10, <2>1
<1>12. TypeOK'
  <2>1. count' = [count EXCEPT ![c] = @ - 1] /\ count[c] - 1 \in Nat
    BY <1>1, <1>3, <1>5, <1>10, <1>11
  <2>2. count' \in [Calls -> Nat]
    BY <2>1 DEF TypeOK
  <2> QED
    BY <1>1, <2>2 DEF TypeOK
<1>13. JobInv'
  <2>1. \A j : Genuine(j)' = Genuine(j)
    BY <1>1 DEF Genuine
  <2> QED
    BY <1>1, <1>5, <1>6, <2>1 DEF JobInv
<1>14. OnceInv'
  BY <1>1, <1>5, <1>6 DEF OnceInv
<1>15. CountInv'
  <2> SUFFICES ASSUME NEW d \in Calls
               PROVE  /\ cpc[d] \in {"new", "entered"} => added[d] = 0
                      /\ cpc[d] \in {"adding", "returned"} =>
                           added[d] <= Len(items[d]) /\ count'[d] = Cardinality(Pending(d)')
                      /\ cpc[d] = "returned" => Pending(d)' = {}
    BY <1>1 DEF CountInv
  <2>1. CASE d = c
    BY <1>7, <1>11, <2>1 DEF CountInv
  <2>2. CASE d # c
    <3>1. Pending(d)' = Pending(d) /\ count'[d] = count[d]
      BY <1>5, <1>9, <2>2
    <3> QED
      BY <3>1 DEF CountInv
  <2> QED
    BY <2>1, <2>2
<1>16. OutputInv'
  <2>1. output[c][i] = Encode[items[c][i]]
    BY <1>1, <1>2, <1>3, <1>4 DEF OutputInv, Genuine
  <2>2. ASSUME NEW d \in Calls, cpc[d] \in {"adding", "returned"}
        PROVE  /\ AllPass(d)' /\ DOMAIN output[d] = DOMAIN items[d]
               /\ \A l \in DOMAIN items[d] \ Pending(d)' : output[d][l] = Encode[items[d][l]]
    <3>1. AllPass(d)' /\ DOMAIN output[d] = DOMAIN items[d]
      BY <1>1, <2>2 DEF OutputInv, AllPass
    <3>2. CASE d = c
      BY <1>9, <2>1, <2>2, <3>1, <3>2 DEF OutputInv
    <3>3. CASE d # c
      BY <1>9, <2>2, <3>1, <3>3 DEF OutputInv
    <3> QED
      BY <3>2, <3>3
  <2>3. ASSUME NEW v \in Workers, wpc'[v] = "written"
        PROVE  output[wjob'[v].call][wjob'[v].index] = Encode[wjob'[v].input]
    BY <1>5, <2>3 DEF OutputInv
  <2> QED
    BY <1>1, <2>2, <2>3 DEF OutputInv
<1>17. OpenInv'
  BY <1>1 DEF OpenInv
<1> QED
  BY <1>12, <1>13, <1>14, <1>15, <1>16, <1>17

\* A thread that fails or ends holds what it held: nothing, if it ends.
LEMMA EndKeeps ==
  ASSUME Inv, NEW w \in Workers, Crash(w) \/ Exit(w)
  PROVE  Inv'
<1> USE DEF Inv
<1>1. UNCHANGED <<adding, disposed, jobs, cpc, items, added, count, output, wjob>>
  BY DEF Crash, Exit, callVars
<1>2. /\ TypeOK'
      /\ \A v \in Workers : Holding(v)' = Holding(v) /\ (wpc'[v] = "written" <=> wpc[v] = "written")
  <2>1. CASE Crash(w)
    <3>1. crashed' = TRUE /\ UNCHANGED wpc
      BY <2>1 DEF Crash
    <3>2. crashed' \in BOOLEAN
      BY <3>1
    <3> QED
      BY <1>1, <3>1, <3>2 DEF TypeOK, Holding
  <2>2. CASE Exit(w)
    <3>1. /\ wpc[w] = "taking" /\ UNCHANGED crashed
          /\ wpc' = [wpc EXCEPT ![w] = "exited"]
      BY <2>2 DEF Exit
    <3> QED
      BY <1>1, <3>1 DEF TypeOK, Holding
  <2> QED
    BY <2>1, <2>2
<1>3. /\ \A j : Genuine(j)' = Genuine(j)
      /\ \A d : Pending(d)' = Pending(d)
  BY <1>1, <1>2 DEF Genuine, Pending, Queued, Held
<1>4. JobInv' /\ OnceInv' /\ CountInv' /\ OpenInv'
  BY <1>1, <1>2, <1>3 DEF JobInv, OnceInv, CountInv, OpenInv
<1>5. OutputInv'
  BY <1>1, <1>2, <1>3 DEF OutputInv, AllPass
<1> QED
  BY <1>2, <1>4, <1>5

-----------------------------------------------------------------------------
(* All steps                                                                   *)

LEMMA DisposeKeeps ==
  ASSUME Inv, Dispose \/ Joined \/ UNCHANGED vars
  PROVE  Inv'
<1> USE DEF Inv
<1>1. UNCHANGED <<jobs, cpc, items, added, count, output, wpc, wjob>>
  BY DEF Dispose, Joined, vars, callVars
<1>2. TypeOK'
  BY DEF Dispose, Joined, vars, callVars, TypeOK
<1>3. OpenInv'
  <2>1. CASE Joined
    BY <2>1 DEF Joined, OpenInv, callVars
  <2>2. CASE ~ Joined
    BY <2>2 DEF Dispose, vars, callVars, OpenInv
  <2> QED
    BY <2>1, <2>2
<1>4. /\ \A v \in Workers : Holding(v)' = Holding(v)
      /\ \A j : Genuine(j)' = Genuine(j)
      /\ \A d : Pending(d)' = Pending(d)
  BY <1>1 DEF Holding, Genuine, Pending, Queued, Held
<1>5. JobInv' /\ OnceInv' /\ CountInv'
  BY <1>1, <1>4 DEF JobInv, OnceInv, CountInv
<1>6. OutputInv'
  BY <1>1, <1>4 DEF OutputInv, AllPass
<1> QED
  BY <1>2, <1>3, <1>5, <1>6

LEMMA InvStep == Inv /\ [Next]_vars => Inv'
BY CallKeeps, CallerKeeps, AddKeeps, TakeKeeps, WriteKeeps, SignalKeeps, EndKeeps, DisposeKeeps
   DEF Next, Caller, Worker, Stopped

LEMMA InvAlways == Spec => []Inv
BY InvInit, InvStep, PTL DEF Spec

-----------------------------------------------------------------------------
(* What follows                                                                *)

\* No thread has still to signal the event of a call that returned, or to write
\* to its array, however many threads there are and whatever other calls share
\* the queue (BatchEncoder.cs, where EncodeBatch disposes of the event).
THEOREM NothingSignalledLate == Spec => []NoSignalAfterDispose
<1>1. Inv => NoSignalAfterDispose
  BY DEF Inv, JobInv, Genuine, NoSignalAfterDispose
<1> QED
  BY <1>1, InvAlways, PTL

\* A call whose event is down to zero has all its hashes.
LEMMA AllWritten ==
  ASSUME Inv, NEW c \in Calls, cpc[c] = "adding", count[c] = 0
  PROVE  output[c] = [i \in DOMAIN items[c] |-> Encode[items[c][i]]]
<1> USE DEF Inv
<1>1. Cardinality(Pending(c)) = 0
  BY DEF CountInv
<1>2. Pending(c) = {}
  BY <1>1, PendingFinite, FS_EmptySet
<1>3. DOMAIN output[c] = DOMAIN items[c] /\ \A i \in DOMAIN items[c] : output[c][i] = Encode[items[c][i]]
  BY <1>2 DEF OutputInv
<1>4. output[c] = [i \in DOMAIN output[c] |-> output[c][i]]
  BY LenProperties DEF TypeOK
<1> QED
  BY <1>3, <1>4

\* What the pool shows of itself starts and goes on as a batch encoder does.
LEMMA RefinesInit == Init => Abstract!Init
BY DEF Init, Abstract!Init, Status

LEMMA RefinesStep ==
  ASSUME Inv, [Next]_vars
  PROVE  [Abstract!Next]_(Abstract!vars)
<1> DEFINE open == disposed = "no"
           status == [c \in Calls |-> Status(c)]
           result == [c \in Calls |-> IF cpc[c] = "returned" THEN output[c] ELSE <<>>]
<1> USE DEF Inv
<1>0. \A c \in Calls : AllPass(c) <=> ~ Abstract!HasInvalid(items[c])
  <2> SUFFICES ASSUME NEW c \in Calls, NEW i \in DOMAIN items[c] PROVE items[c][i] \in Images
    BY DEF AllPass, Abstract!HasInvalid, Abstract!ItemsOf
  <2> QED
    BY PendingFinite, ElementOfSeq DEF TypeOK
<1>1. ASSUME NEW c \in Calls, NEW b \in Batches, Call(c, b) PROVE Abstract!Call(c, b)
  <2>1. /\ cpc[c] = "new" /\ cpc' = [cpc EXCEPT ![c] = "entered"]
        /\ items' = [items EXCEPT ![c] = b] /\ UNCHANGED <<disposed, output>>
    BY <1>1 DEF Call
  <2>2. cpc'[c] = "entered" /\ \A d \in Calls : d # c => cpc'[d] = cpc[d]
    BY <2>1 DEF TypeOK
  <2>3. status[c] = "new" /\ status' = [status EXCEPT ![c] = "running"]
    BY <2>1, <2>2 DEF Status
  <2>4. result' = result
    BY <2>1, <2>2
  <2> QED
    BY <2>1, <2>3, <2>4 DEF Abstract!Call
<1>2. ASSUME NEW c \in Calls, Throw(c) PROVE Abstract!Fail(c)
  <2>1. /\ cpc[c] = "entered" /\ cpc' = [cpc EXCEPT ![c] = "threw"]
        /\ UNCHANGED <<disposed, items, output>>
    BY <1>2 DEF Throw
  <2>2. cpc'[c] = "threw" /\ \A d \in Calls : d # c => cpc'[d] = cpc[d]
    BY <2>1 DEF TypeOK
  <2>3. status[c] = "running" /\ status' = [status EXCEPT ![c] = "failed"]
    BY <2>1, <2>2 DEF Status
  <2>4. result' = result
    BY <2>1, <2>2
  <2>5. Abstract!HasInvalid(items[c]) \/ ~ open
    BY <1>0, <1>2 DEF Throw
  <2> QED
    BY <2>1, <2>3, <2>4, <2>5 DEF Abstract!Fail
<1>3. ASSUME NEW c \in Calls, Accept(c)
      PROVE  Abstract!Return(c) \/ UNCHANGED <<open, status, items, result>>
  <2>1. /\ cpc[c] = "entered" /\ open /\ AllPass(c)
        /\ cpc' = [cpc EXCEPT ![c] = IF items[c] = <<>> THEN "returned" ELSE "adding"]
        /\ output' = [output EXCEPT ![c] = [i \in DOMAIN items[c] |-> Null]]
        /\ UNCHANGED <<disposed, items>>
    BY <1>3 DEF Accept
  <2>2. /\ cpc'[c] = IF items[c] = <<>> THEN "returned" ELSE "adding"
        /\ output'[c] = [i \in DOMAIN items[c] |-> Null]
        /\ \A d \in Calls : d # c => cpc'[d] = cpc[d] /\ output'[d] = output[d]
    BY <2>1 DEF TypeOK
  <2>3. CASE items[c] # <<>>
    <3>1. status' = status /\ result' = result
      BY <2>1, <2>2, <2>3 DEF Status
    <3> QED
      BY <2>1, <3>1
  <2>4. CASE items[c] = <<>>
    <3>1. DOMAIN items[c] = {}
      BY <2>4
    <3>2. output'[c] = [i \in DOMAIN items[c] |-> Encode[items[c][i]]]
      BY <2>2, <3>1
    <3>3. status[c] = "running" /\ status' = [status EXCEPT ![c] = "returned"]
      <4>1. cpc'[c] = "returned"
        BY <2>2, <2>4
      <4>2. \A d \in Calls : d # c => cpc'[d] = cpc[d]
        BY <2>2
      <4> QED
        BY <2>1, <4>1, <4>2 DEF Status
    <3>4. result' = [result EXCEPT ![c] = [i \in DOMAIN items[c] |-> Encode[items[c][i]]]]
      BY <2>1, <2>2, <2>4, <3>2
    <3> QED
      BY <1>0, <2>1, <3>3, <3>4 DEF Abstract!Return
  <2> QED
    BY <2>3, <2>4
<1>4. ASSUME NEW c \in Calls, Return(c) PROVE Abstract!Return(c)
  <2>1. /\ cpc[c] = "adding" /\ count[c] = 0
        /\ cpc' = [cpc EXCEPT ![c] = "returned"] /\ UNCHANGED <<disposed, items, output>>
    BY <1>4 DEF Return
  <2>2. cpc'[c] = "returned" /\ \A d \in Calls : d # c => cpc'[d] = cpc[d]
    BY <2>1 DEF TypeOK
  <2>3. output[c] = [i \in DOMAIN items[c] |-> Encode[items[c][i]]]
    BY <2>1, AllWritten
  <2>4. status[c] = "running" /\ status' = [status EXCEPT ![c] = "returned"]
    BY <2>1, <2>2 DEF Status
  <2>5. result' = [result EXCEPT ![c] = [i \in DOMAIN items[c] |-> Encode[items[c][i]]]]
    BY <2>1, <2>2, <2>3
  <2>6. open /\ ~ Abstract!HasInvalid(items[c])
    BY <1>0, <2>1 DEF OpenInv, OutputInv
  <2> QED
    BY <2>1, <2>4, <2>5, <2>6 DEF Abstract!Return
<1>5. CASE Dispose
  <2>1. /\ open /\ ~ open' /\ UNCHANGED <<cpc, items, output>>
        /\ \A c \in Calls : Status(c) # "running"
    BY <1>5 DEF Dispose, Status, callVars
  <2>2. status' = status /\ result' = result
    BY <2>1 DEF Status
  <2>3. Abstract!Close
    BY <2>1, <2>2 DEF Abstract!Close
  <2> QED
    BY <2>3 DEF Abstract!Next
<1>6. ASSUME NEW w \in Workers, Worker(w) PROVE UNCHANGED <<open, status, items, result>>
  <2>1. UNCHANGED <<disposed, cpc, items>>
    BY <1>6 DEF Worker, Take, Write, Signal, Crash, Exit, callVars
  <2>2. \A c \in Calls : cpc[c] = "returned" => output'[c] = output[c]
    <3>1. CASE Write(w)
      <4>1. cpc[wjob[w].call] = "adding" /\ wjob[w].call \in Calls
        BY <3>1 DEF Write, JobInv, Holding, Genuine, WorkItem
      <4> QED
        BY <3>1, <4>1 DEF Write, TypeOK
    <3>2. CASE ~ Write(w)
      BY <1>6, <3>2 DEF Worker, Take, Signal, Crash, Exit
    <3> QED
      BY <3>1, <3>2
  <2> QED
    BY <2>1, <2>2 DEF Status
<1>7. ASSUME NEW c \in Calls, Add(c) PROVE UNCHANGED <<open, status, items, result>>
  BY <1>7 DEF Add, Status
<1>8. CASE Joined
  BY <1>8 DEF Joined, callVars, Status, Abstract!vars
<1>9. CASE UNCHANGED vars
  BY <1>9 DEF vars, callVars, Status, Abstract!vars
<1>10. UNCHANGED <<open, status, items, result>> => UNCHANGED Abstract!vars
  BY DEF Abstract!vars
<1> QED
  BY <1>1, <1>2, <1>3, <1>4, <1>5, <1>6, <1>7, <1>8, <1>9, <1>10
     DEF Next, Caller, Stopped, Abstract!Next

\* The pool implements the promise of a batch encoder: every call returns the
\* hashes of exactly its images, in order, or throws for a reason it may have,
\* though other calls share the queue and the threads (BatchEncoder.cs,
\* EncodeBatch and Dispose against their comments).
THEOREM CSharpImplementsBatch == Spec => Refines
<1>1. Inv /\ [Next]_vars => [Abstract!Next]_(Abstract!vars)
  BY RefinesStep
<1> QED
  BY <1>1, RefinesInit, InvAlways, PTL DEF Spec, Refines, Abstract!Spec
=============================================================================
