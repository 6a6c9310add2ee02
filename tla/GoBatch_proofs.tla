--------------------------- MODULE GoBatch_proofs ---------------------------
(***************************************************************************)
(* What holds of the Go batch pool for every set of calls and slices and   *)
(* any finite number of goroutines: it implements BatchSpec, and a slice   *)
(* that was returned is the caller's alone.                                *)
(***************************************************************************)
EXTENDS GoBatch, FiniteSetTheorems, SequenceTheorems, TLAPS

\* Replacing an element of a sequence by another of its set.
LEMMA ReplaceInSlice ==
  ASSUME NEW S, NEW s \in Seq(S), NEW k, NEW e \in S
  PROVE  /\ [s EXCEPT ![k] = e] \in Seq(S)
         /\ DOMAIN [s EXCEPT ![k] = e] = DOMAIN s
<1>1. CASE k \in DOMAIN s
  BY <1>1, ExceptSeq, LenProperties
<1>2. CASE k \notin DOMAIN s
  <2>1. [s EXCEPT ![k] = e] = s
    BY <1>2, LenProperties
  <2> QED
    BY <2>1
<1> QED
  BY <1>1, <1>2

\* A slice of one hash for each item.
LEMMA SliceType ==
  ASSUME NEW S, NEW s \in Seq(S), NEW T, NEW e \in T
  PROVE  [i \in DOMAIN s |-> e] \in Seq(T)
<1>1. DOMAIN s = 1 .. Len(s) /\ Len(s) \in Nat
  BY LenProperties
<1> QED
  BY <1>1, IsASeq

LEMMA TypeInit == Init => TypeOK
<1> SUFFICES ASSUME Init PROVE TypeOK
  OBVIOUS
<1>1. <<>> \in Seq(Images) /\ <<>> \in Seq(Hashes \cup {Zero})
  BY EmptySeq
<1> QED
  BY <1>1 DEF Init, TypeOK, NoJob

LEMMA TypeStep == TypeOK /\ [Next]_vars => TypeOK'
<1> SUFFICES ASSUME TypeOK, [Next]_vars PROVE TypeOK'
  OBVIOUS
<1> USE DEF TypeOK, ownerVars
<1>1. ASSUME NEW c \in Calls, NEW b \in Batches, Call(c, b) PROVE TypeOK'
  <2>1. b \in Seq(Images)
    BY BatchesAssumption
  <2> QED
    BY <1>1, <2>1 DEF Call
<1>2. ASSUME NEW c \in Calls, Refuse(c) PROVE TypeOK'
  BY <1>2 DEF Refuse
<1>3. ASSUME NEW c \in Calls, Accept(c) PROVE TypeOK'
  <2>1. [i \in DOMAIN items[c] |-> Zero] \in Seq(Hashes \cup {Zero})
    BY SliceType
  <2> QED
    BY <1>3, <2>1 DEF Accept
<1>4. ASSUME NEW c \in Calls, NEW w \in Workers, Hand(c, w) PROVE TypeOK'
  <2> DEFINE n == sent[c] + 1
             j == [call |-> c, index |-> n, input |-> items[c][n]]
  <2>1. n \in 1 .. Len(items[c])
    BY <1>4, LenProperties DEF Hand
  <2>2. j \in Job
    BY <2>1, ElementOfSeq DEF Job
  <2>3. sent' \in [Calls -> Nat]
    BY <1>4 DEF Hand
  <2> HIDE DEF n, j
  <2> QED
    BY <1>4, <2>2, <2>3 DEF Hand, n, j
<1>5. ASSUME NEW c \in Calls, Drain(c) PROVE TypeOK'
  BY <1>5 DEF Drain
<1>6. ASSUME NEW c \in Calls, Return(c) PROVE TypeOK'
  BY <1>6 DEF Return
<1>7. CASE Close
  <2>1. CASE closed
    BY <1>7, <2>1 DEF Close
  <2>2. CASE ~ closed
    <3>1. closed' = TRUE /\ closes' = closes + 1
      BY <1>7, <2>2 DEF Close
    <3>2. closed' \in BOOLEAN
      BY <3>1
    <3> QED
      BY <1>7, <3>1, <3>2 DEF Close
  <2> QED
    BY <2>1, <2>2
<1>8. ASSUME NEW w \in Workers, Write(w) PROVE TypeOK'
  <2>1. CASE wjob[w] \in Job
    <3>1. wjob[w].call \in Calls /\ Encode[wjob[w].input] \in Hashes \cup {Zero}
      BY <2>1 DEF Job, Hashes
    <3>2. [out[wjob[w].call] EXCEPT ![wjob[w].index] = Encode[wjob[w].input]] \in Seq(Hashes \cup {Zero})
      BY <3>1, ReplaceInSlice
    <3> QED
      BY <1>8, <3>1, <3>2 DEF Write
  <2>2. CASE wjob[w].call \notin Calls
    BY <1>8, <2>2 DEF Write
  <2>3. CASE wjob[w].call \in Calls /\ wjob[w] = NoJob
    <3>1. wjob[w].input \in Images
      BY <1>8, ImagesAssumption DEF Write
    <3>2. Encode[wjob[w].input] \in Hashes \cup {Zero}
      BY <3>1 DEF Hashes
    <3>3. [out[wjob[w].call] EXCEPT ![wjob[w].index] = Encode[wjob[w].input]] \in Seq(Hashes \cup {Zero})
      BY <2>3, <3>2, ReplaceInSlice
    <3> QED
      BY <1>8, <2>3, <3>3 DEF Write
  <2> QED
    BY <2>1, <2>2, <2>3
<1>9. ASSUME NEW w \in Workers, Signal(w) PROVE TypeOK'
  <2>1. done' \in [Calls -> Nat]
    <3>1. done' = [done EXCEPT ![wjob[w].call] = @ + 1]
      BY <1>9 DEF Signal
    <3>2. CASE wjob[w].call \in Calls
      BY <3>1, <3>2
    <3>3. CASE wjob[w].call \notin Calls
      <4>1. done' = done
        BY <3>1, <3>3
      <4> QED
        BY <4>1
    <3> QED
      BY <3>2, <3>3
  <2>2. wjob' \in [Workers -> Job \cup {NoJob}] /\ wpc' \in [Workers -> {"waiting", "encoding", "written", "exited"}]
    BY <1>9 DEF Signal
  <2> QED
    BY <1>9, <2>1, <2>2 DEF Signal
<1>10. ASSUME NEW w \in Workers, Crash(w) \/ Exit(w) PROVE TypeOK'
  BY <1>10 DEF Crash, Exit
<1>11. CASE UNCHANGED vars
  BY <1>11 DEF vars
<1> QED
  BY <1>1, <1>2, <1>3, <1>4, <1>5, <1>6, <1>7, <1>8, <1>9, <1>10, <1>11
     DEF Next, Owner, Worker, Stopped

-----------------------------------------------------------------------------
(* The invariant. That no goroutine holds the slice of a call that returned    *)
(* rests on counting: an item that was handed over is with a goroutine, or it  *)
(* is a signal, buffered or taken.                                             *)

Holding(w) == wpc[w] \in {"encoding", "written"}
Holders(c) == {w \in Workers : Holding(w) /\ wjob[w].call = c}

\* A goroutine has a job exactly between its receive and its signal, and the job
\* is what was handed over of a call that is still sending.
JobInv ==
  \A w \in Workers :
    /\ ~ Holding(w) => wjob[w] = NoJob
    /\ Holding(w) =>
         /\ wjob[w] \in Job
         /\ opc[wjob[w].call] = "sending"
         /\ wjob[w].index \in 1 .. sent[wjob[w].call]
         /\ wjob[w].input = items[wjob[w].call][wjob[w].index]

CountInv ==
  \A c \in Calls :
    /\ sent[c] = got[c] + done[c] + Cardinality(Holders(c))
    /\ opc[c] \in {"new", "entered"} => sent[c] = 0
    /\ opc[c] = "sending" => ~ closed /\ sent[c] <= Len(items[c])
    /\ opc[c] = "returned" => sent[c] = Len(items[c])

\* What was handed over is written, or with a goroutine that has yet to write it.
OutInv ==
  \A c \in Calls : opc[c] \in {"sending", "returned"} =>
    /\ DOMAIN out[c] = DOMAIN items[c]
    /\ \A i \in DOMAIN items[c] : items[c][i] \in Valid
    /\ \A i \in 1 .. sent[c] :
         \/ out[c][i] = Encode[items[c][i]]
         \/ \E w \in Holders(c) : wpc[w] = "encoding" /\ wjob[w].index = i

Inv == TypeOK /\ JobInv /\ CountInv /\ OutInv

LEMMA HoldersFinite ==
  \A c : IsFiniteSet(Holders(c)) /\ Cardinality(Holders(c)) \in Nat
<1> SUFFICES ASSUME NEW c PROVE IsFiniteSet(Holders(c)) /\ Cardinality(Holders(c)) \in Nat
  OBVIOUS
<1>1. Holders(c) \subseteq Workers
  BY DEF Holders
<1> QED
  BY <1>1, WorkersAssumption, FS_Subset, FS_CardinalityType

LEMMA InvInit == Init => Inv
<1> SUFFICES ASSUME Init PROVE Inv
  OBVIOUS
<1>1. \A c \in Calls : Holders(c) = {}
  BY DEF Init, Holders, Holding
<1>2. Cardinality({}) = 0
  BY FS_EmptySet
<1>3. CountInv
  <2> SUFFICES ASSUME NEW c \in Calls
               PROVE  /\ opc[c] = "new" /\ sent[c] = 0 /\ got[c] = 0 /\ done[c] = 0
                      /\ Cardinality(Holders(c)) = 0
    BY DEF CountInv
  <2> QED
    BY <1>1, <1>2 DEF Init
<1>4. JobInv /\ OutInv
  BY DEF Init, JobInv, OutInv, Holding
<1> QED
  BY <1>3, <1>4, TypeInit DEF Inv

\* Steps of the owner that leave the goroutines alone.
LEMMA OwnerKeeps ==
  ASSUME Inv, NEW c \in Calls,
         (\E b \in Batches : Call(c, b)) \/ Refuse(c) \/ Accept(c) \/ Drain(c) \/ Return(c)
  PROVE  JobInv' /\ CountInv' /\ OutInv'
<1> USE DEF Inv
<1>1. UNCHANGED <<wpc, wjob, sent, closed>> /\ \A d : Holders(d)' = Holders(d)
  <2>1. UNCHANGED <<wpc, wjob, sent, closed>>
    BY DEF Call, Refuse, Accept, Drain, Return
  <2> QED
    BY <2>1 DEF Holders, Holding
<1>2. CASE \E b \in Batches : Call(c, b)
  <2>1. PICK b \in Batches : Call(c, b)
    BY <1>2
  <2>2. /\ opc[c] = "new" /\ opc' = [opc EXCEPT ![c] = "entered"]
        /\ items' = [items EXCEPT ![c] = b] /\ UNCHANGED <<out, got, done>>
    BY <2>1 DEF Call
  <2>3. \A d \in Calls : d # c => opc'[d] = opc[d] /\ items'[d] = items[d]
    BY <2>2 DEF TypeOK
  <2>4. opc'[c] = "entered"
    BY <2>2 DEF TypeOK
  <2>5. JobInv'
    <3> SUFFICES ASSUME NEW w \in Workers
                 PROVE  /\ ~ Holding(w)' => wjob'[w] = NoJob
                        /\ Holding(w)' =>
                             /\ wjob'[w] \in Job
                             /\ opc'[wjob'[w].call] = "sending"
                             /\ wjob'[w].index \in 1 .. sent'[wjob'[w].call]
                             /\ wjob'[w].input = items'[wjob'[w].call][wjob'[w].index]
      BY DEF JobInv
    <3>1. Holding(w)' = Holding(w) /\ wjob'[w] = wjob[w]
      BY <1>1 DEF Holding
    <3>2. Holding(w) => wjob[w].call \in Calls /\ wjob[w].call # c
      BY <2>2 DEF JobInv, Job
    <3> QED
      BY <1>1, <2>3, <3>1, <3>2 DEF JobInv
  <2>6. CountInv'
    BY <1>1, <2>2, <2>3, <2>4 DEF CountInv
  <2>7. OutInv'
    BY <1>1, <2>2, <2>3, <2>4 DEF OutInv
  <2> QED
    BY <2>5, <2>6, <2>7
<1>3. CASE Refuse(c)
  <2>1. opc[c] = "entered" /\ opc' = [opc EXCEPT ![c] = "panicked"] /\ UNCHANGED <<items, out, got, done>>
    BY <1>3 DEF Refuse
  <2>2. opc'[c] = "panicked" /\ \A d \in Calls : d # c => opc'[d] = opc[d]
    BY <2>1 DEF TypeOK
  <2>3. JobInv'
    <3>1. \A w \in Workers : Holding(w) => wjob[w].call \in Calls /\ wjob[w].call # c
      BY <2>1 DEF JobInv, Job
    <3> QED
      BY <1>1, <2>1, <2>2, <3>1 DEF JobInv, Holding
  <2>4. CountInv' /\ OutInv'
    BY <1>1, <2>1, <2>2 DEF CountInv, OutInv
  <2> QED
    BY <2>3, <2>4
<1>4. CASE Accept(c)
  <2>1. /\ opc[c] = "entered" /\ ~ closed /\ \A i \in DOMAIN items[c] : items[c][i] \in Valid
        /\ opc' = [opc EXCEPT ![c] = IF items[c] = <<>> THEN "returned" ELSE "sending"]
        /\ out' = [out EXCEPT ![c] = [i \in DOMAIN items[c] |-> Zero]]
        /\ UNCHANGED <<items, got, done>>
    BY <1>4 DEF Accept
  <2>2. /\ opc'[c] = IF items[c] = <<>> THEN "returned" ELSE "sending"
        /\ out'[c] = [i \in DOMAIN items[c] |-> Zero]
        /\ \A d \in Calls : d # c => opc'[d] = opc[d] /\ out'[d] = out[d]
    BY <2>1 DEF TypeOK
  <2>3. sent[c] = 0 /\ Len(items[c]) \in Nat /\ (items[c] = <<>> => Len(items[c]) = 0)
    BY <2>1, LenProperties, EmptySeq DEF CountInv, TypeOK
  <2>4. JobInv'
    <3>1. \A w \in Workers : Holding(w) => wjob[w].call \in Calls /\ wjob[w].call # c
      BY <2>1 DEF JobInv, Job
    <3> QED
      BY <1>1, <2>1, <2>2, <3>1 DEF JobInv, Holding
  <2>5. CountInv'
    BY <1>1, <2>1, <2>2, <2>3 DEF CountInv
  <2>6. OutInv'
    BY <1>1, <2>1, <2>2, <2>3 DEF OutInv
  <2> QED
    BY <2>4, <2>5, <2>6
<1>5. CASE Drain(c)
  <2>1. /\ done[c] > 0 /\ done' = [done EXCEPT ![c] = @ - 1] /\ got' = [got EXCEPT ![c] = @ + 1]
        /\ UNCHANGED <<opc, items, out>>
    BY <1>5 DEF Drain
  <2>2. \A d \in Calls : got'[d] + done'[d] = got[d] + done[d]
    BY <2>1 DEF TypeOK
  <2>3. \A d \in Calls : Cardinality(Holders(d)) \in Nat
    BY HoldersFinite
  <2>4. CountInv'
    <3> SUFFICES ASSUME NEW d \in Calls PROVE sent[d] = got'[d] + done'[d] + Cardinality(Holders(d))
      BY <1>1, <2>1 DEF CountInv
    <3>1. sent[d] = got[d] + done[d] + Cardinality(Holders(d))
      BY DEF CountInv
    <3> QED
      BY <2>2, <3>1
  <2>5. JobInv' /\ OutInv'
    BY <1>1, <2>1 DEF JobInv, OutInv, Holding
  <2> QED
    BY <2>4, <2>5
<1>6. CASE Return(c)
  <2>1. /\ opc[c] = "sending" /\ sent[c] = Len(items[c]) /\ got[c] = Len(items[c])
        /\ opc' = [opc EXCEPT ![c] = "returned"] /\ UNCHANGED <<items, out, got, done>>
    BY <1>6 DEF Return
  <2>2. opc'[c] = "returned" /\ \A d \in Calls : d # c => opc'[d] = opc[d]
    BY <2>1 DEF TypeOK
  <2>3. Holders(c) = {}
    <3>1. Cardinality(Holders(c)) = 0
      BY <2>1, HoldersFinite DEF CountInv, TypeOK
    <3> QED
      BY <3>1, HoldersFinite, FS_EmptySet
  <2>4. JobInv'
    <3>1. \A w \in Workers : Holding(w) => wjob[w].call \in Calls /\ wjob[w].call # c
      BY <2>3 DEF JobInv, Job, Holders
    <3> QED
      BY <1>1, <2>1, <2>2, <3>1 DEF JobInv, Holding
  <2>5. CountInv' /\ OutInv'
    BY <1>1, <2>1, <2>2 DEF CountInv, OutInv
  <2> QED
    BY <2>4, <2>5
<1> QED
  BY <1>2, <1>3, <1>4, <1>5, <1>6

LEMMA CloseKeeps ==
  ASSUME Inv, Close
  PROVE  JobInv' /\ CountInv' /\ OutInv'
<1> USE DEF Inv
<1>1. /\ UNCHANGED <<opc, items, sent, done, got, out, wpc, wjob>>
      /\ \A c \in Calls : opc[c] # "sending"
  BY DEF Close, OwnerFree
<1>2. \A c : Holders(c)' = Holders(c)
  BY <1>1 DEF Holders, Holding
<1> QED
  BY <1>1, <1>2 DEF JobInv, CountInv, OutInv, Holding

LEMMA HandKeeps ==
  ASSUME Inv, NEW c \in Calls, NEW w \in Workers, Hand(c, w)
  PROVE  JobInv' /\ CountInv' /\ OutInv'
<1> USE DEF Inv
<1> DEFINE n == sent[c] + 1
           j == [call |-> c, index |-> n, input |-> items[c][n]]
<1>1. /\ opc[c] = "sending" /\ sent[c] < Len(items[c]) /\ wpc[w] = "waiting"
      /\ UNCHANGED <<closed, opc, items, done, got, out>>
  BY DEF Hand
<1>2. /\ wjob'[w] = j /\ wpc'[w] = "encoding" /\ sent'[c] = n
      /\ \A v \in Workers : v # w => wjob'[v] = wjob[v] /\ wpc'[v] = wpc[v]
      /\ \A d \in Calls : d # c => sent'[d] = sent[d]
  BY DEF Hand, TypeOK
<1>3. n \in Nat /\ n \in 1 .. Len(items[c]) /\ DOMAIN items[c] = 1 .. Len(items[c])
  BY <1>1, LenProperties DEF TypeOK
<1>4. j \in Job /\ j.call = c /\ j.index = n /\ j.input = items[c][n]
  BY <1>3, ElementOfSeq DEF Job, TypeOK
<1> HIDE DEF n, j
<1>5. /\ ~ Holding(w) /\ Holding(w)'
      /\ \A v \in Workers : v # w => Holding(v)' = Holding(v)
  BY <1>1, <1>2 DEF Holding
<1>6. /\ w \notin Holders(c) /\ Holders(c)' = Holders(c) \cup {w}
      /\ \A d \in Calls : d # c => Holders(d)' = Holders(d)
  BY <1>2, <1>4, <1>5 DEF Holders
<1>7. JobInv'
  <2>1. \A v \in Workers : v # w /\ Holding(v) => wjob[v].call \in Calls
    BY DEF JobInv, Job
  <2>2. \A d \in Calls : \A x \in 1 .. sent[d] : x \in 1 .. sent'[d]
    <3> SUFFICES ASSUME NEW d \in Calls PROVE sent[d] \in Nat /\ sent'[d] \in Nat /\ sent[d] <= sent'[d]
      OBVIOUS
    <3>1. sent[d] \in Nat /\ sent[c] \in Nat
      BY DEF TypeOK
    <3> QED
      BY <1>2, <3>1 DEF n
  <2>3. n \in 1 .. sent'[c]
    BY <1>2, <1>3
  <2> QED
    BY <1>1, <1>2, <1>4, <1>5, <2>1, <2>2, <2>3 DEF JobInv
<1>8. CountInv'
  <2>1. Cardinality(Holders(c)') = Cardinality(Holders(c)) + 1
    BY <1>6, HoldersFinite, FS_AddElement
  <2>2. Cardinality(Holders(c)) \in Nat /\ got[c] \in Nat /\ done[c] \in Nat /\ sent[c] \in Nat
    BY HoldersFinite DEF TypeOK
  <2>3. sent'[c] = got[c] + done[c] + Cardinality(Holders(c)')
    BY <1>2, <2>1, <2>2 DEF n, CountInv
  <2>4. sent'[c] <= Len(items[c])
    BY <1>2, <1>3
  <2> QED
    BY <1>1, <1>2, <1>6, <2>3, <2>4 DEF CountInv
<1>9. OutInv'
  <2> SUFFICES ASSUME NEW d \in Calls, opc[d] \in {"sending", "returned"}, NEW i \in 1 .. sent'[d]
               PROVE  \/ out[d][i] = Encode[items[d][i]]
                      \/ \E v \in Holders(d)' : wpc'[v] = "encoding" /\ wjob'[v].index = i
    BY <1>1 DEF OutInv
  <2>1. CASE i \in 1 .. sent[d]
    <3>1. \A v \in Holders(d) : v # w
      BY <1>5 DEF Holders
    <3>2. Holders(d) \subseteq Holders(d)' /\ Holders(d) \subseteq Workers
      BY <1>6 DEF Holders
    <3> QED
      BY <1>2, <2>1, <3>1, <3>2 DEF OutInv
  <2>2. CASE i \notin 1 .. sent[d]
    <3>1. d = c /\ i = n
      BY <1>2, <2>2 DEF n, TypeOK
    <3> QED
      BY <1>2, <1>4, <1>6, <3>1
  <2> QED
    BY <2>1, <2>2
<1> QED
  BY <1>7, <1>8, <1>9

LEMMA WorkerKeeps ==
  ASSUME Inv, NEW w \in Workers, Worker(w)
  PROVE  JobInv' /\ CountInv' /\ OutInv'
<1> USE DEF Inv
<1>0. UNCHANGED <<closed, opc, items, sent, got>>
  BY DEF Worker, Write, Signal, Crash, Exit, ownerVars
<1>1. CASE Write(w)
  <2> DEFINE c == wjob[w].call
             k == wjob[w].index
  <2>1. /\ Holding(w) /\ UNCHANGED <<done, wjob>>
        /\ out' = [out EXCEPT ![c] = [@ EXCEPT ![k] = Encode[wjob[w].input]]]
    BY <1>1 DEF Write, Holding
  <2>2. /\ c \in Calls /\ opc[c] = "sending" /\ k \in 1 .. sent[c] /\ wjob[w].input = items[c][k]
    BY <2>1 DEF JobInv, Job
  <2> HIDE DEF c, k
  <2>3. wpc'[w] = "written" /\ \A v \in Workers : v # w => wpc'[v] = wpc[v]
    BY <1>1 DEF Write, TypeOK
  <2>4. \A v \in Workers : Holding(v)' = Holding(v)
    BY <2>1, <2>3 DEF Holding
  <2>5. \A d : Holders(d)' = Holders(d)
    BY <2>1, <2>4 DEF Holders
  <2>6. JobInv' /\ CountInv'
    BY <1>0, <2>1, <2>4, <2>5 DEF JobInv, CountInv
  <2>7. DOMAIN items[c] = 1 .. Len(items[c]) /\ sent[c] <= Len(items[c]) /\ DOMAIN out[c] = DOMAIN items[c]
    BY <2>2, LenProperties DEF CountInv, OutInv, TypeOK
  <2>8. k \in DOMAIN out[c]
    BY <2>2, <2>7 DEF TypeOK
  <2>9. /\ out'[c] = [out[c] EXCEPT ![k] = Encode[items[c][k]]]
        /\ \A d \in Calls : d # c => out'[d] = out[d]
    BY <2>1, <2>2 DEF TypeOK
  <2>10. /\ DOMAIN out'[c] = DOMAIN out[c] /\ out'[c][k] = Encode[items[c][k]]
         /\ \A i \in DOMAIN out[c] : i # k => out'[c][i] = out[c][i]
    BY <2>8, <2>9
  <2>11. OutInv'
    <3> SUFFICES ASSUME NEW d \in Calls, opc[d] \in {"sending", "returned"}
                 PROVE  /\ DOMAIN out'[d] = DOMAIN items[d]
                        /\ \A i \in 1 .. sent[d] :
                             \/ out'[d][i] = Encode[items[d][i]]
                             \/ \E v \in Holders(d) : wpc'[v] = "encoding" /\ wjob[v].index = i
      BY <1>0, <2>1, <2>5 DEF OutInv
    <3>1. CASE d = c
      <4> SUFFICES ASSUME NEW i \in 1 .. sent[c], i # k
                   PROVE  \/ out'[c][i] = Encode[items[c][i]]
                          \/ \E v \in Holders(c) : wpc'[v] = "encoding" /\ wjob[v].index = i
        BY <2>7, <2>10, <3>1
      <4>1. i \in DOMAIN out[c]
        BY <2>2, <2>7 DEF TypeOK
      <4>2. CASE out[c][i] = Encode[items[c][i]]
        BY <2>10, <4>1, <4>2
      <4>3. CASE \E v \in Holders(c) : wpc[v] = "encoding" /\ wjob[v].index = i
        <5>1. PICK v \in Holders(c) : wpc[v] = "encoding" /\ wjob[v].index = i
          BY <4>3
        <5>2. v # w /\ v \in Workers
          BY <5>1 DEF Holders, k
        <5> QED
          BY <2>3, <5>1, <5>2
      <4> QED
        BY <2>2, <4>2, <4>3 DEF OutInv
    <3>2. CASE d # c
      <4>1. \A v \in Holders(d) : v \in Workers /\ v # w
        BY <3>2 DEF Holders, c
      <4> QED
        BY <2>3, <2>9, <3>2, <4>1 DEF OutInv
    <3> QED
      BY <3>1, <3>2
  <2> QED
    BY <2>6, <2>11
<1>2. CASE Signal(w)
  <2>1. wpc[w] = "written" /\ Holding(w) /\ UNCHANGED out
    BY <1>2 DEF Signal, Holding
  <2>2. PICK c \in Calls : c = wjob[w].call
    BY <2>1 DEF JobInv, Job
  <2>3. /\ done'[c] = done[c] + 1 /\ wpc'[w] = "waiting" /\ wjob'[w] = NoJob
        /\ \A d \in Calls : d # c => done'[d] = done[d]
        /\ \A v \in Workers : v # w => wpc'[v] = wpc[v] /\ wjob'[v] = wjob[v]
    BY <1>2, <2>2 DEF Signal, TypeOK
  <2>4. ~ Holding(w)' /\ \A v \in Workers : v # w => Holding(v)' = Holding(v)
    BY <2>3 DEF Holding
  <2>5. /\ w \in Holders(c) /\ Holders(c)' = Holders(c) \ {w}
        /\ \A d \in Calls : d # c => Holders(d)' = Holders(d)
    BY <2>1, <2>2, <2>3, <2>4 DEF Holders
  <2>6. JobInv'
    BY <1>0, <2>3, <2>4 DEF JobInv
  <2>7. CountInv'
    <3>1. Cardinality(Holders(c)') = Cardinality(Holders(c)) - 1
      BY <2>5, HoldersFinite, FS_RemoveElement
    <3>2. Cardinality(Holders(c)) \in Nat /\ got[c] \in Nat /\ done[c] \in Nat /\ sent[c] \in Nat
      BY <2>2, HoldersFinite DEF TypeOK
    <3>3. sent[c] = got[c] + done'[c] + Cardinality(Holders(c)')
      <4>1. sent[c] = got[c] + done[c] + Cardinality(Holders(c))
        BY DEF CountInv
      <4>2. done'[c] = done[c] + 1
        BY <2>3
      <4> QED
        BY <3>1, <3>2, <4>1, <4>2
    <3>4. \A d \in Calls : d # c =>
            /\ done'[d] = done[d] /\ Holders(d)' = Holders(d)
            /\ sent[d] = got[d] + done[d] + Cardinality(Holders(d))
      BY <2>3, <2>5 DEF CountInv
    <3>5. ASSUME NEW d \in Calls PROVE sent[d] = got[d] + done'[d] + Cardinality(Holders(d)')
      <4>1. CASE d = c
        BY <3>3, <4>1
      <4>2. CASE d # c
        <5>1. Holders(d)' = Holders(d)
          BY <3>4, <4>2
        <5>2. Cardinality(Holders(d)') = Cardinality(Holders(d))
          BY <5>1
        <5> QED
          BY <3>4, <4>2, <5>2
      <4> QED
        BY <4>1, <4>2
    <3> QED
      BY <1>0, <3>5 DEF CountInv
  <2>8. OutInv'
    <3>1. \A d \in Calls : \A v \in Holders(d) : wpc[v] = "encoding" =>
            v \in Holders(d)' /\ wpc'[v] = "encoding" /\ wjob'[v] = wjob[v]
      BY <2>1, <2>3, <2>5 DEF Holders
    <3> QED
      BY <1>0, <2>1, <3>1 DEF OutInv
  <2> QED
    BY <2>6, <2>7, <2>8
<1>3. CASE Crash(w)
  <2>1. UNCHANGED <<done, out, wpc, wjob>> /\ \A d : Holders(d)' = Holders(d)
    BY <1>3 DEF Crash, Holders, Holding
  <2> QED
    BY <1>0, <2>1 DEF JobInv, CountInv, OutInv, Holding
<1>4. CASE Exit(w)
  <2>1. /\ UNCHANGED <<done, out, wjob>> /\ wpc[w] = "waiting" /\ wpc'[w] = "exited"
        /\ \A v \in Workers : v # w => wpc'[v] = wpc[v]
    BY <1>4 DEF Exit, TypeOK
  <2>2. \A v \in Workers : Holding(v)' = Holding(v)
    BY <2>1 DEF Holding
  <2>3. \A d : Holders(d)' = Holders(d)
    BY <2>1, <2>2 DEF Holders
  <2>4. \A v \in Workers : wpc'[v] = "encoding" <=> wpc[v] = "encoding"
    BY <2>1
  <2>5. \A d : Holders(d) \subseteq Workers
    BY DEF Holders
  <2> QED
    BY <1>0, <2>1, <2>2, <2>3, <2>4, <2>5 DEF JobInv, CountInv, OutInv
<1> QED
  BY <1>1, <1>2, <1>3, <1>4 DEF Worker

LEMMA InvStep == Inv /\ [Next]_vars => Inv'
<1> SUFFICES ASSUME Inv, [Next]_vars PROVE JobInv' /\ CountInv' /\ OutInv'
  BY TypeStep DEF Inv
<1>1. CASE \E c \in Calls : (\E b \in Batches : Call(c, b)) \/ Refuse(c) \/ Accept(c) \/ Drain(c) \/ Return(c)
  BY <1>1, OwnerKeeps
<1>2. CASE \E c \in Calls, w \in Workers : Hand(c, w)
  BY <1>2, HandKeeps
<1>3. CASE Close
  BY <1>3, CloseKeeps
<1>4. CASE \E w \in Workers : Worker(w)
  BY <1>4, WorkerKeeps
<1>5. CASE UNCHANGED vars
  <2>1. \A d : Holders(d)' = Holders(d)
    BY <1>5 DEF vars, Holders, Holding
  <2> QED
    BY <1>5, <2>1 DEF vars, ownerVars, Inv, JobInv, CountInv, OutInv, Holding
<1> QED
  BY <1>1, <1>2, <1>3, <1>4, <1>5 DEF Next, Owner, Stopped

LEMMA InvAlways == Spec => []Inv
BY InvInit, InvStep, PTL DEF Spec

-----------------------------------------------------------------------------
(* What follows                                                                *)

\* A slice that was returned is the caller's: no goroutine has still to write to
\* it, however many there are and whatever else is handed over (batch.go, where
\* EncodeBatch takes one signal for each item before it returns).
THEOREM SliceIsHandedOver == Spec => []SliceHandedOver
<1>1. Inv => SliceHandedOver
  BY DEF Inv, JobInv, SliceHandedOver
<1> QED
  BY <1>1, InvAlways, PTL

\* A call that has all its signals has all its hashes.
LEMMA AllWritten ==
  ASSUME Inv, NEW c \in Calls, opc[c] = "sending", got[c] = Len(items[c])
  PROVE  out[c] = [i \in DOMAIN items[c] |-> Encode[items[c][i]]]
<1> USE DEF Inv
<1>1. DOMAIN items[c] = 1 .. Len(items[c]) /\ Len(items[c]) \in Nat
  BY LenProperties DEF TypeOK
<1>2. sent[c] = Len(items[c]) /\ Cardinality(Holders(c)) = 0
  BY HoldersFinite DEF CountInv, TypeOK
<1>3. Holders(c) = {}
  BY <1>2, HoldersFinite, FS_EmptySet
<1>4. \A i \in DOMAIN items[c] : out[c][i] = Encode[items[c][i]]
  BY <1>1, <1>2, <1>3 DEF OutInv
<1>5. DOMAIN out[c] = DOMAIN items[c] /\ out[c] \in Seq(Hashes \cup {Zero})
  BY DEF OutInv, TypeOK
<1>6. out[c] = [i \in DOMAIN out[c] |-> out[c][i]]
  BY <1>1, <1>5, LenProperties
<1> QED
  BY <1>4, <1>5, <1>6

\* What the pool shows of itself starts and goes on as a batch encoder does.
LEMMA RefinesInit == Init => Abstract!Init
BY DEF Init, Abstract!Init, Status

LEMMA RefinesStep ==
  ASSUME Inv, [Next]_vars
  PROVE  [Abstract!Next]_(Abstract!vars)
<1> DEFINE status == [c \in Calls |-> Status(c)]
           result == [c \in Calls |-> IF opc[c] = "returned" THEN out[c] ELSE <<>>]
<1> USE DEF Inv
<1>1. ASSUME NEW c \in Calls, NEW b \in Batches, Call(c, b) PROVE Abstract!Call(c, b)
  <2>1. /\ opc[c] = "new" /\ opc' = [opc EXCEPT ![c] = "entered"]
        /\ items' = [items EXCEPT ![c] = b] /\ UNCHANGED <<closed, out>>
    BY <1>1 DEF Call
  <2>2. opc'[c] = "entered" /\ \A d \in Calls : d # c => opc'[d] = opc[d]
    BY <2>1 DEF TypeOK
  <2>3. status[c] = "new" /\ status' = [status EXCEPT ![c] = "running"]
    BY <2>1, <2>2 DEF Status
  <2>4. result' = result
    BY <2>1, <2>2
  <2> QED
    BY <2>1, <2>3, <2>4 DEF Abstract!Call
<1>2. ASSUME NEW c \in Calls, Refuse(c) PROVE Abstract!Fail(c)
  <2>1. /\ opc[c] = "entered" /\ opc' = [opc EXCEPT ![c] = "panicked"]
        /\ UNCHANGED <<closed, items, out>>
    BY <1>2 DEF Refuse
  <2>2. opc'[c] = "panicked" /\ \A d \in Calls : d # c => opc'[d] = opc[d]
    BY <2>1 DEF TypeOK
  <2>3. status[c] = "running" /\ status' = [status EXCEPT ![c] = "failed"]
    BY <2>1, <2>2 DEF Status
  <2>4. result' = result
    BY <2>1, <2>2
  <2>5. Abstract!HasInvalid(items[c]) \/ closed
    BY <1>2 DEF Refuse, Abstract!HasInvalid, Abstract!ItemsOf
  <2> QED
    BY <2>1, <2>3, <2>4, <2>5 DEF Abstract!Fail
<1>3. ASSUME NEW c \in Calls, Accept(c)
      PROVE  Abstract!Return(c) \/ UNCHANGED <<closed, status, items, result>>
  <2>1. /\ opc[c] = "entered" /\ ~ closed /\ \A i \in DOMAIN items[c] : items[c][i] \in Valid
        /\ opc' = [opc EXCEPT ![c] = IF items[c] = <<>> THEN "returned" ELSE "sending"]
        /\ out' = [out EXCEPT ![c] = [i \in DOMAIN items[c] |-> Zero]]
        /\ UNCHANGED <<closed, items>>
    BY <1>3 DEF Accept
  <2>2. /\ opc'[c] = IF items[c] = <<>> THEN "returned" ELSE "sending"
        /\ out'[c] = [i \in DOMAIN items[c] |-> Zero]
        /\ \A d \in Calls : d # c => opc'[d] = opc[d] /\ out'[d] = out[d]
    BY <2>1 DEF TypeOK
  <2>3. CASE items[c] # <<>>
    <3>1. status' = status /\ result' = result
      BY <2>1, <2>2, <2>3 DEF Status
    <3> QED
      BY <2>1, <3>1
  <2>4. CASE items[c] = <<>>
    <3>1. DOMAIN items[c] = {}
      BY <2>4
    <3>2. out'[c] = [i \in DOMAIN items[c] |-> Encode[items[c][i]]]
      BY <2>2, <3>1
    <3>3. status[c] = "running" /\ status' = [status EXCEPT ![c] = "returned"]
      <4>1. opc'[c] = "returned"
        BY <2>2, <2>4
      <4>2. \A d \in Calls : d # c => opc'[d] = opc[d]
        BY <2>2
      <4> QED
        BY <2>1, <4>1, <4>2 DEF Status
    <3>4. result' = [result EXCEPT ![c] = [i \in DOMAIN items[c] |-> Encode[items[c][i]]]]
      BY <2>1, <2>2, <2>4, <3>2
    <3>5. ~ Abstract!HasInvalid(items[c])
      BY <3>1 DEF Abstract!HasInvalid, Abstract!ItemsOf
    <3> QED
      BY <2>1, <3>3, <3>4, <3>5 DEF Abstract!Return
  <2> QED
    BY <2>3, <2>4
<1>4. ASSUME NEW c \in Calls, Return(c) PROVE Abstract!Return(c)
  <2>1. /\ opc[c] = "sending" /\ got[c] = Len(items[c])
        /\ opc' = [opc EXCEPT ![c] = "returned"] /\ UNCHANGED <<closed, items, out>>
    BY <1>4 DEF Return
  <2>2. opc'[c] = "returned" /\ \A d \in Calls : d # c => opc'[d] = opc[d]
    BY <2>1 DEF TypeOK
  <2>3. out[c] = [i \in DOMAIN items[c] |-> Encode[items[c][i]]]
    BY <2>1, AllWritten
  <2>4. status[c] = "running" /\ status' = [status EXCEPT ![c] = "returned"]
    BY <2>1, <2>2 DEF Status
  <2>5. result' = [result EXCEPT ![c] = [i \in DOMAIN items[c] |-> Encode[items[c][i]]]]
    BY <2>1, <2>2, <2>3
  <2>6. ~ closed /\ ~ Abstract!HasInvalid(items[c])
    BY <2>1 DEF CountInv, OutInv, Abstract!HasInvalid, Abstract!ItemsOf
  <2> QED
    BY <2>1, <2>4, <2>5, <2>6 DEF Abstract!Return
<1>5. CASE Close
  <2>1. UNCHANGED <<opc, items, out>> /\ \A c \in Calls : Status(c) # "running"
    BY <1>5 DEF Close, OwnerFree, Status
  <2>2. status' = status /\ result' = result
    BY <2>1 DEF Status
  <2>3. CASE closed
    BY <1>5, <2>1, <2>2, <2>3 DEF Close, Abstract!vars
  <2>4. CASE ~ closed
    <3>1. closed' = TRUE
      BY <1>5, <2>4 DEF Close
    <3>2. Abstract!Close
      BY <2>1, <2>2, <2>4, <3>1 DEF Abstract!Close
    <3> QED
      BY <3>2 DEF Abstract!Next
  <2> QED
    BY <2>3, <2>4
<1>6. ASSUME NEW w \in Workers, Worker(w) PROVE UNCHANGED <<closed, status, items, result>>
  <2>1. UNCHANGED <<closed, opc, items>>
    BY <1>6 DEF Worker, Write, Signal, Crash, Exit, ownerVars
  <2>2. \A c \in Calls : opc[c] = "returned" => out'[c] = out[c]
    <3>1. CASE Write(w)
      <4>1. opc[wjob[w].call] = "sending" /\ wjob[w].call \in Calls
        BY <3>1 DEF Write, JobInv, Holding, Job
      <4> QED
        BY <3>1, <4>1 DEF Write, TypeOK
    <3>2. CASE ~ Write(w)
      BY <1>6, <3>2 DEF Worker, Signal, Crash, Exit
    <3> QED
      BY <3>1, <3>2
  <2> QED
    BY <2>1, <2>2 DEF Status
<1>7. ASSUME NEW c \in Calls, (\E w \in Workers : Hand(c, w)) \/ Drain(c)
      PROVE  UNCHANGED <<closed, status, items, result>>
  BY <1>7 DEF Hand, Drain, Status
<1>8. CASE UNCHANGED vars
  BY <1>8 DEF vars, ownerVars, Status, Abstract!vars
<1>9. UNCHANGED <<closed, status, items, result>> => UNCHANGED Abstract!vars
  BY DEF Abstract!vars
<1> QED
  BY <1>1, <1>2, <1>3, <1>4, <1>5, <1>6, <1>7, <1>8, <1>9
     DEF Next, Owner, Stopped, Abstract!Next

\* The pool implements the promise of a batch encoder: every call returns the
\* hashes of exactly its images, in order, or fails for a reason it may have
\* (batch.go, EncodeBatch and Close against their comments).
THEOREM GoImplementsBatch == Spec => Refines
<1>1. Inv /\ [Next]_vars => [Abstract!Next]_(Abstract!vars)
  BY RefinesStep
<1> QED
  BY <1>1, RefinesInit, InvAlways, PTL DEF Spec, Refines, Abstract!Spec
=============================================================================
