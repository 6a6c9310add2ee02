--------------------------- MODULE Report_proofs ----------------------------
(***************************************************************************)
(* What holds of the map over the images, of its semaphore and of the      *)
(* report made from it, for any number of images, workers and permits,     *)
(* and whatever fails. The invariants are stated first.                    *)
(***************************************************************************)
EXTENDS Report, FiniteSetTheorems, SequenceTheorems, TLAPS

Holding == {w \in Workers : wpc[w] \in {"granted", "running"}}
Waiting == {w \in Workers : wpc[w] = "waiting"}
Done == {w \in Workers : wpc[w] = "done"}

\* PermitsConserved, and what it takes that it stays so: nobody waits twice.
PermitsInv ==
  /\ PermitsConserved
  /\ \A j, k \in DOMAIN waiting : waiting[j] = waiting[k] => j = k

\* Claims: all items below next, once each. A worker that has one and a result
\* in the array never share an item.
ClaimInv ==
  /\ next > N + 1 => next <= N + 1 + Cardinality(Done)
  /\ \A w \in Workers : wpc[w] = "done" => next > N + 1
  /\ \A w \in Workers : wpc[w] # "done" => item[w] < next /\ out[item[w]] = Hole
  /\ \A v, w \in Workers : wpc[v] # "done" /\ wpc[w] # "done" /\ item[v] = item[w] => v = w

\* Results: by index, of what was claimed; what has none is with a worker.
ResultInv ==
  /\ \A i \in 1 .. N : out[i] # Hole => i < next /\ out[i] = Value[i]
  /\ \A i \in 1 .. N : i < next /\ out[i] = Hole =>
       \E w \in Workers : wpc[w] # "done" /\ item[w] = i
  /\ outcome = "resolved" => \A w \in Workers : wpc[w] = "done"

PoolInv == TypeOK /\ PermitsInv /\ ClaimInv /\ ResultInv

\* An entry is what the harnesses gave, with the decodes that were lost; an item
\* that has a result has its entry.
EntriesInv ==
  /\ DOMAIN entries = 1 .. N
  /\ \A i \in 1 .. N :
       \/ entries[i] = NoEntry
       \/ /\ DOMAIN entries[i].ran \subseteq Languages
          /\ \E lost \in Lost[i] : entries[i].rows = RunAllHarnesses(entries[i].ran, lost)
  /\ \A i \in 1 .. N : out[i] # Hole => entries[i].done

\* What this run writes, and how far it has come with it.
Page(f) == files[PathOf(Mode(options), f)]

PageInv ==
  /\ DOMAIN files = Modes \X Output
  /\ stage \in Output \cup {"start", "score", "written", "exited"}
  /\ stage \notin {"start", "exited"} => options \notin Refused
  /\ stage \in Output \cup {"written"} => outcome = "resolved"
  /\ stage \in {"start", "score", "images"} => \A f \in Output : Page(f) = "old"
  /\ stage = "json" => Page("images") = "new" /\ Page("json") = "old" /\ Page("html") = "old"
  /\ stage = "html" => Page("images") = "new" /\ Page("json") = "new" /\ Page("html") = "old"
  /\ (\E f \in Output : Page(f) # "old") => outcome = "resolved"
  /\ Page("json") = "new" => Page("images") = "new"
  /\ Page("html") = "new" => Page("json") = "new"

ReportInv == PoolInv /\ EntriesInv /\ PageInv /\ options \in Options

-----------------------------------------------------------------------------
(* Queues and crews                                                            *)

Elements(q) == {q[k] : k \in DOMAIN q}
Distinct(q) == \A j, k \in DOMAIN q : q[j] = q[k] => j = k

LEMMA Joined ==
  ASSUME NEW S, NEW q \in Seq(S), NEW e \in S, Distinct(q), e \notin Elements(q)
  PROVE  /\ Append(q, e) \in Seq(S) /\ Append(q, e) # <<>>
         /\ Len(Append(q, e)) = Len(q) + 1
         /\ Elements(Append(q, e)) = Elements(q) \cup {e}
         /\ Distinct(Append(q, e))
<1> DEFINE r == Append(q, e)
<1>1. r \in Seq(S) /\ Len(r) = Len(q) + 1 /\ Len(q) \in Nat
  BY AppendProperties, LenProperties
<1>2. DOMAIN q = 1 .. Len(q) /\ DOMAIN r = 1 .. Len(q) + 1
  BY <1>1, LenProperties
<1>3. r[Len(q) + 1] = e /\ \A k \in DOMAIN q : r[k] = q[k]
  BY <1>1, <1>2, AppendProperties
<1>4. DOMAIN r = DOMAIN q \cup {Len(q) + 1} /\ Len(q) + 1 \notin DOMAIN q
  BY <1>1, <1>2
<1> HIDE DEF r
<1>5. Elements(r) = Elements(q) \cup {e}
  BY <1>3, <1>4 DEF Elements
<1>6. Distinct(r)
  BY <1>3, <1>4 DEF Elements, Distinct
<1>7. r # <<>>
  BY <1>1, EmptySeq
<1> QED
  BY <1>1, <1>5, <1>6, <1>7 DEF r

LEMMA Advanced ==
  ASSUME NEW S, NEW q \in Seq(S), q # <<>>, Distinct(q)
  PROVE  /\ Head(q) \in S /\ Head(q) \in Elements(q)
         /\ Tail(q) \in Seq(S) /\ Len(Tail(q)) = Len(q) - 1
         /\ Elements(Tail(q)) = Elements(q) \ {Head(q)}
         /\ Distinct(Tail(q))
<1> DEFINE r == Tail(q)
<1>1. r \in Seq(S) /\ Len(r) = Len(q) - 1 /\ Len(q) \in Nat \ {0}
  BY HeadTailProperties, EmptySeq, LenProperties
<1>2. DOMAIN q = 1 .. Len(q) /\ DOMAIN r = 1 .. Len(q) - 1
  BY <1>1, LenProperties
<1>3. Head(q) = q[1] /\ 1 \in DOMAIN q /\ Head(q) \in S
  BY <1>1, <1>2, HeadTailProperties
<1>4. \A k \in DOMAIN r : k + 1 \in DOMAIN q /\ r[k] = q[k + 1] /\ k + 1 # 1
  BY <1>1, <1>2, HeadTailProperties
<1>5. \A k \in DOMAIN q : k = 1 \/ (k - 1 \in DOMAIN r /\ (k - 1) + 1 = k)
  BY <1>1, <1>2
<1>6. \A j, k \in DOMAIN r : j + 1 = k + 1 => j = k
  BY <1>1, <1>2
<1> HIDE DEF r
<1>7. Elements(r) = Elements(q) \ {Head(q)}
  <2>1. \A x \in Elements(r) : x \in Elements(q) /\ x # Head(q)
    BY <1>3, <1>4 DEF Elements, Distinct
  <2>2. ASSUME NEW k \in DOMAIN q, q[k] # Head(q) PROVE q[k] \in Elements(r)
    BY <1>3, <1>4, <1>5, <2>2 DEF Elements
  <2> QED
    BY <2>1, <2>2 DEF Elements
<1>8. Distinct(r)
  BY <1>4, <1>6 DEF Distinct
<1> QED
  BY <1>1, <1>3, <1>7, <1>8 DEF r, Elements

\* The workers of a map: as many as its width and its items allow.
LEMMA Crew ==
  \E k \in 0 .. N : /\ Workers = 1 .. k /\ IsFiniteSet(Workers) /\ Cardinality(Workers) = k
                    /\ k <= Width /\ (k = 0 => N = 0)
<1>1. \E k \in 0 .. N : Workers = 1 .. k /\ k <= Width /\ (k = 0 => N = 0)
  <2>1. CASE N = 0
    <3>1. Workers = 1 .. 0
      BY <2>1 DEF Workers
    <3> QED
      BY <2>1, <3>1, NAssumption DEF Width
  <2>2. CASE N # 0 /\ Limit <= 1
    <3>1. Workers = 1 .. 1
      BY <2>2 DEF Workers
    <3>2. 1 \in 0 .. N /\ 1 <= Width
      BY <2>2, NAssumption DEF Width
    <3> QED
      BY <3>1, <3>2
  <2>3. CASE N # 0 /\ ~ Limit <= 1 /\ Limit < N
    <3>1. Workers = 1 .. Limit
      BY <2>3 DEF Workers
    <3>2. Limit \in 0 .. N /\ Limit <= Width /\ Limit # 0
      BY <2>3, NAssumption DEF Width
    <3> QED
      BY <3>1, <3>2
  <2>4. CASE N # 0 /\ ~ Limit <= 1 /\ ~ Limit < N
    <3>1. Workers = 1 .. N
      BY <2>4 DEF Workers
    <3>2. N \in 0 .. N /\ N <= Width
      BY <2>4, NAssumption DEF Width
    <3> QED
      BY <3>1, <3>2
  <2> QED
    BY <2>1, <2>2, <2>3, <2>4
<1>2. PICK k \in 0 .. N : Workers = 1 .. k /\ k <= Width /\ (k = 0 => N = 0)
  BY <1>1
<1>3. IsFiniteSet(1 .. k) /\ Cardinality(1 .. k) = k
  BY NAssumption, FS_Interval
<1> QED
  BY <1>2, <1>3

LEMMA CrewIsFinite == IsFiniteSet(Workers) /\ Cardinality(Workers) \in 0 .. N
BY Crew

LEMMA PartsAreFinite ==
  ASSUME NEW S \in SUBSET Workers
  PROVE  IsFiniteSet(S) /\ Cardinality(S) \in Nat /\ Cardinality(S) <= Cardinality(Workers)
BY CrewIsFinite, FS_Subset, FS_CardinalityType

-----------------------------------------------------------------------------
(* The map and its semaphore                                                   *)

\* PermitsConserved in the words above.
LEMMA PermitsByName ==
  PermitsInv <=> /\ available + Cardinality(Holding) = Permits
                 /\ waiting # <<>> => available = 0
                 /\ Elements(waiting) = Waiting
                 /\ Len(waiting) = Cardinality(Waiting)
                 /\ Distinct(waiting)
BY DEF PermitsInv, PermitsConserved, Holding, Waiting, Elements, Distinct

LEMMA PermitsByNameNext ==
  PermitsInv' <=> /\ available' + Cardinality(Holding') = Permits
                  /\ waiting' # <<>> => available' = 0
                  /\ Elements(waiting') = Waiting'
                  /\ Len(waiting') = Cardinality(Waiting')
                  /\ Distinct(waiting')
BY DEF PermitsInv, PermitsConserved, Holding, Waiting, Elements, Distinct

LEMMA PoolInvInit == Init => PoolInv
<1> SUFFICES ASSUME Init PROVE PoolInv
  OBVIOUS
<1> USE DEF Init
<1>1. PICK k \in 0 .. N : Workers = 1 .. k /\ IsFiniteSet(Workers) /\ Cardinality(Workers) = k
  BY Crew
<1>2. next = k + 1 /\ \A w \in Workers : w \in 1 .. N /\ w < next
  BY <1>1, NAssumption
<1>3. waiting \in Seq(Workers) /\ Len(waiting) = 0 /\ DOMAIN waiting = {}
  <2>1. <<>> \in Seq(Workers) /\ Len(<<>>) = 0 /\ DOMAIN <<>> = {}
    BY EmptySeq
  <2> QED
    BY <2>1
<1>4. TypeOK
  <2>1. next \in 1 .. N + Cardinality(Workers) + 1
    BY <1>1, <1>2, NAssumption
  <2>2. item \in [Workers -> 1 .. N] /\ runs \in [Workers -> 0 .. MaxRuns] /\ available \in 0 .. Permits
    BY <1>2, NAssumption, PermitsAssumption
  <2> QED
    BY <1>3, <2>1, <2>2 DEF TypeOK
<1>5. Holding = {} /\ Waiting = {}
  BY DEF Holding, Waiting
<1>6. PermitsInv
  <2>1. Cardinality({}) = 0
    BY FS_EmptySet
  <2>2. Elements(waiting) = {} /\ Distinct(waiting)
    BY <1>3 DEF Elements, Distinct
  <2> QED
    BY <1>3, <1>5, <2>1, <2>2, PermitsByName, PermitsAssumption
<1>7. ClaimInv
  <2>1. \A w \in Workers : item[w] = w /\ wpc[w] = "busy" /\ out[w] = Hole
    BY <1>2
  <2> QED
    BY <1>1, <1>2, <2>1, NAssumption DEF ClaimInv
<1>8. ResultInv
  <2>1. \A i \in 1 .. N : i < next => i \in Workers
    BY <1>1, <1>2
  <2> QED
    BY <2>1 DEF ResultInv
<1> QED
  BY <1>4, <1>6, <1>7, <1>8 DEF PoolInv

-----------------------------------------------------------------------------
(* Steps that leave the semaphore alone, or the claims                         *)

LEMMA SemaphoreLeft ==
  ASSUME PermitsInv, UNCHANGED <<available, waiting>>,
         \A w \in Workers : /\ wpc'[w] \in {"granted", "running"} <=> wpc[w] \in {"granted", "running"}
                            /\ wpc'[w] = "waiting" <=> wpc[w] = "waiting"
  PROVE  PermitsInv'
<1>1. Holding' = Holding /\ Waiting' = Waiting
  BY DEF Holding, Waiting
<1> QED
  BY <1>1, PermitsByName, PermitsByNameNext

LEMMA ClaimsLeft ==
  ASSUME ClaimInv, ResultInv, UNCHANGED <<next, item, out, outcome>>,
         \A w \in Workers : wpc'[w] = "done" <=> wpc[w] = "done"
  PROVE  ClaimInv' /\ ResultInv'
<1>1. Done' = Done
  BY DEF Done
<1> QED
  BY <1>1 DEF ClaimInv, ResultInv

LEMMA SettleStep == ASSUME PoolInv, Settle PROVE PoolInv'
<1> USE DEF PoolInv
<1>1. UNCHANGED <<next, item, out, wpc, runs, available, waiting>>
  BY DEF Settle
<1>2. outcome' \in {"resolved", "rejected"} /\ (outcome' = "resolved" => \A w \in Workers : wpc[w] = "done")
  BY DEF Settle
<1>3. TypeOK'
  BY <1>1, <1>2 DEF TypeOK
<1>4. PermitsInv'
  BY <1>1, SemaphoreLeft
<1>5. ClaimInv' /\ ResultInv'
  BY <1>1, <1>2 DEF ClaimInv, ResultInv, Done
<1> QED
  BY <1>3, <1>4, <1>5

LEMMA RejectStep == ASSUME PoolInv, NEW w \in Workers, Reject(w) PROVE PoolInv'
<1> USE DEF PoolInv
<1>1. /\ wpc[w] = "busy" /\ wpc' = [wpc EXCEPT ![w] = "failed"]
      /\ UNCHANGED <<next, item, out, outcome, runs, available, waiting>>
  BY DEF Reject, mapVars
<1>2. TypeOK'
  BY <1>1 DEF TypeOK
<1>3. \A v \in Workers : wpc'[v] = IF v = w THEN "failed" ELSE wpc[v]
  BY <1>1 DEF TypeOK
<1>4. PermitsInv'
  BY <1>1, <1>3, SemaphoreLeft
<1>5. ClaimInv' /\ ResultInv'
  BY <1>1, <1>3, ClaimsLeft
<1> QED
  BY <1>2, <1>4, <1>5

LEMMA EnterStep == ASSUME PoolInv, NEW w \in Workers, Enter(w) PROVE PoolInv'
<1> USE DEF PoolInv
<1>1. /\ wpc[w] = "granted" /\ wpc' = [wpc EXCEPT ![w] = "running"]
      /\ UNCHANGED <<next, item, out, outcome, runs, available, waiting>>
  BY DEF Enter, mapVars
<1>2. TypeOK'
  BY <1>1 DEF TypeOK
<1>3. \A v \in Workers : wpc'[v] = IF v = w THEN "running" ELSE wpc[v]
  BY <1>1 DEF TypeOK
<1>4. PermitsInv'
  BY <1>1, <1>3, SemaphoreLeft
<1>5. ClaimInv' /\ ResultInv'
  BY <1>1, <1>3, ClaimsLeft
<1> QED
  BY <1>2, <1>4, <1>5

-----------------------------------------------------------------------------
(* Permits                                                                     *)

LEMMA AcquireStep == ASSUME PoolInv, NEW w \in Workers, Acquire(w) PROVE PoolInv'
<1> USE DEF PoolInv
<1>1. wpc[w] = "busy" /\ UNCHANGED <<next, item, out, outcome>>
  BY DEF Acquire, mapVars
<1>2. runs' \in [Workers -> 0 .. MaxRuns]
  <2>1. runs[w] < MaxRuns /\ runs' = [runs EXCEPT ![w] = @ + 1]
    BY DEF Acquire
  <2>2. runs[w] + 1 \in 0 .. MaxRuns
    BY <2>1, NAssumption DEF TypeOK
  <2> QED
    BY <2>1, <2>2 DEF TypeOK
<1>3. IsFiniteSet(Holding) /\ Cardinality(Holding) \in Nat /\ IsFiniteSet(Waiting) /\ w \notin Holding \cup Waiting
  BY <1>1, PartsAreFinite DEF Holding, Waiting
<1>4. /\ available + Cardinality(Holding) = Permits /\ (waiting # <<>> => available = 0)
      /\ Elements(waiting) = Waiting /\ Len(waiting) = Cardinality(Waiting) /\ Distinct(waiting)
  BY PermitsByName
<1>5. CASE available > 0
  <2>1. available' = available - 1 /\ wpc' = [wpc EXCEPT ![w] = "granted"] /\ waiting' = waiting
    BY <1>5 DEF Acquire
  <2>2. \A v \in Workers : wpc'[v] = IF v = w THEN "granted" ELSE wpc[v]
    BY <2>1 DEF TypeOK
  <2>3. TypeOK'
    <3>1. available' \in 0 .. Permits
      BY <1>5, <2>1, PermitsAssumption DEF TypeOK
    <3> QED
      BY <1>1, <1>2, <2>1, <3>1 DEF TypeOK
  <2>4. Holding' = Holding \cup {w} /\ Waiting' = Waiting
    BY <1>1, <2>2 DEF Holding, Waiting
  <2>5. Cardinality(Holding') = Cardinality(Holding) + 1
    BY <1>3, <2>4, FS_AddElement
  <2>6. available' + Cardinality(Holding') = Permits
    BY <1>3, <1>4, <2>1, <2>5, PermitsAssumption DEF TypeOK
  <2>7. waiting' = <<>>
    BY <1>4, <1>5, <2>1
  <2>8. PermitsInv'
    BY <1>4, <2>1, <2>4, <2>6, <2>7, PermitsByNameNext
  <2>9. ClaimInv' /\ ResultInv'
    BY <1>1, <2>2, ClaimsLeft
  <2> QED
    BY <2>3, <2>8, <2>9
<1>6. CASE ~ available > 0
  <2>1. available' = available /\ wpc' = [wpc EXCEPT ![w] = "waiting"] /\ waiting' = Append(waiting, w)
    BY <1>6 DEF Acquire
  <2>2. \A v \in Workers : wpc'[v] = IF v = w THEN "waiting" ELSE wpc[v]
    BY <2>1 DEF TypeOK
  <2>3. /\ Append(waiting, w) \in Seq(Workers) /\ Len(Append(waiting, w)) = Len(waiting) + 1
        /\ Elements(Append(waiting, w)) = Elements(waiting) \cup {w} /\ Distinct(Append(waiting, w))
    BY <1>3, <1>4, Joined DEF TypeOK
  <2>4. TypeOK'
    BY <1>1, <1>2, <2>1, <2>3 DEF TypeOK
  <2>5. Holding' = Holding /\ Waiting' = Waiting \cup {w}
    BY <1>1, <2>2 DEF Holding, Waiting
  <2>6. Cardinality(Waiting') = Cardinality(Waiting) + 1
    BY <1>3, <2>5, FS_AddElement
  <2>7. available' = 0
    BY <1>6, <2>1, PermitsAssumption DEF TypeOK
  <2>8. PermitsInv'
    BY <1>4, <2>1, <2>3, <2>5, <2>6, <2>7, PermitsByNameNext
  <2>9. ClaimInv' /\ ResultInv'
    BY <1>1, <2>2, ClaimsLeft
  <2> QED
    BY <2>4, <2>8, <2>9
<1> QED
  BY <1>5, <1>6

\* A process ends, and its permit goes to the head of the queue or back.
LEMMA ReleaseStep ==
  ASSUME PoolInv, NEW w \in Workers, wpc[w] = "running", NEW pc \in {"busy", "failed"},
         Release(w, pc), UNCHANGED <<mapVars, runs>>
  PROVE  PoolInv'
<1> USE DEF PoolInv
<1>1. UNCHANGED <<next, item, out, outcome, runs>>
  BY DEF mapVars
<1>2. IsFiniteSet(Holding) /\ Cardinality(Holding) \in Nat /\ IsFiniteSet(Waiting) /\ w \in Holding
      /\ Cardinality(Waiting) \in Nat
  BY PartsAreFinite DEF Holding, Waiting
<1>3. /\ available + Cardinality(Holding) = Permits /\ (waiting # <<>> => available = 0)
      /\ Elements(waiting) = Waiting /\ Len(waiting) = Cardinality(Waiting) /\ Distinct(waiting)
  BY PermitsByName
<1>4. Cardinality(Holding \ {w}) = Cardinality(Holding) - 1 /\ IsFiniteSet(Holding \ {w})
  BY <1>2, FS_RemoveElement
<1>5. CASE waiting # <<>>
  <2> DEFINE h == Head(waiting)
  <2>1. /\ available' = available /\ waiting' = Tail(waiting)
        /\ wpc' = [wpc EXCEPT ![w] = pc, ![h] = "granted"]
    BY <1>5 DEF Release
  <2>2. /\ h \in Workers /\ h \in Elements(waiting) /\ Tail(waiting) \in Seq(Workers)
        /\ Len(Tail(waiting)) = Len(waiting) - 1 /\ Distinct(Tail(waiting))
        /\ Elements(Tail(waiting)) = Elements(waiting) \ {h}
    BY <1>3, <1>5, Advanced DEF TypeOK
  <2>3. wpc[h] = "waiting" /\ h # w
    BY <1>3, <2>2 DEF Waiting
  <2> HIDE DEF h
  <2>4. \A v \in Workers : wpc'[v] = IF v = h THEN "granted" ELSE IF v = w THEN pc ELSE wpc[v]
    BY <2>1, <2>3 DEF TypeOK
  <2>5. TypeOK'
    BY <1>1, <2>1, <2>2 DEF TypeOK
  <2>6. Holding' = (Holding \ {w}) \cup {h} /\ Waiting' = Waiting \ {h}
    BY <2>2, <2>3, <2>4 DEF Holding, Waiting
  <2>7. Cardinality(Holding') = Cardinality(Holding)
    <3>1. h \notin Holding
      BY <2>3 DEF Holding
    <3>2. Cardinality(Holding') = Cardinality(Holding \ {w}) + 1
      BY <1>4, <2>6, <3>1, FS_AddElement
    <3> QED
      BY <1>2, <1>4, <3>2
  <2>8. Cardinality(Waiting') = Cardinality(Waiting) - 1
    BY <1>2, <1>3, <2>2, <2>6, FS_RemoveElement
  <2>9. PermitsInv'
    BY <1>3, <1>5, <2>1, <2>2, <2>6, <2>7, <2>8, PermitsByNameNext
  <2>10. ClaimInv' /\ ResultInv'
    BY <1>1, <2>3, <2>4, ClaimsLeft
  <2> QED
    BY <2>5, <2>9, <2>10
<1>6. CASE waiting = <<>>
  <2>1. available' = available + 1 /\ wpc' = [wpc EXCEPT ![w] = pc] /\ waiting' = waiting
    BY <1>6 DEF Release
  <2>2. \A v \in Workers : wpc'[v] = IF v = w THEN pc ELSE wpc[v]
    BY <2>1 DEF TypeOK
  <2>3. Holding' = Holding \ {w} /\ Waiting' = Waiting
    BY <2>2 DEF Holding, Waiting
  <2>4. available' + Cardinality(Holding') = Permits /\ available' \in 0 .. Permits
    <3>1. available \in Nat /\ Cardinality(Holding) - 1 \in Nat
      <4>1. Cardinality(Holding \ {w}) \in Nat
        BY <1>4, FS_CardinalityType
      <4> QED
        BY <1>4, <4>1, PermitsAssumption DEF TypeOK
    <3> QED
      BY <1>2, <1>3, <1>4, <2>1, <2>3, <3>1, PermitsAssumption
  <2>5. TypeOK'
    BY <1>1, <2>1, <2>4 DEF TypeOK
  <2>6. PermitsInv'
    BY <1>3, <1>6, <2>1, <2>3, <2>4, PermitsByNameNext
  <2>7. ClaimInv' /\ ResultInv'
    BY <1>1, <2>2, ClaimsLeft
  <2> QED
    BY <2>5, <2>6, <2>7
<1> QED
  BY <1>5, <1>6

LEMMA LeaveStep == ASSUME PoolInv, NEW w \in Workers, Leave(w) PROVE PoolInv'
BY ReleaseStep DEF Leave

LEMMA ThrowStep == ASSUME PoolInv, NEW w \in Workers, Throw(w) PROVE PoolInv'
BY ReleaseStep DEF Throw

-----------------------------------------------------------------------------
(* Claims                                                                      *)

LEMMA ResolveStep == ASSUME PoolInv, NEW w \in Workers, Resolve(w) PROVE PoolInv'
<1> USE DEF PoolInv
<1> DEFINE i == item[w]
<1>1. /\ wpc[w] = "busy" /\ out' = [out EXCEPT ![i] = Value[i]] /\ next' = next + 1
      /\ runs' = [runs EXCEPT ![w] = 0] /\ UNCHANGED <<outcome, available, waiting>>
  BY DEF Resolve
<1>2. i \in 1 .. N /\ i < next /\ out[i] = Hole
  BY <1>1 DEF TypeOK, ClaimInv
<1>3. \A j \in 1 .. N : out'[j] = IF j = i THEN Value[i] ELSE out[j]
  BY <1>1, <1>2 DEF TypeOK
<1>4. Value[i] # Hole
  BY <1>2, ValueAssumption
<1>5. \A v \in Workers : v # w /\ wpc[v] # "done" => item[v] # i
  BY <1>1 DEF ClaimInv
<1>6. outcome # "resolved"
  BY <1>1 DEF ResultInv
<1>7. next \in Nat
  BY CrewIsFinite, NAssumption DEF TypeOK
<1>8. /\ IsFiniteSet(Done) /\ Cardinality(Done) \in Nat
      /\ Cardinality(Workers) \in Nat /\ w \notin Done
  BY <1>1, CrewIsFinite, PartsAreFinite, NAssumption DEF Done
<1>9. runs' \in [Workers -> 0 .. MaxRuns] /\ out' \in [1 .. N -> {Value[j] : j \in 1 .. N} \cup {Hole}]
  BY <1>1, <1>2, NAssumption DEF TypeOK
<1> HIDE DEF i
<1>10. CASE next <= N
  <2>1. item' = [item EXCEPT ![w] = next] /\ wpc' = wpc
    BY <1>10 DEF Resolve
  <2>2. next \in 1 .. N /\ \A v \in Workers : item'[v] = IF v = w THEN next ELSE item[v]
    BY <1>7, <1>10, <2>1, NAssumption DEF TypeOK
  <2>3. out[next] = Hole /\ next # i
    BY <1>2, <1>7, <2>2 DEF ResultInv
  <2>4. TypeOK'
    <3>1. next' \in 1 .. N + Cardinality(Workers) + 1
      BY <1>1, <1>7, <1>8, <1>10, NAssumption
    <3> QED
      BY <1>1, <1>9, <2>1, <2>2, <3>1 DEF TypeOK
  <2>5. PermitsInv'
    BY <1>1, <2>1, SemaphoreLeft
  <2>6. ClaimInv'
    <3>1. ~ next' > N + 1 /\ ~ next > N + 1
      BY <1>1, <1>7, <1>10, NAssumption
    <3>2. \A v \in Workers : wpc'[v] # "done"
      BY <3>1, <2>1 DEF ClaimInv
    <3>3. ASSUME NEW v \in Workers PROVE item'[v] < next' /\ out'[item'[v]] = Hole
      <4>1. CASE v = w
        BY <1>1, <1>3, <1>7, <2>2, <2>3, <4>1
      <4>2. CASE v # w
        <5>1. item[v] < next /\ out[item[v]] = Hole /\ item[v] # i /\ item[v] \in 1 .. N
          BY <1>5, <2>1, <3>2, <4>2 DEF ClaimInv, TypeOK
        <5>2. item[v] < next + 1
          BY <1>7, <5>1
        <5> QED
          BY <1>1, <1>3, <2>2, <4>2, <5>1, <5>2
      <4> QED
        BY <4>1, <4>2
    <3>4. ASSUME NEW u \in Workers, NEW v \in Workers, item'[u] = item'[v] PROVE u = v
      <4>1. \A x \in Workers : item[x] < next /\ item[x] \in 1 .. N
        BY <2>1, <3>2 DEF ClaimInv, TypeOK
      <4>2. \A x \in Workers : item[x] # next
        BY <1>7, <4>1
      <4> QED
        BY <2>1, <2>2, <3>2, <3>4, <4>2 DEF ClaimInv
    <3> QED
      BY <3>1, <3>2, <3>3, <3>4 DEF ClaimInv
  <2>7. ResultInv'
    <3>1. ASSUME NEW j \in 1 .. N, out'[j] # Hole PROVE j < next' /\ out'[j] = Value[j]
      <4>1. j < next /\ out'[j] = Value[j]
        BY <1>2, <1>3, <3>1 DEF ResultInv
      <4> QED
        BY <1>1, <1>7, <4>1
    <3>2. ASSUME NEW j \in 1 .. N, j < next', out'[j] = Hole
          PROVE  \E v \in Workers : wpc'[v] # "done" /\ item'[v] = j
      <4>1. CASE j = next
        BY <1>1, <2>1, <2>2, <4>1
      <4>2. CASE j # next
        <5>1. j < next /\ out[j] = Hole /\ j # i
          BY <1>1, <1>3, <1>4, <1>7, <3>2, <4>2
        <5>2. PICK v \in Workers : wpc[v] # "done" /\ item[v] = j
          BY <5>1 DEF ResultInv
        <5>3. v # w
          BY <5>1, <5>2 DEF i
        <5> QED
          BY <2>1, <2>2, <5>2, <5>3
      <4> QED
        BY <4>1, <4>2
    <3> QED
      BY <1>1, <1>6, <3>1, <3>2 DEF ResultInv
  <2> QED
    BY <2>4, <2>5, <2>6, <2>7
<1>11. CASE ~ next <= N
  <2>1. wpc' = [wpc EXCEPT ![w] = "done"] /\ item' = item
    BY <1>11 DEF Resolve
  <2>2. \A v \in Workers : wpc'[v] = IF v = w THEN "done" ELSE wpc[v]
    BY <2>1 DEF TypeOK
  <2>3. Done' = Done \cup {w}
    BY <2>2 DEF Done
  <2>4. Cardinality(Done') = Cardinality(Done) + 1 /\ Cardinality(Done') <= Cardinality(Workers)
    <3>1. Done' \in SUBSET Workers
      BY <2>3 DEF Done
    <3> QED
      BY <1>8, <2>3, <3>1, FS_AddElement, PartsAreFinite
  <2>5. next' > N + 1 /\ next' <= N + 1 + Cardinality(Done')
    <3>1. next <= N + 1 + Cardinality(Done)
      BY <1>7, <1>8, <1>11, NAssumption DEF ClaimInv
    <3> QED
      BY <1>1, <1>7, <1>8, <1>11, <2>4, <3>1, NAssumption
  <2>6. TypeOK'
    <3>1. next' \in 1 .. N + Cardinality(Workers) + 1
      BY <1>1, <1>7, <1>8, <2>4, <2>5, NAssumption
    <3> QED
      BY <1>1, <1>9, <2>1, <3>1 DEF TypeOK
  <2>7. PermitsInv'
    BY <1>1, <2>2, SemaphoreLeft
  <2>8. ClaimInv'
    <3>1. ASSUME NEW v \in Workers, wpc'[v] # "done" PROVE item'[v] < next' /\ out'[item'[v]] = Hole
      <4>1. v # w /\ wpc[v] # "done"
        BY <2>2, <3>1
      <4>2. item[v] < next /\ out[item[v]] = Hole /\ item[v] # i /\ item[v] \in 1 .. N
        BY <1>5, <4>1 DEF ClaimInv, TypeOK
      <4>3. item[v] < next + 1
        BY <1>7, <4>2
      <4> QED
        BY <1>1, <1>3, <2>1, <4>2, <4>3
    <3>2. \A u, v \in Workers : wpc'[u] # "done" /\ wpc'[v] # "done" /\ item'[u] = item'[v] => u = v
      BY <2>1, <2>2 DEF ClaimInv
    <3> QED
      BY <2>5, <3>1, <3>2 DEF ClaimInv
  <2>9. ResultInv'
    <3>1. ASSUME NEW j \in 1 .. N, out'[j] # Hole PROVE j < next' /\ out'[j] = Value[j]
      <4>1. j < next /\ out'[j] = Value[j]
        BY <1>2, <1>3, <3>1 DEF ResultInv
      <4> QED
        BY <1>1, <1>7, <4>1
    <3>2. ASSUME NEW j \in 1 .. N, out'[j] = Hole
          PROVE  \E v \in Workers : wpc'[v] # "done" /\ item'[v] = j
      <4>1. j < next /\ out[j] = Hole /\ j # i
        BY <1>3, <1>4, <1>7, <1>11, <3>2, NAssumption
      <4>2. PICK v \in Workers : wpc[v] # "done" /\ item[v] = j
        BY <4>1 DEF ResultInv
      <4> QED
        BY <2>1, <2>2, <4>1, <4>2 DEF i
    <3> QED
      BY <1>1, <1>6, <3>1, <3>2 DEF ResultInv
  <2> QED
    BY <2>6, <2>7, <2>8, <2>9
<1> QED
  BY <1>10, <1>11

-----------------------------------------------------------------------------
LEMMA PoolInvStep == PoolInv /\ [Next]_vars => PoolInv'
<1> SUFFICES ASSUME PoolInv, [Next]_vars PROVE PoolInv'
  OBVIOUS
<1>1. ASSUME UNCHANGED vars PROVE PoolInv'
  <2>1. UNCHANGED <<next, item, out, outcome, wpc, runs, available, waiting>>
    BY <1>1 DEF vars, mapVars
  <2> QED
    BY <2>1, SemaphoreLeft, ClaimsLeft DEF PoolInv, TypeOK
<1>2. CASE Settle
  BY <1>2, SettleStep
<1>3. ASSUME NEW w \in Workers, Worker(w) PROVE PoolInv'
  BY <1>3, ResolveStep, RejectStep, AcquireStep, EnterStep, LeaveStep, ThrowStep DEF Worker
<1> QED
  BY <1>1, <1>2, <1>3 DEF Next, Ended

LEMMA PoolInvAlways == Spec => []PoolInv
BY PoolInvInit, PoolInvStep, PTL DEF Spec

\* Whom a step grants a permit to.
LEMMA OnlyTheHead ==
  ASSUME PoolInv, [Next]_vars, NEW w \in Workers, wpc[w] # "granted", wpc'[w] = "granted"
  PROVE  waiting = <<>> \/ w = Head(waiting)
<1> USE DEF PoolInv
<1>1. ASSUME UNCHANGED vars PROVE FALSE
  BY <1>1 DEF vars
<1>2. ASSUME Settle PROVE FALSE
  BY <1>2 DEF Settle
<1>3. ASSUME NEW v \in Workers, Resolve(v) \/ Reject(v) \/ Enter(v) PROVE FALSE
  BY <1>3 DEF Resolve, Reject, Enter, TypeOK
<1>4. ASSUME NEW v \in Workers, Acquire(v) PROVE waiting = <<>>
  <2>1. available > 0
    BY <1>4 DEF Acquire, TypeOK
  <2> QED
    BY <2>1 DEF PermitsInv, PermitsConserved
<1>5. ASSUME NEW v \in Workers, NEW pc \in {"busy", "failed"}, Release(v, pc)
      PROVE  waiting = <<>> \/ w = Head(waiting)
  <2>1. CASE waiting # <<>>
    <3>1. wpc' = [wpc EXCEPT ![v] = pc, ![Head(waiting)] = "granted"]
      BY <1>5, <2>1 DEF Release
    <3> QED
      BY <3>1 DEF TypeOK
  <2> QED
    BY <2>1
<1> QED
  BY <1>1, <1>2, <1>3, <1>4, <1>5 DEF Next, Ended, Worker, Leave, Throw

-----------------------------------------------------------------------------
(* The workers implement a bounded map                                         *)

LEMMA MapInit == Init => Abstract!Init
<1> SUFFICES ASSUME Init PROVE Abstract!Init
  OBVIOUS
<1> DEFINE started0 == 1 .. (IF next <= N THEN next - 1 ELSE N)
<1> USE DEF Init
<1>1. PICK k \in 0 .. N : Workers = 1 .. k /\ Cardinality(Workers) = k /\ k <= Width
  BY Crew
<1>2. next = k + 1
  BY <1>1
<1>3. (1 .. (IF next <= N THEN next - 1 ELSE N)) = 1 .. k
  BY <1>1, <1>2, NAssumption
<1>4. Cardinality(1 .. (IF next <= N THEN next - 1 ELSE N)) <= Width
  BY <1>1, <1>3
<1>5. 1 .. (IF next <= N THEN next - 1 ELSE N) \in SUBSET (1 .. N)
  BY <1>1, <1>3, NAssumption
<1>6. {i \in 1 .. N : out[i] # Hole} = {} /\ FailedItems = {}
  BY DEF FailedItems
<1>7. outcome = "pending" /\ (IF outcome = "resolved" THEN out ELSE <<>>) = <<>>
  OBVIOUS
<1>8. started0 \in SUBSET (1 .. N) /\ Cardinality(started0) <= Width
  BY <1>4, <1>5
<1>9. Abstract!Cardinality(started0) = Cardinality(started0)
  BY DEF Cardinality, Abstract!Cardinality
<1> HIDE DEF Init, started0
<1> QED
  BY <1>6, <1>7, <1>8, <1>9 DEF Abstract!Init, started0

\* Where all workers are through, every result is in its place.
LEMMA AllResolved ==
  ASSUME PoolInv, \A w \in Workers : wpc[w] = "done"
  PROVE  \A j \in 1 .. N : out[j] # Hole /\ out[j] = Value[j]
<1> USE DEF PoolInv
<1>1. next \in Nat /\ N \in Nat
  BY CrewIsFinite, NAssumption DEF TypeOK
<1>2. \A j \in 1 .. N : j < next
  <2>1. CASE N = 0
    BY <2>1
  <2>2. CASE N # 0
    <3>1. PICK w \in Workers : TRUE
      <4>1. PICK k \in 0 .. N : Workers = 1 .. k /\ k # 0
        BY <2>2, Crew
      <4> QED
        BY <4>1
    <3>2. next > N + 1
      BY <3>1 DEF ClaimInv
    <3> QED
      BY <1>1, <3>2
  <2> QED
    BY <2>1, <2>2
<1> QED
  BY <1>2 DEF ResultInv

LEMMA MapStep ==
  ASSUME PoolInv, [Next]_vars
  PROVE  [Abstract!Next]_(Abstract!vars)
<1> USE DEF PoolInv
<1> DEFINE started == 1 .. (IF next <= N THEN next - 1 ELSE N)
           ended == {i \in 1 .. N : out[i] # Hole}
           result == IF outcome = "resolved" THEN out ELSE <<>>
<1>1. next \in Nat /\ N \in Nat
  BY CrewIsFinite, NAssumption DEF TypeOK
<1>2. ASSUME UNCHANGED <<started, ended, FailedItems, outcome, result>>
      PROVE  UNCHANGED Abstract!vars
  BY <1>2 DEF Abstract!vars
<1>3. ASSUME UNCHANGED mapVars, \A w \in Workers : wpc'[w] = "failed" <=> wpc[w] = "failed"
      PROVE  UNCHANGED Abstract!vars
  <2>1. UNCHANGED <<next, item, out, outcome>> /\ FailedItems' = FailedItems
    BY <1>3 DEF mapVars, FailedItems
  <2> QED
    BY <1>2, <2>1
\* What a worker has claimed is in flight.
<1>4. \A w \in Workers : wpc[w] \notin {"done", "failed"} =>
        item[w] \in 1 .. N /\ item[w] \in started \ (ended \cup FailedItems)
  <2> SUFFICES ASSUME NEW w \in Workers, wpc[w] \notin {"done", "failed"}
               PROVE  item[w] \in 1 .. N /\ item[w] \in started \ (ended \cup FailedItems)
    OBVIOUS
  <2>1. item[w] \in 1 .. N /\ item[w] < next /\ out[item[w]] = Hole
    BY DEF TypeOK, ClaimInv
  <2>2. item[w] \notin FailedItems
    BY DEF FailedItems, ClaimInv
  <2>3. item[w] \in started
    BY <1>1, <2>1
  <2> QED
    BY <2>1, <2>2, <2>3
\* A worker fails with its item.
<1>5. ASSUME NEW w \in Workers, wpc[w] \notin {"done", "failed"}, UNCHANGED mapVars,
             \A v \in Workers : wpc'[v] = "failed" <=> v = w \/ wpc[v] = "failed"
      PROVE  Abstract!Next
  <2>1. UNCHANGED <<next, item, out, outcome>>
    BY <1>5 DEF mapVars
  <2>2. FailedItems' = FailedItems \cup {item[w]}
    BY <1>5, <2>1 DEF FailedItems
  <2>3. UNCHANGED <<started, ended, outcome, result>>
    BY <2>1
  <2>4. PICK i \in 1 .. N : i = item[w]
    BY <1>4, <1>5
  <2>5. Abstract!Fail(i)
    BY <1>4, <1>5, <2>2, <2>3, <2>4 DEF Abstract!Fail, Abstract!InFlight
  <2> QED
    BY <2>5 DEF Abstract!Next
<1>6. ASSUME NEW w \in Workers, Resolve(w) PROVE Abstract!Next
  <2>0. PICK i \in 1 .. N : i = item[w]
    BY DEF TypeOK
  <2>1. /\ wpc[w] = "busy" /\ out' = [out EXCEPT ![i] = Value[i]] /\ next' = next + 1
        /\ outcome' = outcome
    BY <1>6, <2>0 DEF Resolve
  <2>2. i \in 1 .. N /\ i \in started \ (ended \cup FailedItems) /\ Value[i] # Hole
    BY <1>4, <2>0, <2>1, ValueAssumption
  <2>3. ended' = ended \cup {i}
    BY <2>1, <2>2 DEF TypeOK
  <2>4. started' \in {started} \cup {started \cup {j} : j \in (1 .. N) \ started}
    <3>1. CASE next <= N
      <4>1. started = 1 .. next - 1 /\ started' = 1 .. next
        BY <1>1, <2>1, <3>1
      <4>2. next \in (1 .. N) \ started
        BY <1>1, <3>1, <4>1 DEF TypeOK
      <4>3. started' = started \cup {next}
        <5>1. next >= 1
          BY <1>1, <4>2
        <5>2. (1 .. next) = (1 .. next - 1) \cup {next}
          BY <1>1, <5>1
        <5> HIDE DEF started
        <5> QED
          BY <4>1, <5>2
      <4> HIDE DEF started
      <4> QED
        BY <4>2, <4>3
    <3>2. CASE ~ next <= N
      <4>1. started = 1 .. N /\ started' = 1 .. N
        BY <1>1, <2>1, <3>2
      <4> QED
        BY <4>1
    <3> QED
      BY <3>1, <3>2
  <2>5. FailedItems' = FailedItems
    <3>1. \A v \in Workers : wpc[v] = "failed" <=> wpc'[v] = "failed"
      BY <1>6, <2>1 DEF Resolve, TypeOK
    <3>2. \A v \in Workers : wpc[v] = "failed" => item'[v] = item[v]
      BY <1>6, <2>1 DEF Resolve, TypeOK
    <3> QED
      BY <3>1, <3>2 DEF FailedItems
  <2>6. result' = result
    BY <2>1 DEF ResultInv
  <2> HIDE DEF started, ended, result
  <2>7. i \in started \ (ended \cup FailedItems)
    BY <2>2
  <2>8. Abstract!Finish(i)
    BY <2>1, <2>3, <2>4, <2>5, <2>6, <2>7
       DEF Abstract!Finish, Abstract!InFlight, started, ended, result
  <2> QED
    BY <2>8 DEF Abstract!Next
<1>7. ASSUME Settle PROVE Abstract!Resolve \/ Abstract!Reject
  <2>1. outcome = "pending" /\ UNCHANGED <<next, item, out, wpc>>
    BY <1>7 DEF Settle
  <2>2. UNCHANGED <<started, ended, FailedItems>>
    BY <2>1 DEF FailedItems
  <2>3. CASE outcome' = "resolved"
    <3>1. \A w \in Workers : wpc[w] = "done"
      BY <1>7, <2>3 DEF Settle
    <3>3. \A j \in 1 .. N : out[j] # Hole /\ out[j] = Value[j]
      BY <3>1, AllResolved
    <3>4. ended = 1 .. N
      BY <3>3
    <3>5. out = Value
      <4>1. out = [j \in 1 .. N |-> Value[j]]
        BY <3>3 DEF TypeOK
      <4> QED
        BY <4>1, ValueAssumption
    <3>6. result' = Value
      BY <2>1, <2>3, <3>5
    <3> QED
      BY <2>1, <2>2, <2>3, <3>4, <3>6 DEF Abstract!Resolve
  <2>4. CASE outcome' # "resolved"
    <3>1. outcome' = "rejected" /\ \E w \in Workers : wpc[w] = "failed"
      BY <1>7, <2>4 DEF Settle
    <3>2. FailedItems # {}
      BY <3>1 DEF FailedItems
    <3>3. result' = result
      BY <2>1, <3>1
    <3> QED
      BY <2>1, <2>2, <3>1, <3>2, <3>3 DEF Abstract!Reject
  <2> QED
    BY <2>3, <2>4
<1>8. ASSUME NEW w \in Workers, Reject(w) PROVE Abstract!Next
  BY <1>5, <1>8 DEF Reject, TypeOK
<1>9. ASSUME NEW w \in Workers, Acquire(w) \/ Enter(w) PROVE UNCHANGED Abstract!vars
  BY <1>3, <1>9 DEF Acquire, Enter, TypeOK
<1>10. ASSUME NEW w \in Workers, wpc[w] = "running", NEW pc \in {"busy", "failed"},
              Release(w, pc), UNCHANGED mapVars
       PROVE  Abstract!Next \/ UNCHANGED Abstract!vars
  <2>1. \A v \in Workers : wpc'[v] = "failed" <=> (v = w /\ pc = "failed") \/ wpc[v] = "failed"
    <3>1. CASE waiting # <<>>
      <4>1. Head(waiting) \in Elements(waiting)
        BY <3>1, Advanced, PermitsByName DEF TypeOK
      <4>2. wpc[Head(waiting)] = "waiting"
        BY <4>1, PermitsByName DEF Waiting
      <4> QED
        BY <1>10, <3>1, <4>2 DEF Release, TypeOK
    <3>2. CASE waiting = <<>>
      BY <1>10, <3>2 DEF Release, TypeOK
    <3> QED
      BY <3>1, <3>2
  <2> QED
    BY <1>3, <1>5, <1>10, <2>1
<1>11. ASSUME NEW w \in Workers, Leave(w) \/ Throw(w)
       PROVE  Abstract!Next \/ UNCHANGED Abstract!vars
  BY <1>10, <1>11 DEF Leave, Throw
<1>12. ASSUME UNCHANGED vars PROVE UNCHANGED Abstract!vars
  BY <1>3, <1>12 DEF vars
<1> HIDE DEF started, ended, result
<1>13. ASSUME NEW w \in Workers, Worker(w) PROVE [Abstract!Next]_(Abstract!vars)
  BY <1>6, <1>8, <1>9, <1>11, <1>13 DEF Worker
<1>14. ASSUME Settle PROVE [Abstract!Next]_(Abstract!vars)
  BY <1>7, <1>14 DEF Abstract!Next
<1>15. ASSUME Ended PROVE [Abstract!Next]_(Abstract!vars)
  BY <1>12, <1>15 DEF Ended
<1> QED
  BY <1>12, <1>13, <1>14, <1>15 DEF Next

-----------------------------------------------------------------------------
(* The report takes the steps of the map, and of nothing else of it            *)

LEMMA ReportStepsPool == [ReportNext]_reportVars => [Next]_vars
<1> SUFFICES ASSUME [ReportNext]_reportVars PROVE [Next]_vars
  OBVIOUS
<1>1. ASSUME NEW w \in Workers, Scored(w) \/ Working(w) PROVE Next
  BY <1>1 DEF Scored, Working, Next, Worker
<1>2. ASSUME Settled PROVE Next
  BY <1>2 DEF Settled, Next
<1>3. ASSUME NEW f \in Output, Publish(f) \/ Interrupted(f) PROVE UNCHANGED vars
  BY <1>3 DEF Publish, Interrupted
<1> QED
  BY <1>1, <1>2, <1>3 DEF ReportNext, reportVars, Refuse, Exit, BuildHarnesses

LEMMA ReportIsPool == ReportSpec => Spec
<1>1. ReportInit => Init
  BY DEF ReportInit
<1> QED
  BY <1>1, ReportStepsPool, PTL DEF ReportSpec, Spec

(* However many images are scored and whoever fails or times out with a permit,    *)
(* no process is started beyond the permits and none is lost (pool.ts, Semaphore). *)
THEOREM PermitsStay == ReportSpec => []PermitsConserved
<1>1. PoolInv => PermitsConserved
  BY DEF PoolInv, PermitsInv
<1> QED
  BY <1>1, ReportIsPool, PoolInvAlways, PTL

(* A permit goes to the worker that waits longest, or to one that comes while      *)
(* nobody waits (pool.ts, release against the comment of Semaphore).               *)
THEOREM NobodyOvertakes == ReportSpec => NoOvertaking
<1>1. PoolInv /\ [Next]_vars =>
        [\A w \in Workers : wpc[w] # "granted" /\ wpc'[w] = "granted" =>
           waiting = <<>> \/ w = Head(waiting)]_vars
  BY OnlyTheHead
<1> QED
  BY <1>1, ReportIsPool, PoolInvAlways, PTL DEF Spec, NoOvertaking

(* For any number of images and any limit, mapConcurrent is a bounded map: each    *)
(* image once, no more than the limit in flight, results by index, and a rejection *)
(* only if some application rejected.                                              *)
THEOREM PoolImplementsMap == ReportSpec => Refines
<1>1. PoolInv /\ [Next]_vars => [Abstract!Next]_(Abstract!vars)
  BY MapStep
<1> QED
  BY <1>1, ReportIsPool, PoolInvAlways, MapInit, PTL DEF Spec, Refines, Abstract!Spec

-----------------------------------------------------------------------------
(* Entries                                                                     *)

LEMMA EntriesInit == ReportInit => EntriesInv
<1> SUFFICES ASSUME ReportInit PROVE EntriesInv
  OBVIOUS
<1>1. entries = [i \in 1 .. N |-> NoEntry] /\ out = [i \in 1 .. N |-> Hole]
  BY DEF ReportInit, Init
<1> QED
  BY <1>1 DEF EntriesInv

LEMMA EntriesLeft ==
  ASSUME EntriesInv, UNCHANGED <<out, entries>>
  PROVE  EntriesInv'
BY DEF EntriesInv

LEMMA EntriesScored ==
  ASSUME PoolInv, EntriesInv, NEW w \in Workers, Scored(w)
  PROVE  EntriesInv'
<1>1. PICK i \in 1 .. N : i = item[w]
  BY DEF PoolInv, TypeOK
<1>2. PICK ran \in Outcomes[i], lost \in Lost[i], gone \in Gone[i] :
        entries' = [entries EXCEPT ![i] = Entry(Restricted(ran), lost, gone)]
  BY <1>1 DEF Scored
<1>3. out' = [out EXCEPT ![i] = Value[i]]
  BY <1>1 DEF Scored, Resolve
<1> DEFINE new == Entry(Restricted(ran), lost, gone)
<1>4. /\ new.done /\ new.ran = Restricted(ran)
      /\ new.rows = RunAllHarnesses(Restricted(ran), lost)
  BY DEF Entry
<1>5. DOMAIN Restricted(ran) \subseteq Languages
  BY DEF Restricted, Harnesses
<1>6. DOMAIN entries' = 1 .. N /\ \A j \in 1 .. N : entries'[j] = IF j = i THEN new ELSE entries[j]
  BY <1>2 DEF EntriesInv
<1>7. \A j \in 1 .. N : j # i => out'[j] = out[j]
  BY <1>3 DEF PoolInv, TypeOK
<1> HIDE DEF new
<1>8. ASSUME NEW j \in 1 .. N
      PROVE  /\ \/ entries'[j] = NoEntry
                \/ /\ DOMAIN entries'[j].ran \subseteq Languages
                   /\ \E x \in Lost[j] : entries'[j].rows = RunAllHarnesses(entries'[j].ran, x)
             /\ out'[j] # Hole => entries'[j].done
  <2>1. CASE j = i
    <3>1. entries'[j] = new
      BY <1>6, <2>1
    <3> QED
      BY <1>2, <1>4, <1>5, <2>1, <3>1
  <2>2. CASE j # i
    <3>1. entries'[j] = entries[j] /\ out'[j] = out[j]
      BY <1>6, <1>7, <2>2
    <3> QED
      BY <3>1 DEF EntriesInv
  <2> QED
    BY <2>1, <2>2
<1> QED
  BY <1>6, <1>8 DEF EntriesInv

\* What the row of a language says of the bytes that were seen.
LEMMA RowsSay ==
  ASSUME EntriesInv, NEW i \in 1 .. N
  PROVE  /\ DOMAIN Rows[i] = DOMAIN entries[i].ran
         /\ \A l \in DOMAIN Rows[i] :
              /\ ~ Rows[i][l].error =>
                   /\ Bytes(i, l) # NoHash /\ Bytes(i, Reference) # NoHash
                   /\ Rows[i][l].matches <=> Bytes(i, l) = Bytes(i, Reference)
              /\ Rows[i][l].preview # NoHash => Rows[i][l].preview = Bytes(i, l)
<1>1. Rows[i] = entries[i].rows
  BY DEF Rows
<1>2. CASE entries[i] = NoEntry
  <2>1. entries[i].rows = <<>> /\ entries[i].ran = <<>>
    BY <1>2 DEF NoEntry
  <2> QED
    BY <1>1, <2>1
<1>3. CASE entries[i] # NoEntry
  <2> DEFINE ran == entries[i].ran
  <2>1. PICK lost \in Lost[i] : entries[i].rows = RunAllHarnesses(ran, lost)
    BY <1>3 DEF EntriesInv
  <2>2. Rows[i] = [l \in DOMAIN ran |-> Row(l, ran, lost)]
    BY <1>1, <2>1 DEF RunAllHarnesses
  <2>3. ReferenceHash(ran) = Bytes(i, Reference)
    BY DEF ReferenceHash, Bytes
  <2>4. ASSUME NEW l \in DOMAIN ran
        PROVE  /\ ~ Row(l, ran, lost).error =>
                    /\ Bytes(i, l) # NoHash /\ ReferenceHash(ran) # NoHash
                    /\ Row(l, ran, lost).matches <=> Bytes(i, l) = ReferenceHash(ran)
               /\ Row(l, ran, lost).preview # NoHash => Row(l, ran, lost).preview = Bytes(i, l)
    <3> DEFINE e == Encoded(ran[l])
    <3>1. Bytes(i, l) = e.hash
      BY DEF Bytes
    <3>2. /\ e.error \in BOOLEAN
          /\ ~ e.error => e.hash # NoHash
      BY LanguagesAssumption DEF Encoded
    <3> HIDE DEF e
    <3>3. CASE e.error
      <4>1. Row(l, ran, lost) = [hash |-> NoHash, matches |-> FALSE, error |-> TRUE, preview |-> NoHash]
        BY <3>3 DEF Row, e
      <4> QED
        BY <4>1
    <3>4. CASE ~ e.error
      <4>1. /\ Row(l, ran, lost).matches = SameAsReference(e.hash, ran)
            /\ ~ Row(l, ran, lost).error => ReferenceHash(ran) # NoHash
            /\ Row(l, ran, lost).preview \in {e.hash, NoHash}
        BY <3>4 DEF Row, e
      <4> QED
        BY <3>1, <3>2, <3>4, <4>1 DEF SameAsReference
    <3> QED
      BY <3>2, <3>3, <3>4
  <2> HIDE DEF ran
  <2> QED
    BY <2>2, <2>3, <2>4 DEF ran
<1> QED
  BY <1>2, <1>3

\* So the verdict is one on bytes that were seen.
LEMMA VerdictFromRows == EntriesInv => VerdictObserved
<1> SUFFICES ASSUME EntriesInv, NEW l \in Languages
             PROVE  LET v == CrossLanguage(Rows, l) IN
                    /\ v = "fail" => \E i \in 1 .. N : Differ(i, l)
                    /\ v = "pass" => \E i \in 1 .. N : Agree(i, l)
                    /\ v = "null" <=> LangPassFail(Rows)[l] = "N/A"
                    /\ v = "pass" <=> LangPassFail(Rows)[l] = "PASS"
                    /\ l \in DOMAIN Printed(Rows) => Printed(Rows)[l] = LangPassFail(Rows)[l]
                    /\ \A i \in Ran(Rows, l) :
                         Rows[i][l].preview # NoHash => Rows[i][l].preview = Bytes(i, l)
  BY DEF VerdictObserved
<1> DEFINE v == CrossLanguage(Rows, l)
<1>1. DOMAIN Rows = 1 .. N
  BY DEF Rows
<1>2. \A i \in Ran(Rows, l) : i \in 1 .. N /\ l \in DOMAIN Rows[i]
  BY <1>1 DEF Ran
<1> USE DEF Agree, Differ, Bytes
<1>3. \A i \in Observed(Rows, l) :
        /\ i \in 1 .. N
        /\ Rows[i][l].matches => Agree(i, l)
        /\ ~ Rows[i][l].matches => Differ(i, l)
  BY <1>2, RowsSay DEF Observed
<1>4. v = IF HarnessesSkipped(Rows) \/ Observed(Rows, l) = {} THEN "null"
          ELSE IF \A i \in Observed(Rows, l) : Rows[i][l].matches THEN "pass" ELSE "fail"
  BY DEF CrossLanguage
<1>5. LangPassFail(Rows)[l] = IF HarnessesSkipped(Rows) \/ Observed(Rows, l) = {} THEN "N/A"
                              ELSE IF \E i \in Observed(Rows, l) : ~ Rows[i][l].matches THEN "FAIL" ELSE "PASS"
  BY DEF LangPassFail
<1>6. l \in DOMAIN Printed(Rows) => Printed(Rows)[l] = LangPassFail(Rows)[l]
  <2> SUFFICES ASSUME l \in DOMAIN Printed(Rows) PROVE Printed(Rows)[l] = LangPassFail(Rows)[l]
    OBVIOUS
  <2>1. Ran(Rows, l) # {}
    BY DEF Printed
  <2>2. ~ HarnessesSkipped(Rows)
    BY <1>1, <1>2, <2>1 DEF HarnessesSkipped
  <2>3. Printed(Rows)[l] = IF Observed(Rows, l) = {} THEN "N/A"
                           ELSE IF \A i \in Observed(Rows, l) : Rows[i][l].matches THEN "PASS" ELSE "FAIL"
    BY DEF Printed
  <2> QED
    BY <1>5, <2>2, <2>3
<1>7. \A i \in Ran(Rows, l) : Rows[i][l].preview # NoHash => Rows[i][l].preview = Bytes(i, l)
  BY <1>2, RowsSay
<1> HIDE DEF v
<1>8. ASSUME v = "fail" PROVE \E i \in 1 .. N : Differ(i, l)
  <2>1. PICK i \in Observed(Rows, l) : ~ Rows[i][l].matches
    BY <1>4, <1>8
  <2> QED
    BY <1>3, <2>1
<1>9. ASSUME v = "pass" PROVE \E i \in 1 .. N : Agree(i, l)
  <2>1. PICK i \in Observed(Rows, l) : Rows[i][l].matches
    BY <1>4, <1>9
  <2> QED
    BY <1>3, <2>1
<1>10. (v = "null" <=> LangPassFail(Rows)[l] = "N/A") /\ (v = "pass" <=> LangPassFail(Rows)[l] = "PASS")
  BY <1>4, <1>5
<1> QED
  BY <1>6, <1>7, <1>8, <1>9, <1>10 DEF v

-----------------------------------------------------------------------------
(* Pages                                                                       *)

LEMMA PathsDiffer ==
  ASSUME NEW o \in Options, NEW f \in Output
  PROVE  /\ PathOf(Mode(o), f) \in Modes \X Output
         /\ \A g \in Output : g # f => PathOf(Mode(o), g) # PathOf(Mode(o), f)
BY DEF PathOf, Mode, Modes, Output

LEMMA PagesInit == ReportInit => PageInv
<1> SUFFICES ASSUME ReportInit PROVE PageInv
  OBVIOUS
<1>1. files = [p \in Modes \X Output |-> "old"] /\ stage = "start" /\ options \in Options
  BY DEF ReportInit
<1>2. \A f \in Output : Page(f) = "old"
  BY <1>1, PathsDiffer DEF Page
<1> QED
  BY <1>1, <1>2 DEF PageInv, Output

\* While nothing is written.
LEMMA PagesUnwritten ==
  ASSUME PageInv, UNCHANGED <<options, files>>, \A f \in Output : Page(f) = "old",
         stage' \in {"start", "score", "images", "exited"},
         stage' \notin {"start", "exited"} => options \notin Refused,
         stage' = "images" => outcome' = "resolved"
  PROVE  PageInv'
BY DEF PageInv, Page, Output

LEMMA PagesLeft ==
  ASSUME PageInv, UNCHANGED <<options, files, stage>>, outcome' = outcome
  PROVE  PageInv'
BY DEF PageInv, Page

\* One page is written, or torn.
LEMMA PagesPut ==
  ASSUME PageInv, options \in Options, NEW f \in Output, stage = f, NEW what \in {"new", "torn"},
         files' = [files EXCEPT ![PathOf(Mode(options), f)] = what],
         stage' = IF what = "new" THEN After[f] ELSE "exited",
         UNCHANGED <<options, outcome>>
  PROVE  PageInv'
<1>1. DOMAIN files' = Modes \X Output
  BY DEF PageInv
<1>2. \A g \in Output : Page(g)' = IF g = f THEN what ELSE Page(g)
  BY PathsDiffer DEF PageInv, Page
<1>3. /\ f \in {"images", "json", "html"} /\ After["images"] = "json"
      /\ After["json"] = "html" /\ After["html"] = "written"
  BY DEF Output, After
<1>4. outcome = "resolved" /\ options \notin Refused
  BY DEF PageInv, Output
<1>5. stage' \in {"json", "html", "written", "exited"}
  BY <1>3
<1>6. CASE f = "images"
  BY <1>1, <1>2, <1>3, <1>4, <1>5, <1>6 DEF PageInv, Output
<1>7. CASE f = "json"
  BY <1>1, <1>2, <1>3, <1>4, <1>5, <1>7 DEF PageInv, Output
<1>8. CASE f = "html"
  BY <1>1, <1>2, <1>3, <1>4, <1>5, <1>8 DEF PageInv, Output
<1> QED
  BY <1>3, <1>6, <1>7, <1>8

LEMMA ReportInvInit == ReportInit => ReportInv
<1>1. ReportInit => Init /\ options \in Options
  BY DEF ReportInit
<1> QED
  BY <1>1, PoolInvInit, EntriesInit, PagesInit DEF ReportInv

LEMMA ReportInvStep == ReportInv /\ [ReportNext]_reportVars => ReportInv'
<1> SUFFICES ASSUME ReportInv, [ReportNext]_reportVars PROVE ReportInv'
  OBVIOUS
<1> USE DEF ReportInv
<1>1. PoolInv'
  BY ReportStepsPool, PoolInvStep
<1>2. ASSUME UNCHANGED <<vars, options, unavailable, entries>>
      PROVE  EntriesInv' /\ options' \in Options /\ outcome' = outcome
  BY <1>2, EntriesLeft DEF vars, mapVars
<1>3. ASSUME UNCHANGED reportVars PROVE PageInv' /\ EntriesInv' /\ options' \in Options
  <2>1. UNCHANGED <<options, files, stage>>
    BY <1>3 DEF reportVars
  <2> QED
    BY <1>2, <1>3, <2>1, PagesLeft DEF reportVars
<1>4. ASSUME Refuse PROVE PageInv' /\ EntriesInv' /\ options' \in Options
  <2>1. stage = "start" /\ stage' = "exited" /\ UNCHANGED <<vars, options, unavailable, entries, files>>
    BY <1>4 DEF Refuse, Exit
  <2>2. \A f \in Output : Page(f) = "old"
    BY <2>1 DEF PageInv
  <2> QED
    BY <1>2, <2>1, <2>2, PagesUnwritten
<1>5. ASSUME BuildHarnesses PROVE PageInv' /\ EntriesInv' /\ options' \in Options
  <2>1. /\ stage = "start" /\ stage' = "score" /\ options \notin Refused
        /\ UNCHANGED <<vars, options, entries, files>>
    BY <1>5 DEF BuildHarnesses
  <2>2. \A f \in Output : Page(f) = "old"
    BY <2>1 DEF PageInv
  <2>3. out' = out
    BY <2>1 DEF vars, mapVars
  <2> QED
    BY <2>1, <2>2, <2>3, PagesUnwritten, EntriesLeft
<1>6. ASSUME Settled PROVE PageInv' /\ EntriesInv' /\ options' \in Options
  <2>1. /\ stage = "score" /\ stage' = IF outcome' = "resolved" THEN "images" ELSE "exited"
        /\ UNCHANGED <<options, entries, files, out>>
    BY <1>6 DEF Settled, Settle
  <2>2. (\A f \in Output : Page(f) = "old") /\ options \notin Refused
    BY <2>1 DEF PageInv
  <2> QED
    BY <2>1, <2>2, PagesUnwritten, EntriesLeft
<1>7. ASSUME NEW w \in Workers, Scored(w) PROVE PageInv' /\ EntriesInv' /\ options' \in Options
  <2>1. UNCHANGED <<options, stage, files, outcome>>
    BY <1>7 DEF Scored, Resolve
  <2> QED
    BY <1>7, <2>1, PagesLeft, EntriesScored
<1>8. ASSUME NEW w \in Workers, Working(w) PROVE PageInv' /\ EntriesInv' /\ options' \in Options
  <2>1. UNCHANGED <<options, stage, files, entries>>
    BY <1>8 DEF Working
  <2>2. UNCHANGED <<out, outcome>>
    BY <1>8 DEF Working, Reject, Acquire, Enter, Leave, Throw, mapVars
  <2> QED
    BY <2>1, <2>2, PagesLeft, EntriesLeft
<1>9. ASSUME NEW f \in Output, Publish(f) \/ Interrupted(f)
      PROVE  PageInv' /\ EntriesInv' /\ options' \in Options
  <2>1. UNCHANGED <<vars, options, unavailable, entries>> /\ stage = f
    BY <1>9 DEF Publish, Interrupted
  <2>2. PICK what \in {"new", "torn"} :
          /\ files' = [files EXCEPT ![PathOf(Mode(options), f)] = what]
          /\ stage' = IF what = "new" THEN After[f] ELSE "exited"
    BY <1>9 DEF Publish, Interrupted
  <2> QED
    BY <1>2, <2>1, <2>2, PagesPut
<1> QED
  BY <1>1, <1>3, <1>4, <1>5, <1>6, <1>7, <1>8, <1>9 DEF ReportNext

LEMMA ReportInvAlways == ReportSpec => []ReportInv
BY ReportInvInit, ReportInvStep, PTL DEF ReportSpec

(* For any languages, images and outcomes: a language fails or passes only for     *)
(* bytes that it and Rust both gave, and report.json, report.html and what is      *)
(* printed say the same (main.ts, report.ts, harness-runner.ts).                   *)
THEOREM VerdictsAreObserved == ReportSpec => []VerdictObserved
<1>1. ReportInv => VerdictObserved
  BY VerdictFromRows DEF ReportInv
<1> QED
  BY <1>1, ReportInvAlways, PTL

(* A report is of a run that lost nothing, and its pages are written in order, if  *)
(* the columns that a command line asks for have names that differ: a fact about   *)
(* the strings of the code, which the runs check (main.ts, after the images).      *)
THEOREM ReportsAreWhole ==
  ASSUME \A o \in Options \ Refused : IsInjective(ActiveFormatNames[o])
  PROVE  ReportSpec => []ReportWhole
<1>1. ReportInv => ReportWhole
  <2> SUFFICES ASSUME ReportInv PROVE ReportWhole
    OBVIOUS
  <2> USE DEF ReportInv
  <2>1. outcome = "resolved" => \A i \in 1 .. N : entries[i].done
    <3>1. outcome = "resolved" => \A i \in 1 .. N : out[i] # Hole
      BY AllResolved DEF PoolInv, ResultInv
    <3> QED
      BY <3>1 DEF EntriesInv
  <2>2. stage # "exited" /\ stage # "start" => IsInjective(ActiveFormatNames[options])
    BY DEF PageInv
  <2>3. \A f \in Output : Page(f) = files[PathOf(Mode(options), f)]
    BY DEF Page
  <2>4. {"images", "json", "html"} = Output
    BY DEF Output
  <2> QED
    BY <2>1, <2>2, <2>3, <2>4 DEF ReportWhole, PageInv, Page
<1> QED
  BY <1>1, ReportInvAlways, PTL
=============================================================================
