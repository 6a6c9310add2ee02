------------------------ MODULE Measurements_proofs ------------------------
(***************************************************************************)
(* What holds of measurements, and of what is derived from them: of the    *)
(* scores and of their cache for any number of processes and calls, any    *)
(* pictures, requests and binaries, and whatever iqa-cli makes of them; of *)
(* spec/PERFORMANCE.md for any sweeps, hosts, rows of the page and edits;  *)
(* of a sweep's decision table and its readers for any scores, images and  *)
(* draws of the bootstrap; of excursions and analysis grids for rasters of *)
(* any size; and of labels for any tune strings and defaults.              *)
(***************************************************************************)
EXTENDS MetricCache, Benchmark, Analysis, LocalMetrics, FiniteSetTheorems,
        SequenceTheorems, WellFoundedInduction, TLAPS

(* The invariant. An entry is what its key says because the call that renames  *)
(* it there holds the scores of one binary for what it produced, and the       *)
(* binary cannot change while the process of that call is up.                  *)

InMotion == {"full run", "reduced run", "open", "write", "rename", "cleanup"}
Answered == {"open", "write", "rename", "cleanup"}

\* A call moves in a process that is up, on the binary the process started with.
ProcInv ==
  /\ \A p \in Procs : proc[p] = "up" => binary[p] = installed
  /\ \A t \in Tasks : /\ pc[t] \in InMotion => proc[Owner[t]] = "up"
                      /\ pc[t] # "new" => proc[Owner[t]] # "off"

\* One binary said all that t answers, of its pair and for the metrics in set; the
\* process's own binary, if it insists on one.
Genuine(t, set) ==
  \E v \in 1 .. LastBinary :
    /\ answer[t] = IqaMetricsOf(v, pair[t], set)
    /\ ~ allow[Owner[t]] => v = binary[Owner[t]]

TaskInv ==
  \A t \in Tasks :
    /\ pc[t] \in Answered => produced[t] \in {want[t], want[t] \cap Always} /\ Genuine(t, produced[t])
    /\ pc[t] \in {"write", "rename"} => t \in DOMAIN temps
    /\ pc[t] = "rename" => temps[t] = answer[t]

Inv == TypeOK /\ ProcInv /\ TaskInv /\ EntriesFaithful /\ AnswersGenuine

-----------------------------------------------------------------------------
(* The scores of a binary                                                      *)

LEMMA ScoresAreEntries ==
  ASSUME NEW v \in 1 .. LastBinary, NEW x \in Pairs, NEW set \in SUBSET Metrics
  PROVE  IqaMetricsOf(v, x, set) \in Entries
<1> \A m \in set : <<v, x, m>> \in DOMAIN Score
  BY ScoreAssumption
<1> QED
  BY DEF IqaMetricsOf, Entries

LEMMA InvInit == Init => Inv
<1> SUFFICES ASSUME Init PROVE Inv
  OBVIOUS
<1>1. NullMetrics \in Entries
  BY DEF NullMetrics, Entries
<1>2. TypeOK
  <2>1. 1 \in 1 .. LastBinary
    BY BinaryAssumption
  <2>2. [t \in Tasks |-> NullMetrics] \in [Tasks -> Entries]
    BY <1>1
  <2>3. DOMAIN files = {} /\ DOMAIN temps = {}
    BY DEF Init
  <2> QED
    BY <2>1, <2>2, <2>3 DEF Init, TypeOK
<1>3. ProcInv /\ TaskInv /\ AnswersGenuine
  BY OwnerAssumption DEF Init, ProcInv, TaskInv, AnswersGenuine, InMotion, Answered
<1>4. EntriesFaithful
  BY DEF Init, EntriesFaithful
<1> QED
  BY <1>2, <1>3, <1>4 DEF Inv

-----------------------------------------------------------------------------
(* What one call does to itself alone. A step of a call t leaves the others    *)
(* where they are; whatever it stores of t only has to hold of t.              *)

\* The part of the invariant about one call.
CallOK(t) ==
  /\ pc[t] \in InMotion => proc[Owner[t]] = "up"
  /\ pc[t] # "new" => proc[Owner[t]] # "off"
  /\ pc[t] \in Answered => produced[t] \in {want[t], want[t] \cap Always} /\ Genuine(t, produced[t])
  /\ pc[t] \in {"write", "rename"} => t \in DOMAIN temps
  /\ pc[t] = "rename" => temps[t] = answer[t]
  /\ pc[t] \in {"hit", "scored"} => Genuine(t, want[t])
  /\ pc[t] = "reduced" => Genuine(t, want[t] \cap Always)

LEMMA ByCall ==
  (ProcInv /\ TaskInv /\ AnswersGenuine) <=>
     /\ \A p \in Procs : proc[p] = "up" => binary[p] = installed
     /\ \A t \in Tasks : CallOK(t)
BY DEF ProcInv, TaskInv, AnswersGenuine, CallOK, Genuine

LEMMA OthersKept ==
  ASSUME NEW t \in Tasks, NEW s \in Tasks, s # t, CallOK(s),
         UNCHANGED <<procVars, taskVars>>,
         pc'[s] = pc[s], produced'[s] = produced[s], answer'[s] = answer[s],
         s \in DOMAIN temps => s \in DOMAIN temps' /\ temps'[s] = temps[s]
  PROVE  CallOK(s)'
BY DEF CallOK, Genuine, procVars, taskVars

LEMMA ByCallNext ==
  (ProcInv /\ TaskInv /\ AnswersGenuine)' <=>
     /\ \A p \in Procs : proc'[p] = "up" => binary'[p] = installed'
     /\ \A t \in Tasks : CallOK(t)'
BY DEF ProcInv, TaskInv, AnswersGenuine, CallOK, Genuine

\* A step of one call, if it leaves the call itself, the types and the cache right.
LEMMA CallSteps ==
  ASSUME Inv, NEW t \in Tasks, UNCHANGED <<installed, procVars, taskVars>>,
         \A s \in Tasks \ {t} :
           /\ pc'[s] = pc[s] /\ produced'[s] = produced[s] /\ answer'[s] = answer[s]
           /\ s \in DOMAIN temps => s \in DOMAIN temps' /\ temps'[s] = temps[s],
         CallOK(t)', TypeOK', EntriesFaithful'
  PROVE  Inv'
<1>1. /\ \A p \in Procs : proc[p] = "up" => binary[p] = installed
      /\ \A s \in Tasks : CallOK(s)
  BY ByCall DEF Inv
<1>2. \A s \in Tasks : CallOK(s)'
  BY <1>1, OthersKept
<1>3. \A p \in Procs : proc'[p] = "up" => binary'[p] = installed'
  BY <1>1 DEF procVars
<1> QED
  BY <1>2, <1>3, ByCallNext DEF Inv

-----------------------------------------------------------------------------
(* Processes                                                                   *)

LEMMA InvStart == ASSUME Inv, NEW p \in Procs, Start(p) PROVE Inv'
<1> USE DEF Inv
<1>1. PICK a \in Modes : allow' = [allow EXCEPT ![p] = a]
  BY DEF Start
<1>2. TypeOK'
  BY <1>1, MetricsAssumption DEF TypeOK, Start, taskVars
<1>3. ProcInv'
  <2>1. proc' = [proc EXCEPT ![p] = "up"] /\ binary' = [binary EXCEPT ![p] = installed]
        /\ installed' = installed /\ pc' = pc
    BY DEF Start
  <2> QED
    BY <2>1, OwnerAssumption DEF ProcInv, TypeOK
<1>4. \A t \in Tasks : pc[t] # "new" => Owner[t] # p
  BY DEF Start, ProcInv
<1>5. \A t \in Tasks : pc[t] # "new" =>
        allow'[Owner[t]] = allow[Owner[t]] /\ binary'[Owner[t]] = binary[Owner[t]]
  BY <1>1, <1>4, OwnerAssumption DEF Start, TypeOK
<1>6. TaskInv' /\ AnswersGenuine'
  BY <1>5 DEF Start, TaskInv, AnswersGenuine, Answered, Genuine, taskVars
<1>7. EntriesFaithful'
  BY DEF Start, EntriesFaithful
<1> QED
  BY <1>2, <1>3, <1>6, <1>7

LEMMA InvStop == ASSUME Inv, NEW p \in Procs, Stop(p) PROVE Inv'
<1> USE DEF Inv
<1>1. \A t \in Tasks : (pc'[t] = "lost" /\ Owner[t] = p) \/ pc'[t] = pc[t]
  BY DEF Stop
<1>2. TypeOK'
  <2>1. pc' \in [Tasks -> {"new", "full run", "reduced run", "open", "write", "rename",
                           "cleanup", "lost"} \cup Ended]
    BY DEF Stop, TypeOK
  <2> QED
    BY <2>1 DEF TypeOK, Stop, taskVars
<1>3. ProcInv'
  <2>1. proc' = [proc EXCEPT ![p] = "over"] /\ binary' = binary /\ installed' = installed
    BY DEF Stop
  <2>2. \A q \in Procs : proc'[q] = "up" => binary'[q] = installed'
    BY <2>1 DEF ProcInv, TypeOK
  <2>3. ASSUME NEW t \in Tasks
        PROVE  /\ pc'[t] \in InMotion => proc'[Owner[t]] = "up"
               /\ pc'[t] # "new" => proc'[Owner[t]] # "off"
    <3>1. CASE Owner[t] = p
      <4>1. pc'[t] \notin InMotion
        BY <3>1 DEF Stop, InMotion, Ended, TypeOK
      <4> QED
        BY <4>1, <2>1, <3>1, OwnerAssumption DEF TypeOK
    <3>2. CASE Owner[t] # p
      BY <3>2, <2>1, <1>1, OwnerAssumption DEF TypeOK, ProcInv
    <3> QED
      BY <3>1, <3>2
  <2> QED
    BY <2>2, <2>3 DEF ProcInv
<1>4. TaskInv' /\ AnswersGenuine'
  <2>1. UNCHANGED <<allow, binary, pair, want, produced, answer, temps>>
    BY DEF Stop, taskVars
  <2>2. \A t \in Tasks : CallOK(t)
    BY ByCall
  <2>3. \A t \in Tasks : \A set : Genuine(t, set) => Genuine(t, set)'
    BY <2>1 DEF Genuine
  <2>4. ASSUME NEW t \in Tasks PROVE CallOK(t)'
    <3>1. CASE pc'[t] = "lost"
      BY <1>3, <3>1 DEF CallOK, ProcInv, InMotion, Answered
    <3>2. CASE pc'[t] = pc[t]
      BY <1>3, <2>1, <2>2, <2>3, <3>2 DEF CallOK, ProcInv
    <3> QED
      BY <1>1, <3>1, <3>2
  <2>5. \A q \in Procs : proc'[q] = "up" => binary'[q] = installed'
    BY <1>3 DEF ProcInv
  <2> QED
    BY <2>4, <2>5, ByCallNext
<1>5. EntriesFaithful'
  BY DEF Stop, EntriesFaithful
<1> QED
  BY <1>2, <1>3, <1>4, <1>5

LEMMA InvUpgrade == ASSUME Inv, Upgrade PROVE Inv'
<1> USE DEF Inv
<1>1. TypeOK'
  <2>1. installed' \in 1 .. LastBinary
    <3>1. installed \in 1 .. LastBinary /\ installed < LastBinary /\ installed' = installed + 1
      BY DEF TypeOK, Upgrade
    <3> QED
      BY <3>1, BinaryAssumption
  <2>2. UNCHANGED <<proc, allow, binary, at, pc, pair, want, produced, answer, files, temps, dirs>>
    BY DEF Upgrade, procVars, taskVars
  <2> QED
    BY <2>1, <2>2 DEF TypeOK
<1>2. ProcInv' /\ TaskInv' /\ AnswersGenuine'
  BY DEF Upgrade, ProcInv, TaskInv, AnswersGenuine, Genuine, procVars, taskVars
<1>3. EntriesFaithful'
  BY DEF Upgrade, EntriesFaithful
<1> QED
  BY <1>1, <1>2, <1>3

-----------------------------------------------------------------------------
(* computeIqaMetrics                                                           *)

\* A call that moves on without a score, and touches no file.
LEMMA InvUnscored ==
  ASSUME Inv, NEW t \in Tasks, Empty(t) \/ Miss(t) \/ Unencoded(t) \/ FallBack(t) \/ GiveUp(t)
  PROVE  Inv'
<1> USE DEF Inv
<1>1. PICK where \in {"full run", "reduced run", "degraded", "failed"} :
        pc' = [pc EXCEPT ![t] = where]
  BY DEF Empty, Miss, Unencoded, FallBack, GiveUp
<1>2. UNCHANGED <<installed, procVars, at, taskVars, produced, answer, files, temps>>
  BY DEF Empty, Miss, Unencoded, FallBack, GiveUp
<1>3. proc[Owner[t]] = "up" /\ dirs' \subseteq dirs \cup {t}
  BY DEF Empty, Miss, Unencoded, FallBack, GiveUp, Turn
<1>4. TypeOK'
  <2>1. pc' \in [Tasks -> {"new", "full run", "reduced run", "open", "write", "rename",
                           "cleanup", "lost"} \cup Ended]
    BY <1>1 DEF TypeOK, Ended
  <2>2. dirs' \subseteq Tasks
    BY <1>3 DEF TypeOK
  <2>3. answer' = answer /\ produced' = produced /\ files' = files /\ temps' = temps
    BY <1>2
  <2> QED
    BY <1>2, <2>1, <2>2, <2>3 DEF TypeOK, procVars, taskVars
<1>5. CallOK(t)'
  BY <1>1, <1>2, <1>3 DEF CallOK, TypeOK, Answered, procVars
<1>6. EntriesFaithful'
  BY <1>2 DEF EntriesFaithful
<1> QED
  BY <1>1, <1>2, <1>4, <1>5, <1>6, CallSteps DEF TypeOK

LEMMA InvHit == ASSUME Inv, NEW t \in Tasks, Hit(t) PROVE Inv'
<1> USE DEF Inv
<1> DEFINE k == KeyOf(t, want[t])
<1>1. /\ pc' = [pc EXCEPT ![t] = "hit"] /\ proc[Owner[t]] = "up"
      /\ k \in DOMAIN files /\ files[k] # Torn
      /\ answer' = [answer EXCEPT ![t] = files[k]]
      /\ UNCHANGED <<installed, procVars, at, taskVars, produced, files, temps, dirs>>
  BY DEF Hit, Turn, Cached
<1>2. files[k] \in Entries
  BY <1>1 DEF TypeOK
<1>3. TypeOK'
  <2>1. pc' \in [Tasks -> {"new", "full run", "reduced run", "open", "write", "rename",
                           "cleanup", "lost"} \cup Ended]
    BY <1>1 DEF TypeOK, Ended
  <2>2. answer' \in [Tasks -> Entries]
    BY <1>1, <1>2 DEF TypeOK
  <2> HIDE DEF k
  <2> QED
    BY <1>1, <2>1, <2>2 DEF TypeOK, procVars, taskVars
<1>4. PICK v \in 1 .. LastBinary :
        files[k] = IqaMetricsOf(v, pair[t], want[t]) /\ (k[1] # Unknown => v = k[1])
  BY <1>1 DEF EntriesFaithful, KeyOf, cacheKey
<1>5. ~ allow[Owner[t]] => v = binary[Owner[t]]
  <2>1. ~ allow[Owner[t]] => k[1] = binary[Owner[t]] /\ binary[Owner[t]] \in 1 .. LastBinary
    BY OwnerAssumption DEF KeyOf, cacheKey, iqaVersion, TypeOK
  <2> QED
    BY <1>4, <2>1, BinaryAssumption DEF Unknown
<1>6. answer'[t] = IqaMetricsOf(v, pair[t], want[t])
  BY <1>1, <1>4 DEF TypeOK
<1>7. CallOK(t)'
  <2> HIDE DEF k
  <2>1. Genuine(t, want[t])'
    BY <1>1, <1>5, <1>6 DEF Genuine, procVars, taskVars
  <2> QED
    BY <1>1, <2>1 DEF CallOK, TypeOK, InMotion, Answered, procVars, taskVars
<1>8. EntriesFaithful'
  BY <1>1 DEF EntriesFaithful
<1> QED
  BY <1>1, <1>3, <1>7, <1>8, CallSteps DEF TypeOK

LEMMA InvRun == ASSUME Inv, NEW t \in Tasks, Run(t) PROVE Inv'
<1> USE DEF Inv
<1> DEFINE got == produced'[t]
<1>1. /\ pc' = [pc EXCEPT ![t] = "open"] /\ proc[Owner[t]] = "up"
      /\ answer' = [answer EXCEPT ![t] = IqaMetricsOf(installed, pair[t], got)]
      /\ at' = at \cup {t}
      /\ UNCHANGED <<installed, procVars, taskVars, files, temps, dirs>>
  BY DEF Run, Turn
<1>2. PICK set \in {want[t], want[t] \cap Always} : produced' = [produced EXCEPT ![t] = set]
  BY DEF Run
<1>3. got = set /\ set \in SUBSET Metrics
  BY <1>2, MetricsAssumption DEF TypeOK
<1>4. answer' = [answer EXCEPT ![t] = IqaMetricsOf(installed, pair[t], set)]
  BY <1>1, <1>3
<1>5. IqaMetricsOf(installed, pair[t], set) \in Entries
  BY <1>3, ScoresAreEntries DEF TypeOK
<1>6. TypeOK'
  <2>1. pc' \in [Tasks -> {"new", "full run", "reduced run", "open", "write", "rename",
                           "cleanup", "lost"} \cup Ended]
    BY <1>1 DEF TypeOK, Ended
  <2>2. answer' \in [Tasks -> Entries]
    BY <1>4, <1>5 DEF TypeOK
  <2>3. produced' \in [Tasks -> SUBSET Metrics] /\ at' \subseteq Tasks
    BY <1>1, <1>2, <1>3 DEF TypeOK
  <2> HIDE DEF got
  <2> QED
    BY <1>1, <2>1, <2>2, <2>3 DEF TypeOK, procVars, taskVars
<1>7. CallOK(t)'
  <2>1. binary[Owner[t]] = installed /\ installed \in 1 .. LastBinary
    BY <1>1, OwnerAssumption DEF ProcInv, TypeOK
  <2>2. answer'[t] = IqaMetricsOf(installed, pair[t], set)
    BY <1>4 DEF TypeOK
  <2>3. pair' = pair /\ want' = want /\ binary' = binary /\ proc' = proc
    BY <1>1 DEF procVars, taskVars
  <2>4. Genuine(t, produced[t])'
    BY <1>3, <2>1, <2>2, <2>3 DEF Genuine
  <2> QED
    BY <1>1, <1>2, <1>3, <2>3, <2>4 DEF CallOK, TypeOK
<1>8. EntriesFaithful'
  BY <1>1 DEF EntriesFaithful
<1> HIDE DEF got
<1> QED
  BY <1>1, <1>2, <1>4, <1>6, <1>7, <1>8, CallSteps DEF TypeOK

-----------------------------------------------------------------------------
(* cacheWrite                                                                  *)

LEMMA InvOpen == ASSUME Inv, NEW t \in Tasks, Open(t) PROVE Inv'
<1> USE DEF Inv
<1>1. /\ pc[t] = "open" /\ pc' = [pc EXCEPT ![t] = "write"]
      /\ temps' = [s \in DOMAIN temps \cup {t} |-> IF s = t THEN Torn ELSE temps[s]]
      /\ UNCHANGED <<installed, procVars, at, taskVars, produced, answer, files, dirs>>
  BY DEF Open
<1>2. TypeOK'
  <2>1. pc' \in [Tasks -> {"new", "full run", "reduced run", "open", "write", "rename",
                           "cleanup", "lost"} \cup Ended]
    BY <1>1 DEF TypeOK, Ended
  <2>2. DOMAIN temps' \subseteq Tasks /\ \A s \in DOMAIN temps' : temps'[s] \in Entries \cup {Torn}
    BY <1>1 DEF TypeOK
  <2> QED
    BY <1>1, <2>1, <2>2 DEF TypeOK, procVars, taskVars
<1>3. CallOK(t)'
  <2>1. CallOK(t)
    BY ByCall
  <2> QED
    BY <1>1, <2>1 DEF CallOK, TypeOK, InMotion, Answered, Genuine, procVars, taskVars
<1>4. EntriesFaithful'
  BY <1>1 DEF EntriesFaithful
<1> QED
  BY <1>1, <1>2, <1>3, <1>4, CallSteps DEF TypeOK

LEMMA InvWrite == ASSUME Inv, NEW t \in Tasks, Write(t) PROVE Inv'
<1> USE DEF Inv
<1>1. /\ pc[t] = "write" /\ pc' = [pc EXCEPT ![t] = "rename"]
      /\ temps' = [temps EXCEPT ![t] = answer[t]]
      /\ UNCHANGED <<installed, procVars, at, taskVars, produced, answer, files, dirs>>
  BY DEF Write
<1>2. TypeOK'
  <2>1. pc' \in [Tasks -> {"new", "full run", "reduced run", "open", "write", "rename",
                           "cleanup", "lost"} \cup Ended]
    BY <1>1 DEF TypeOK, Ended
  <2>2. DOMAIN temps' \subseteq Tasks /\ \A s \in DOMAIN temps' : temps'[s] \in Entries \cup {Torn}
    BY <1>1 DEF TypeOK
  <2> QED
    BY <1>1, <2>1, <2>2 DEF TypeOK, procVars, taskVars
<1>3. CallOK(t)'
  <2>1. CallOK(t)
    BY ByCall
  <2> QED
    BY <1>1, <2>1 DEF CallOK, TypeOK, InMotion, Answered, Genuine, procVars, taskVars
<1>4. EntriesFaithful'
  BY <1>1 DEF EntriesFaithful
<1> QED
  BY <1>1, <1>2, <1>3, <1>4, CallSteps DEF TypeOK

\* The entry that t puts in place is whole, and is what its key says.
LEMMA InvRename == ASSUME Inv, NEW t \in Tasks, Rename(t) PROVE Inv'
<1> USE DEF Inv
<1> DEFINE new == KeyOf(t, produced[t])
<1>1. /\ pc[t] = "rename" /\ pc' = [pc EXCEPT ![t] = "cleanup"]
      /\ files' = [k \in DOMAIN files \cup {new} |-> IF k = new THEN temps[t] ELSE files[k]]
      /\ temps' = [s \in DOMAIN temps \ {t} |-> temps[s]]
      /\ UNCHANGED <<installed, procVars, at, taskVars, produced, answer, dirs>>
  BY DEF Rename
<1>2. CallOK(t)
  BY ByCall
<1>3. temps[t] = answer[t] /\ answer[t] \in Entries
  BY <1>1, <1>2 DEF CallOK, TypeOK
<1>4. PICK v \in 1 .. LastBinary :
        /\ answer[t] = IqaMetricsOf(v, pair[t], produced[t])
        /\ ~ allow[Owner[t]] => v = binary[Owner[t]]
  BY <1>1, <1>2 DEF CallOK, Answered, Genuine
<1>5. new \in (0 .. LastBinary) \X Pairs \X SUBSET Metrics
  <2>1. iqaVersion(Owner[t]) \in 0 .. LastBinary
    <3>1. binary[Owner[t]] \in 1 .. LastBinary
      BY OwnerAssumption DEF TypeOK
    <3> QED
      BY <3>1, BinaryAssumption DEF iqaVersion, Unknown
  <2>2. pair[t] \in Pairs /\ produced[t] \in SUBSET Metrics
    BY DEF TypeOK
  <2> QED
    BY <2>1, <2>2 DEF KeyOf, cacheKey
<1>6. new[2] = pair[t] /\ new[3] = produced[t] /\ (new[1] # Unknown => v = new[1])
  BY <1>4 DEF KeyOf, cacheKey, iqaVersion
<1> HIDE DEF new
<1>7. TypeOK'
  <2>1. pc' \in [Tasks -> {"new", "full run", "reduced run", "open", "write", "rename",
                           "cleanup", "lost"} \cup Ended]
    BY <1>1 DEF TypeOK, Ended
  <2>2. DOMAIN temps' \subseteq Tasks /\ \A s \in DOMAIN temps' : temps'[s] \in Entries \cup {Torn}
    BY <1>1 DEF TypeOK
  <2>3. /\ DOMAIN files' \subseteq (0 .. LastBinary) \X Pairs \X SUBSET Metrics
        /\ \A k \in DOMAIN files' : files'[k] \in Entries \cup {Torn}
    BY <1>1, <1>3, <1>5 DEF TypeOK
  <2> QED
    BY <1>1, <2>1, <2>2, <2>3 DEF TypeOK, procVars, taskVars
<1>8. CallOK(t)'
  <2>1. pc'[t] = "cleanup"
    BY <1>1 DEF TypeOK
  <2>2. /\ proc[Owner[t]] = "up" /\ Genuine(t, produced[t])
        /\ produced[t] \in {want[t], want[t] \cap Always}
    BY <1>1, <1>2 DEF CallOK, InMotion, Answered
  <2>3. UNCHANGED <<proc, allow, binary, pair, want, produced, answer>>
    BY <1>1 DEF procVars, taskVars
  <2>4. Genuine(t, produced[t])'
    BY <2>2, <2>3 DEF Genuine
  <2> QED
    BY <2>1, <2>2, <2>3, <2>4 DEF CallOK, InMotion, Answered
<1>9. EntriesFaithful'
  <2> SUFFICES ASSUME NEW k \in DOMAIN files'
               PROVE  \E b \in 1 .. LastBinary :
                        files'[k] = IqaMetricsOf(b, k[2], k[3]) /\ (k[1] # Unknown => b = k[1])
    BY DEF EntriesFaithful
  <2>1. CASE k = new
    BY <1>1, <1>3, <1>4, <1>6, <2>1
  <2>2. CASE k # new
    BY <1>1, <2>2 DEF EntriesFaithful
  <2> QED
    BY <2>1, <2>2
<1> QED
  BY <1>1, <1>7, <1>8, <1>9, CallSteps DEF TypeOK

LEMMA InvUnwritten == ASSUME Inv, NEW t \in Tasks, Unwritten(t) PROVE Inv'
<1> USE DEF Inv
<1>1. /\ pc[t] \in {"open", "write", "rename"} /\ pc' = [pc EXCEPT ![t] = "cleanup"]
      /\ UNCHANGED <<installed, procVars, at, taskVars, produced, answer, files, temps, dirs>>
  BY DEF Unwritten
<1>2. TypeOK'
  <2>1. pc' \in [Tasks -> {"new", "full run", "reduced run", "open", "write", "rename",
                           "cleanup", "lost"} \cup Ended]
    BY <1>1 DEF TypeOK, Ended
  <2> QED
    BY <1>1, <2>1 DEF TypeOK, procVars, taskVars
<1>3. CallOK(t)'
  <2>1. CallOK(t)
    BY ByCall
  <2> QED
    BY <1>1, <2>1 DEF CallOK, TypeOK, InMotion, Answered, Genuine, procVars, taskVars
<1>4. EntriesFaithful'
  BY <1>1 DEF EntriesFaithful
<1> QED
  BY <1>1, <1>2, <1>3, <1>4, CallSteps DEF TypeOK

\* What was produced is what was asked for, or the part that is always valid.
LEMMA InvReturn == ASSUME Inv, NEW t \in Tasks, Return(t) PROVE Inv'
<1> USE DEF Inv
<1>1. /\ pc[t] = "cleanup"
      /\ pc' = [pc EXCEPT ![t] = IF produced[t] = want[t] THEN "scored" ELSE "reduced"]
      /\ dirs' = dirs \ {t} /\ at' = at \ {t}
      /\ UNCHANGED <<installed, procVars, taskVars, produced, answer, files, temps>>
  BY DEF Return
<1>2. TypeOK'
  <2>1. pc' \in [Tasks -> {"new", "full run", "reduced run", "open", "write", "rename",
                           "cleanup", "lost"} \cup Ended]
    BY <1>1 DEF TypeOK, Ended
  <2> QED
    BY <1>1, <2>1 DEF TypeOK, procVars, taskVars
<1>3. CallOK(t)'
  <2>1. CallOK(t)
    BY ByCall
  <2>2. pc'[t] = IF produced[t] = want[t] THEN "scored" ELSE "reduced"
    BY <1>1 DEF TypeOK
  <2>3. \A set : Genuine(t, set) => Genuine(t, set)'
    BY <1>1 DEF Genuine, procVars, taskVars
  <2>4. produced[t] \in {want[t], want[t] \cap Always} /\ Genuine(t, produced[t])
    BY <1>1, <2>1 DEF CallOK, Answered
  <2>5. pc'[t] = "scored" => Genuine(t, want[t])'
    BY <2>2, <2>3, <2>4, <1>1 DEF Genuine, taskVars
  <2>6. pc'[t] = "reduced" => Genuine(t, want[t] \cap Always)'
    BY <2>2, <2>3, <2>4, <1>1 DEF Genuine, taskVars
  <2>7. proc'[Owner[t]] = "up"
    BY <1>1, <2>1 DEF CallOK, InMotion, procVars
  <2> QED
    BY <2>2, <2>5, <2>6, <2>7 DEF CallOK, InMotion, Answered
<1>4. EntriesFaithful'
  BY <1>1 DEF EntriesFaithful
<1> QED
  BY <1>1, <1>2, <1>3, <1>4, CallSteps DEF TypeOK

-----------------------------------------------------------------------------
LEMMA InvStep == Inv /\ [Next]_vars => Inv'
<1> SUFFICES ASSUME Inv, [Next]_vars PROVE Inv'
  OBVIOUS
<1>1. CASE UNCHANGED vars
  BY <1>1 DEF Inv, vars, procVars, taskVars, TypeOK, ProcInv, TaskInv, EntriesFaithful,
              AnswersGenuine, Genuine
<1>2. CASE Upgrade
  BY <1>2, InvUpgrade
<1>3. ASSUME NEW p \in Procs, Start(p) \/ Stop(p) PROVE Inv'
  BY <1>3, InvStart, InvStop
<1>4. ASSUME NEW t \in Tasks, Task(t) PROVE Inv'
  BY <1>4, InvUnscored, InvHit, InvRun, InvOpen, InvWrite, InvRename, InvUnwritten, InvReturn
     DEF Task
<1> QED
  BY <1>1, <1>2, <1>3, <1>4 DEF Next, Over

(* Whatever is in the cache, and whatever a call answers from it or past it, is    *)
(* what one binary says of that pair for those metrics, however many processes     *)
(* share the directory and wherever they are killed; a run that insists on iqa-cli *)
(* is never served by another binary than its own.                                 *)
THEOREM ScoresAreGenuine == Spec => []ScoresGenuine
<1>1. Inv => ScoresGenuine
  BY DEF Inv, ScoresGenuine
<1> QED
  BY <1>1, InvInit, InvStep, PTL DEF Spec

-----------------------------------------------------------------------------
(* Blocks of a sweep: every cell is of a target that the host has.             *)

\* A block's cells are all of targets in T.
CellsOf(block, T) == \A id \in block : id[2] \in T

LEMMA EncodeTarget ==
  ASSUME NEW t, NEW tier, NEW n, NEW content, NEW arm
  PROVE  EncodeId(t, tier, n, content, arm)[2] = t
BY DEF EncodeId

LEMMA DecodeTarget ==
  ASSUME NEW t, NEW tier, NEW raster, NEW arm
  PROVE  DecodeId(t, tier, raster, arm)[2] = t
BY DEF DecodeId

LEMMA BatchTarget ==
  ASSUME NEW t, NEW threads
  PROVE  BatchId(t, threads)[2] = t
BY DEF BatchId

LEMMA BlockTargets ==
  ASSUME NEW s
  PROVE  /\ CellsOf(CrossLanguage(s), Available(s))
         /\ CellsOf(SimdOnOff(s), Available(s))
         /\ CellsOf(Batches(s), Available(s))
<1>1. ASSUME NEW id \in CrossLanguage(s) PROVE id[2] \in Available(s)
  <2>1. \/ \E t \in {x \in Available(s) : "encode" \in Ops(x)} : \E tier \in CrossTiers(s) :
             id = EncodeId(t, tier, 100, "gradient", "-")
        \/ \E t \in Available(s) : \E tier \in CrossTiers(s) : id = DecodeId(t, tier, "natural", "-")
    BY <1>1 DEF CrossLanguage
  <2>2. CASE \E t \in {x \in Available(s) : "encode" \in Ops(x)} : \E tier \in CrossTiers(s) :
               id = EncodeId(t, tier, 100, "gradient", "-")
    BY <2>2, EncodeTarget
  <2>3. CASE \E t \in Available(s) : \E tier \in CrossTiers(s) : id = DecodeId(t, tier, "natural", "-")
    BY <2>3, DecodeTarget
  <2> QED
    BY <2>1, <2>2, <2>3
<1>2. ASSUME NEW id \in SimdOnOff(s) PROVE id[2] \in Available(s)
  <2> DEFINE Tried == {<<100, 1>>, <<256, 1>>, <<512, 1>>, <<512, 0>>}
  <2>1. "Rust-scalar" \in Available(s)
    BY <1>2 DEF SimdOnOff
  <2>2. id \in {EncodeId(t, shape[2], shape[1], "gradient", "-") :
                  t \in {"Rust", "Rust-scalar"} \cap Available(s), shape \in Tried}
    BY <1>2, <2>1 DEF SimdOnOff
  <2> HIDE DEF Tried
  <2>3. PICK t \in {"Rust", "Rust-scalar"} \cap Available(s), shape \in Tried :
          id = EncodeId(t, shape[2], shape[1], "gradient", "-")
    BY <2>2
  <2> QED
    BY <2>3, EncodeTarget
<1>3. ASSUME NEW id \in Batches(s) PROVE id[2] \in Available(s)
  <2>1. PICK t \in Available(s) : \E threads : id = BatchId(t, threads)
    BY <1>3 DEF Batches
  <2> QED
    BY <2>1, BatchTarget
<1> QED
  BY <1>1, <1>2, <1>3 DEF CellsOf

LEMMA RustBlocks ==
  ASSUME NEW s, "Rust" \in Available(s)
  PROVE  \A block \in {EncodeScaling(s), DecodeScaling, Levers, Tier4Levers, DecodeLevers, ContentClasses} :
           CellsOf(block, Available(s))
<1>1. ASSUME NEW id \in EncodeScaling(s) \cup Levers \cup Tier4Levers \cup ContentClasses
      PROVE  id[2] = "Rust"
  <2>1. \E tier, n, content, arm : id = EncodeId("Rust", tier, n, content, arm)
    BY <1>1 DEF EncodeScaling, Levers, Tier4Levers, ContentClasses
  <2> QED
    BY <2>1, EncodeTarget
<1>2. ASSUME NEW id \in DecodeScaling \cup DecodeLevers PROVE id[2] = "Rust"
  <2>1. \E tier, raster, arm : id = DecodeId("Rust", tier, raster, arm)
    BY <1>2 DEF DecodeScaling, DecodeLevers
  <2> QED
    BY <2>1, DecodeTarget
<1> QED
  BY <1>1, <1>2 DEF CellsOf

LEMMA PlanTargets ==
  ASSUME NEW s, NEW b \in DOMAIN Plan(s)
  PROVE  CellsOf(Plan(s)[b], Available(s)) /\ b \in Nat /\ b > 0
<1> DEFINE rust == IF "Rust" \in Available(s)
                     THEN {EncodeScaling(s), DecodeScaling, Levers, Tier4Levers, DecodeLevers, ContentClasses}
                     ELSE {}
           blocks == {CrossLanguage(s), SimdOnOff(s), Batches(s)} \cup rust
<1>1. \A block \in blocks : CellsOf(block, Available(s))
  BY BlockTargets, RustBlocks
<1>2. Plan(s) \in Seq(blocks)
  <2>1. <<CrossLanguage(s)>> \in Seq(blocks) /\ <<SimdOnOff(s), Batches(s)>> \in Seq(blocks)
    OBVIOUS
  <2>2. CASE "Rust" \in Available(s)
    <3>1. <<EncodeScaling(s), DecodeScaling, Levers, Tier4Levers, DecodeLevers, ContentClasses>> \in Seq(blocks)
      BY <2>2
    <3> HIDE DEF blocks
    <3> QED
      BY <2>1, <2>2, <3>1 DEF Plan
  <2>3. CASE "Rust" \notin Available(s)
    <3>1. <<>> \in Seq(blocks)
      OBVIOUS
    <3> HIDE DEF blocks
    <3> QED
      BY <2>1, <2>3, <3>1 DEF Plan
  <2> QED
    BY <2>2, <2>3
<1> HIDE DEF blocks
<1> QED
  BY <1>1, <1>2

\* The cells of a sweep: known by their ids, of targets that the host has.
LEMMA CellIs ==
  ASSUME NEW s, NEW c \in Cells(s)
  PROVE  /\ c.id[2] \in Available(s) /\ c.block \in Nat
         /\ \A d \in Cells(s) : d.id = c.id => d = c
<1> DEFINE Made(id, b) == [id |-> id, block |-> b, us |-> ProbeCell(Answers(s, id))]
<1>1. ASSUME NEW d \in Cells(s)
      PROVE  \E b \in DOMAIN Plan(s) : \E id \in Plan(s)[b] :
               d = Made(id, b) /\ ~Recorded(Plan(s), b, id)
  BY DEF Cells
<1>2. PICK b \in DOMAIN Plan(s) : \E id \in Plan(s)[b] : c = Made(id, b) /\ ~Recorded(Plan(s), b, id)
  BY <1>1
<1>3. PICK id \in Plan(s)[b] : c = Made(id, b) /\ ~Recorded(Plan(s), b, id)
  BY <1>2
<1>4. c.id = id /\ c.block = b
  BY <1>3
<1>5. c.id[2] \in Available(s) /\ c.block \in Nat
  BY <1>3, <1>4, PlanTargets DEF CellsOf
<1>6. ASSUME NEW d \in Cells(s), d.id = c.id PROVE d = c
  <2>1. PICK a \in DOMAIN Plan(s) : \E other \in Plan(s)[a] :
          d = Made(other, a) /\ ~Recorded(Plan(s), a, other)
    BY <1>1
  <2>2. PICK other \in Plan(s)[a] : d = Made(other, a) /\ ~Recorded(Plan(s), a, other)
    BY <2>1
  <2>3. other = id
    BY <1>4, <1>6, <2>2
  <2>4. a \in Nat /\ b \in Nat /\ a > 0 /\ b > 0
    BY PlanTargets
  <2>5. ~(a < b) /\ ~(b < a)
    BY <1>3, <2>2, <2>3, <2>4 DEF Recorded
  <2> QED
    BY <1>3, <2>2, <2>3, <2>4, <2>5
<1> QED
  BY <1>5, <1>6

-----------------------------------------------------------------------------
\* What a committed report says of its sweep: it has each of its cells once, and
\* the targets it has times of are among those that the host has.
ReportOf(r, s) ==
  /\ r # NoReport
  /\ r.sweep = s /\ r.current = (Sweeps[s].era # "first-schema")
  /\ r.commit = Sweeps[s].commit /\ r.dirty = Sweeps[s].dirty /\ r.cpu = Sweeps[s].cpu
  /\ r.mode = Mode(Sweeps[s]) /\ r.unavailable = Unavailable(Sweeps[s])
  /\ r.targets \subseteq Available(Sweeps[s])
  /\ ~r.twice

LEMMA CommittedIs ==
  ASSUME NEW s
  PROVE  ReportOf(Committed(s), s)
<1> DEFINE report == Report(Sweeps[s])
           cells == {c \in report.cells : c.id \in Followed}
           ids == {c.id : c \in cells}
           First(id) == CHOOSE c \in cells : c.id = id /\ \A d \in cells : d.id = id => c.block <= d.block
           r == [sweep |-> s, current |-> report.current, commit |-> report.commit, dirty |-> report.dirty,
      cpu |-> report.cpu, mode |-> report.mode, unavailable |-> report.unavailable,
      targets |-> {c.id[2] : c \in report.cells}, us |-> [id \in ids |-> First(id).us],
      twice |-> \E c \in cells : c # First(c.id)]
<1>1. Committed(s) = r
  BY DEF Committed
<1>2. report.cells = Cells(Sweeps[s]) /\ report.current = (Sweeps[s].era # "first-schema")
      /\ report.commit = Sweeps[s].commit /\ report.dirty = Sweeps[s].dirty
      /\ report.cpu = Sweeps[s].cpu /\ report.mode = Mode(Sweeps[s])
      /\ report.unavailable = Unavailable(Sweeps[s])
  BY DEF Report
<1> HIDE DEF report
<1>3. ASSUME NEW c \in cells PROVE c = First(c.id)
  <2>1. \A d \in cells : d.id = c.id => d = c
    BY <1>2, <1>3, CellIs
  <2>2. c.block <= c.block
    BY <1>2, <1>3, CellIs
  <2> HIDE DEF cells
  <2> QED
    BY <1>3, <2>1, <2>2
<1>4. r.targets \subseteq Available(Sweeps[s])
  BY <1>2, CellIs
<1> HIDE DEF cells, First, ids
<1>5. ~r.twice
  BY <1>3
<1>6. r # NoReport
  BY DEF NoReport
<1>7. /\ r.sweep = s /\ r.current = report.current /\ r.commit = report.commit /\ r.dirty = report.dirty
      /\ r.cpu = report.cpu /\ r.mode = report.mode /\ r.unavailable = report.unavailable
  OBVIOUS
<1> HIDE DEF r
<1> QED
  BY <1>1, <1>2, <1>4, <1>5, <1>6, <1>7 DEF ReportOf

-----------------------------------------------------------------------------
\* A slot holds no report, or the one of its sweep.
SlotsInv ==
  /\ DOMAIN slots = Slots
  /\ \A i \in Slots :
       slots[i] # NoReport => ReportOf(slots[i], slots[i].sweep) /\ slots[i].sweep \in DOMAIN Sweeps

LEMMA SlotsInit == BenchInit => SlotsInv
<1> SUFFICES ASSUME BenchInit PROVE SlotsInv
  OBVIOUS
<1>1. PICK names \in Released :
        slots = [i \in Slots |-> IF names[i] = "none" THEN NoReport ELSE Committed(names[i])]
  BY DEF BenchInit
<1>2. ASSUME NEW i \in Slots, slots[i] # NoReport
      PROVE  ReportOf(slots[i], slots[i].sweep) /\ slots[i].sweep \in DOMAIN Sweeps
  <2>1. names[i] \in DOMAIN Sweeps /\ slots[i] = Committed(names[i])
    BY <1>1, <1>2, BenchmarkAssumption DEF BenchmarkAssumption
  <2>2. ReportOf(slots[i], names[i])
    BY <2>1, CommittedIs
  <2>3. slots[i].sweep = names[i]
    BY <2>2 DEF ReportOf
  <2> QED
    BY <2>1, <2>2, <2>3
<1>3. DOMAIN slots = Slots
  BY <1>1
<1> QED
  BY <1>2, <1>3 DEF SlotsInv

LEMMA SlotsStep == SlotsInv /\ [BenchNext]_benchVars => SlotsInv'
<1> SUFFICES ASSUME SlotsInv, [BenchNext]_benchVars PROVE SlotsInv'
  OBVIOUS
<1>1. CASE UNCHANGED slots
  BY <1>1 DEF SlotsInv, ReportOf
<1>2. ASSUME NEW slot \in Slots, NEW s \in DOMAIN Sweeps, slots' = [slots EXCEPT ![slot] = Committed(s)]
      PROVE  SlotsInv'
  <2>1. ReportOf(Committed(s), s) /\ Committed(s).sweep = s
    BY CommittedIs DEF ReportOf
  <2> HIDE DEF ReportOf
  <2>2. ASSUME NEW i \in Slots, slots'[i] # NoReport
        PROVE  ReportOf(slots'[i], slots'[i].sweep) /\ slots'[i].sweep \in DOMAIN Sweeps
    <3>1. CASE i = slot
      BY <1>2, <2>1, <3>1 DEF SlotsInv
    <3>2. CASE i # slot
      BY <1>2, <2>2, <3>2 DEF SlotsInv
    <3> QED
      BY <3>1, <3>2
  <2>3. DOMAIN slots' = Slots
    BY <1>2 DEF SlotsInv
  <2> QED
    BY <2>2, <2>3 DEF SlotsInv
<1>3. ASSUME NEW slot \in Slots, NEW s \in DOMAIN Sweeps, Record(slot, s) PROVE SlotsInv'
  BY <1>2, <1>3 DEF Record
<1>4. CASE ~\E slot \in Slots, s \in DOMAIN Sweeps : Record(slot, s)
  <2>1. UNCHANGED slots
    BY <1>4 DEF BenchNext, benchVars, RecordStage, WriteCell, Claim, Fix
  <2> QED
    BY <1>1, <2>1
<1> QED
  BY <1>3, <1>4

THEOREM SlotsHoldReports == BenchSpec => []SlotsInv
BY SlotsInit, SlotsStep, PTL DEF BenchSpec

-----------------------------------------------------------------------------
(* What the check reads, said of the sweeps.                                   *)

LEMMA LoadedAreUsed ==
  ASSUME SlotsInv
  PROVE  /\ Loaded = Used
         /\ \A i \in Used : ReportOf(slots[i], slots[i].sweep) /\ slots[i].sweep \in DOMAIN Sweeps
<1>1. ASSUME NEW i \in Slots PROVE i \in Loaded <=> i \in Used
  <2>1. CASE slots[i] = NoReport
    BY <2>1 DEF Loaded, Used, NoReport
  <2>2. CASE slots[i] # NoReport
    BY <2>2 DEF Loaded, Used, SlotsInv, ReportOf, SweepOf
  <2> QED
    BY <2>1, <2>2
<1> QED
  BY <1>1 DEF Loaded, Used, SlotsInv

\* Loaded reports list as unavailable the targets that they looked for in vain.
LEMMA ListedAreMissing ==
  ASSUME SlotsInv, NEW i \in Used, NEW t
  PROVE  /\ t \in DOMAIN slots[i].unavailable <=> t \in SweepOf(i).impls /\ SweepOf(i).host[t] # "ok"
         /\ t \in DOMAIN slots[i].unavailable /\ slots[i].unavailable[t] = "absent"
              => SweepOf(i).host[t] = "ENOENT"
         /\ SweepOf(i).era = "now" /\ SweepOf(i).host[t] = "ENOENT" /\ t \in DOMAIN slots[i].unavailable
              => slots[i].unavailable[t] = "absent"
         /\ slots[i].targets \subseteq Available(SweepOf(i))
<1>1. ReportOf(slots[i], slots[i].sweep)
  BY LoadedAreUsed
<1> DEFINE s == SweepOf(i)
<1>2. slots[i].unavailable = Unavailable(s) /\ slots[i].targets \subseteq Available(s)
  BY <1>1 DEF ReportOf, SweepOf
<1> HIDE DEF s
<1>3. DOMAIN Unavailable(s) = s.impls \ Available(s)
  BY DEF Unavailable
<1>4. \A x : ClassifyProbe(x) = "ok" <=> x = "ok"
  BY DEF ClassifyProbe
<1>5. \A x : ClassifyProbe(x) = "absent" <=> x = "ENOENT"
  BY DEF ClassifyProbe
<1>6. t \in DOMAIN Unavailable(s) <=> t \in s.impls /\ s.host[t] # "ok"
  BY <1>3, <1>4 DEF Available
<1>7. t \in DOMAIN Unavailable(s) =>
        Unavailable(s)[t] = IF s.era = "unclassified" THEN "unclassified" ELSE ClassifyProbe(s.host[t])
  BY DEF Unavailable
<1> QED
  BY <1>2, <1>5, <1>6, <1>7 DEF s

LEMMA MinSlot ==
  ASSUME NEW S \in SUBSET Slots, S # {}
  PROVE  Min(S) \in S
<1>1. S \subseteq {1, 2, 3}
  BY DEF Slots
<1>2. \E x \in S : \A y \in S : x <= y
  <2>1. CASE 1 \in S
    BY <1>1, <2>1
  <2>2. CASE 1 \notin S /\ 2 \in S
    BY <1>1, <2>2
  <2>3. CASE 1 \notin S /\ 2 \notin S
    <3>1. S = {3}
      BY <1>1, <2>3
    <3> QED
      BY <3>1
  <2> QED
    BY <2>1, <2>2, <2>3
<1> QED
  BY <1>2 DEF Min

\* A target that is left unmeasured: no loaded report has a time of it, and one looked
\* for it. It is left as absent if no report says anything worse.
LEMMA UnmeasuredIs ==
  ASSUME SlotsInv, NEW t
  PROVE  /\ t \in DOMAIN Unmeasured <=> Missing(t) # {} /\ Reaching(t) = {}
         /\ t \in DOMAIN Unmeasured =>
              (Unmeasured[t] = "absent" <=> \A i \in Missing(t) : slots[i].unavailable[t] = "absent")
<1>1. Missing(t) = {i \in Used : t \in DOMAIN slots[i].unavailable}
  BY ListedAreMissing DEF Missing, Probing
<1>2. t \in DOMAIN Unmeasured <=> Missing(t) # {} /\ Reaching(t) = {}
  BY <1>1, LoadedAreUsed DEF Unmeasured, Reaching
<1>3. t \in DOMAIN Unmeasured => Unmeasured[t] = KindOf(t)
  BY DEF Unmeasured
<1>4. KindOf(t) = "absent" <=> \A i \in Missing(t) : slots[i].unavailable[t] = "absent"
  <2> DEFINE failed == {i \in Loaded : t \in DOMAIN slots[i].unavailable /\ slots[i].unavailable[t] # "absent"}
  <2>1. failed = {i \in Missing(t) : slots[i].unavailable[t] # "absent"}
    BY <1>1, LoadedAreUsed
  <2>2. KindOf(t) = IF failed = {} THEN "absent" ELSE slots[Min(failed)].unavailable[t]
    BY DEF KindOf
  <2>3. failed # {} => slots[Min(failed)].unavailable[t] # "absent"
    BY MinSlot DEF Loaded
  <2> HIDE DEF failed
  <2> QED
    BY <2>1, <2>2, <2>3
<1> QED
  BY <1>2, <1>3, <1>4

-----------------------------------------------------------------------------
(* A green check of the sweeps.                                                *)

\* What a cell is bound to has been measured by a sweep exactly if it is found.
Measured(cell) ==
  \A k \in DOMAIN To[cell].ids :
    LET id == To[cell].ids[k] IN
    IF IsStage(id) THEN stages[id[2]][id[5]].share > 0 ELSE MeasuredBy(id) # {}

LEMMA HavingIs ==
  ASSUME SlotsInv, NEW id
  PROVE  Having(id) = MeasuredBy(id)
BY LoadedAreUsed DEF Having, MeasuredBy

LEMMA FoundIs ==
  ASSUME SlotsInv, NEW cell
  PROVE  /\ Found(To[cell].ids) <=> Measured(cell)
         /\ \A k \in DOMAIN To[cell].ids :
              LET id == To[cell].ids[k] IN
              Number(To[cell].ids).value[k] =
                IF IsStage(id) THEN stages[id[2]][id[5]].share
                ELSE slots[Min(MeasuredBy(id))].us[id]
<1>1. Found(To[cell].ids) <=> Measured(cell)
  BY HavingIs DEF Found, Timed, Has, Measured
<1>2. \A k \in DOMAIN To[cell].ids : Number(To[cell].ids).value[k] = TimeOf(To[cell].ids[k])
  BY DEF Number
<1> QED
  BY <1>1, <1>2, HavingIs DEF TimeOf, Us

\* Of a green check: each cell passes, and those of the decode table were looked at.
Passes(cell, verdict) ==
  /\ verdict \notin {"failed", "pending", "wrong"}
  /\ cell[1].table = "1.1" => verdict \in {"checked", "wrong", "pending"}

LEMMA PassedIsBacked ==
  ASSUME SlotsInv, NEW cell \in BoundCells,
         Passes(cell, CellVerdict(cell, page[cell[1]][cell[2]], Unmeasured))
  PROVE  CellIsBacked(cell)
<1> DEFINE says == page[cell[1]][cell[2]]
           to == To[cell]
           target == cell[1].name
<1>1. cell[1] \in Rows
  BY DEF BoundCells
<1>2. CASE cell[1].table = "prose"
  <2>1. Found(to.ids) /\ says = Number(to.ids)
    BY <1>2 DEF Passes, CellVerdict, CheckProseClaim
  <2>2. target \notin Targets
    BY <1>1, <1>2, RowsAssumption DEF RowsAssumption
  <2>3. says.kind = "number"
    BY <2>1 DEF Number
  <2>4. Measured(cell)
    BY <2>1, FoundIs
  <2>5. \A k \in DOMAIN to.ids :
          LET id == to.ids[k] IN
          says.value[k] = IF IsStage(id) THEN stages[id[2]][id[5]].share
                          ELSE slots[Min(MeasuredBy(id))].us[id]
    <3> HIDE DEF says
    <3> QED
      BY <2>1, FoundIs
  <2>6. cell[1].table # "1.1" /\ says.kind # "TBD" /\ says.kind # "marker"
    BY <1>2, <2>3
  <2> QED
    BY <2>2, <2>4, <2>5, <2>6 DEF CellIsBacked, Measured
<1>3. CASE cell[1].table # "prose" /\ target \in DOMAIN Unmeasured
  <2>1. Unmeasured[target] = "absent" /\ says.kind = "marker"
    BY <1>3 DEF Passes, CellVerdict, CheckCell
  <2>2. cell[1].table # "1.1"
    BY <1>3, <2>1 DEF Passes, CellVerdict, CheckCell
  <2>3. Missing(target) # {} /\ Reaching(target) = {}
    BY <1>3, UnmeasuredIs
  <2>4. ASSUME NEW i \in Missing(target) PROVE SweepOf(i).host[target] = "ENOENT"
    <3>1. slots[i].unavailable[target] = "absent"
      BY <1>3, <2>1, <2>4, UnmeasuredIs
    <3>2. i \in Used /\ target \in SweepOf(i).impls /\ SweepOf(i).host[target] # "ok"
      BY <2>4 DEF Missing, Probing
    <3> QED
      BY <3>1, <3>2, ListedAreMissing
  <2> HIDE DEF says
  <2> QED
    BY <2>1, <2>2, <2>3, <2>4 DEF CellIsBacked, says
<1>4. CASE cell[1].table # "prose" /\ target \notin DOMAIN Unmeasured
  <2>1. Passes(cell, CheckBound(to, says))
    BY <1>4 DEF CellVerdict, CheckCell
  <2>2. Found(to.ids) <=> Measured(cell)
    BY FoundIs
  <2>3. says.kind # "marker" /\ (to.strict => Found(to.ids) \/ says.kind = "prose")
    BY <2>1 DEF Passes, CheckBound
  <2>4. says.kind = "number" /\ to.bound /\ Found(to.ids) => says = Number(to.ids)
    BY <2>1 DEF Passes, CheckBound
  <2>5. says.kind = "TBD" => ~Found(to.ids) \/ ~to.bound
    BY <2>1 DEF Passes, CheckBound
  <2>6. cell[1].table = "1.1" => says = Number(to.ids)
    BY <2>1 DEF Passes, CheckBound
  <2>7. ASSUME Probing(target) # {} PROVE \E i \in Used : target \in Available(SweepOf(i))
    <3>1. PICK i \in Used : target \in SweepOf(i).impls
      BY <2>7 DEF Probing
    <3>2. CASE SweepOf(i).host[target] = "ok"
      BY <3>1, <3>2 DEF Available, ClassifyProbe
    <3>3. CASE SweepOf(i).host[target] # "ok"
      <4>1. Reaching(target) # {}
        BY <1>4, <3>1, <3>3, UnmeasuredIs DEF Missing, Probing
      <4> QED
        BY <4>1, ListedAreMissing DEF Reaching
    <3> QED
      BY <3>2, <3>3
  <2>8. Number(to.ids).kind = "number"
    BY DEF Number
  <2>9. says.kind = "number" /\ to.bound /\ Measured(cell) =>
          \A k \in DOMAIN to.ids :
            LET id == to.ids[k] IN
            says.value[k] = IF IsStage(id) THEN stages[id[2]][id[5]].share
                            ELSE slots[Min(MeasuredBy(id))].us[id]
    <3> HIDE DEF says
    <3>1. says.kind = "number" /\ to.bound /\ Measured(cell) => says = Number(to.ids)
      BY <2>2, <2>4
    <3>2. \A k \in DOMAIN to.ids :
            LET id == to.ids[k] IN
            Number(to.ids).value[k] = IF IsStage(id) THEN stages[id[2]][id[5]].share
                                      ELSE slots[Min(MeasuredBy(id))].us[id]
      BY FoundIs
    <3> QED
      BY ONLY <3>1, <3>2
  <2> HIDE DEF says
  <2> QED
    BY <2>2, <2>3, <2>5, <2>6, <2>7, <2>8, <2>9 DEF CellIsBacked, Measured, says
<1> QED
  BY <1>2, <1>3, <1>4

\* A set of one element holds nothing else.
LEMMA OnlyOne ==
  ASSUME NEW S, IsFiniteSet(S), Cardinality(S) = 1
  PROVE  \A x, y \in S : x = y
<1>1. PICK x \in S : TRUE
  BY FS_EmptySet
<1>2. IsFiniteSet(S \ {x}) /\ Cardinality(S \ {x}) = 0
  BY <1>1, FS_RemoveElement
<1>3. S \ {x} = {}
  BY <1>2, FS_EmptySet
<1> QED
  BY <1>3

LEMMA SlotsFinite == IsFiniteSet(Slots)
<1>1. 1 \in Int /\ 3 \in Int
  OBVIOUS
<1>2. IsFiniteSet(1 .. 3)
  BY ONLY <1>1, FS_Interval
<1> QED
  BY <1>2 DEF Slots

LEMMA ValuesFinite ==
  ASSUME NEW S, IsFiniteSet(S), NEW f
  PROVE  IsFiniteSet({f[x] : x \in S})
<1> DEFINE T == {f[x] : x \in S}
           g == [x \in S |-> f[x]]
<1>1. g \in Surjection(S, T)
  BY DEF Surjection
<1> HIDE DEF g, T
<1>2. IsFiniteSet(T)
  BY <1>1, FS_Surjection
<1> QED
  BY <1>2 DEF T

\* The claim of two bounded sweeps, of a check that passes.
LEMMA ClaimIsBacked ==
  ASSUME SlotsInv, RunsInOrder, claim.says = "Yes"
  PROVE  LET bounded == {i \in Used : Mode(SweepOf(i)) = "bounded"} IN
         /\ Cardinality(bounded) >= 2
         /\ \A i, j \in bounded : /\ SweepOf(i).commit = SweepOf(j).commit
                                  /\ SweepOf(i).cpu = SweepOf(j).cpu
<1> DEFINE bounded == {i \in Slots : slots[i].current /\ slots[i].mode = "bounded"}
           reports == {slots[i] : i \in bounded}
           commits == {r.commit : r \in reports}
           cpus == {r.cpu : r \in reports}
<1>1. Stability.status = "pass"
  BY DEF RunsInOrder, StabilityClaimHolds
<1>2. ~(Cardinality(bounded) < 2) /\ Cardinality(commits) = 1 /\ Cardinality(cpus) = 1
  BY <1>1 DEF Stability
<1>3. IsFiniteSet(bounded)
  BY SlotsFinite, FS_Subset
<1>4. IsFiniteSet(commits) /\ IsFiniteSet(cpus)
  <2> DEFINE f == [i \in bounded |-> slots[i].commit]
             g == [i \in bounded |-> slots[i].cpu]
  <2>1. commits = {f[i] : i \in bounded} /\ cpus = {g[i] : i \in bounded}
    OBVIOUS
  <2> HIDE DEF f, g, bounded, commits, cpus
  <2> QED
    BY <1>3, <2>1, ValuesFinite
<1>5. \A a, b \in commits : a = b
  <2> HIDE DEF commits
  <2> QED
    BY <1>2, <1>4, OnlyOne
<1>6. \A a, b \in cpus : a = b
  <2> HIDE DEF cpus
  <2> QED
    BY <1>2, <1>4, OnlyOne
<1>7. bounded = {i \in Used : Mode(SweepOf(i)) = "bounded"}
  BY LoadedAreUsed DEF Loaded, ReportOf, SweepOf
<1>8. \A i \in bounded : slots[i].commit \in commits /\ slots[i].cpu \in cpus
  OBVIOUS
<1>9. \A i \in bounded : SweepOf(i).commit = slots[i].commit /\ SweepOf(i).cpu = slots[i].cpu
  BY <1>7, LoadedAreUsed DEF ReportOf, SweepOf
<1>10. Cardinality(bounded) \in Nat
  BY <1>3, FS_CardinalityType
<1> HIDE DEF bounded, commits, cpus
<1> QED
  BY <1>2, <1>5, <1>6, <1>7, <1>8, <1>9, <1>10

LEMMA StagesAreOne ==
  ASSUME NEW f, OneCleanCommit(f)
  PROVE  \A c, d \in Recordings(f) : ~stages[f][c].dirty /\ stages[f][c].rev = stages[f][d].rev
<1> DEFINE revs == {stages[f][c].rev : c \in Recordings(f)}
           g == [c \in Recordings(f) |-> stages[f][c].rev]
<1>1. IsFiniteSet(StageColumns)
  <2>1. StageColumns = (({} \cup {"t1"}) \cup {"t4"}) \cup {"third"}
    BY DEF StageColumns
  <2> QED
    BY <2>1, FS_EmptySet, FS_AddElement
<1>2. IsFiniteSet(Recordings(f))
  BY <1>1, FS_Subset DEF Recordings
<1>3. revs = {g[c] : c \in Recordings(f)}
  OBVIOUS
<1>4. IsFiniteSet(revs)
  <2> HIDE DEF revs, g
  <2> QED
    BY <1>2, <1>3, ValuesFinite
<1>5. Cardinality(revs) = 1
  BY DEF OneCleanCommit
<1>6. \A a, b \in revs : a = b
  <2> HIDE DEF revs
  <2> QED
    BY <1>4, <1>5, OnlyOne
<1> QED
  BY <1>6 DEF OneCleanCommit

(* A green check is backed by the sweeps: of the evidence that the slots hold,  *)
(* by whichever hosts and drivers, and whatever was written on the page since.  *)
THEOREM GreenHasEvidence == BenchSpec => []GreenIsBacked
<1>1. ASSUME SlotsInv, Green PROVE GreenIsBacked
  <2>1. Used # {} /\ (\A i \in Used : ~SweepOf(i).dirty) /\ Agreed
    <3>1. Loaded # {} /\ (\A i \in Loaded : ~slots[i].dirty)
      BY <1>1 DEF Green, Runnable, RunsInOrder, Dirty
    <3>2. Agreed
      BY <1>1, LoadedAreUsed DEF Green, RunsInOrder, CrossRunSpread, Agreed
    <3> QED
      BY <1>1, <3>1, <3>2, LoadedAreUsed DEF ReportOf, SweepOf
  <2>2. ASSUME NEW cell \in BoundCells PROVE CellIsBacked(cell)
    <3>1. Verdicts[cell] = CellVerdict(cell, page[cell[1]][cell[2]], Unmeasured)
      BY DEF Verdicts
    <3>2. Passes(cell, Verdicts[cell])
      BY <1>1 DEF Green, DecodeTableWhole, Passes
    <3> QED
      BY <1>1, <3>1, <3>2, PassedIsBacked
  <2>3. RunsInOrder /\ \A f \in StageFiles : OneCleanCommit(f)
    BY <1>1 DEF Green
  <2>4. \A f \in StageFiles : \A c, d \in Recordings(f) :
          ~stages[f][c].dirty /\ stages[f][c].rev = stages[f][d].rev
    BY <2>3, StagesAreOne
  <2> QED
    BY <1>1, <2>1, <2>2, <2>3, <2>4, ClaimIsBacked DEF GreenIsBacked
<1>2. SlotsInv => GreenIsBacked
  BY <1>1 DEF GreenIsBacked
<1> QED
  BY <1>2, SlotsHoldReports, PTL

-----------------------------------------------------------------------------
(* What --fix leaves.                                                          *)

\* Rewriting a cell that is wrong or pending makes it one that is checked; any other
\* verdict stays, and of a cell of the right kind it is not a failure.
Fixed(cell, says) ==
  IF CellVerdict(cell, says, Unmeasured) \in {"pending", "wrong"} THEN Number(To[cell].ids) ELSE says

\* A target that is left unmeasured is one of the known ones, and is absent if what
\* could not be measured is only that.
LEMMA UnmeasuredTargets ==
  ASSUME SlotsInv, NEW t
  PROVE  /\ t \in DOMAIN Unmeasured <=> t \in Targets /\ Missing(t) # {} /\ Reaching(t) = {}
         /\ OnlyAbsent /\ t \in DOMAIN Unmeasured => Unmeasured[t] = "absent"
<1>1. \A i \in Used : SweepOf(i).impls \subseteq Targets
  BY LoadedAreUsed, BenchmarkAssumption DEF BenchmarkAssumption, SweepOf
<1>2. t \in DOMAIN Unmeasured <=> t \in Targets /\ Missing(t) # {} /\ Reaching(t) = {}
  BY <1>1, UnmeasuredIs DEF Missing, Probing
<1>3. ASSUME OnlyAbsent, t \in DOMAIN Unmeasured PROVE Unmeasured[t] = "absent"
  <2>1. ASSUME NEW i \in Missing(t) PROVE slots[i].unavailable[t] = "absent"
    <3>1. SweepOf(i).host[t] = "ENOENT" /\ SweepOf(i).era = "now"
      BY <1>2, <1>3, <2>1 DEF OnlyAbsent
    <3>2. i \in Used /\ t \in SweepOf(i).impls /\ SweepOf(i).host[t] # "ok"
      BY <2>1 DEF Missing, Probing
    <3> QED
      BY <3>1, <3>2, ListedAreMissing
  <2> QED
    BY <1>3, <2>1, UnmeasuredIs
<1> QED
  BY <1>2, <1>3

\* A cell of the page has a column of its row's table.
LEMMA CellColumns ==
  ASSUME NEW cell \in BoundCells
  PROVE  /\ cell[1] \in Rows /\ cell[2] \in Columns(cell[1].table)
         /\ cell[1].table \in {"1.1", "prose"} => cell[2][1] \in StageColumns
         /\ cell = <<cell[1], cell[2]>>
<1>1. PICK r \in Rows : cell \in {<<r, c>> : c \in Columns(r.table)}
  BY DEF BoundCells
<1>2. PICK c \in Columns(r.table) : cell = <<r, c>>
  BY <1>1
<1>3. cell[1].table \in {"1.1", "prose"} => cell[2] \in {<<x, 0>> : x \in StageColumns}
  BY <1>2 DEF Columns
<1> QED
  BY <1>2, <1>3

\* The decode table and the sentences quote stages, and find them where all are recorded.
LEMMA StageCellsFound ==
  ASSUME NEW cell \in BoundCells, cell[1].table \in {"1.1", "prose"},
         \A f \in StageFiles : Recordings(f) = StageColumns
  PROVE  Found(To[cell].ids) /\ To[cell].bound /\ To[cell].strict
<1> DEFINE stage == IF cell[1].table = "1.1" THEN "decode" ELSE cell[1].name
           id == StageId(stage, cell[2][1])
<1>1. cell[1] \in Rows /\ cell[2][1] \in StageColumns
  BY CellColumns
<1>2. stage \in StageFiles
  BY <1>1, RowsAssumption DEF RowsAssumption, StageFiles
<1>3. To[cell] = Strict(<<id>>)
  BY DEF To, Resolve
<1>4. IsStage(id) /\ id[2] = stage /\ id[5] = cell[2][1]
  BY DEF IsStage, StageId
<1> HIDE DEF id, stage
<1>5. Timed(id)
  BY <1>1, <1>2, <1>4 DEF Timed, Recordings
<1> QED
  BY <1>3, <1>5 DEF Found, Strict

LEMMA FixedPasses ==
  ASSUME SlotsInv, Sound, NEW cell \in BoundCells, RightKind(cell)
  PROVE  Passes(cell, CellVerdict(cell, Fixed(cell, page[cell[1]][cell[2]]), Unmeasured))
<1> DEFINE says == page[cell[1]][cell[2]]
           to == To[cell]
           target == cell[1].name
           number == Number(to.ids)
<1>1. cell[1] \in Rows
  BY CellColumns
<1>2. \A f \in StageFiles : Recordings(f) = StageColumns
  BY DEF Sound
<1>3. number.kind = "number"
  BY DEF Number
<1>4. target \in DOMAIN Unmeasured <=> target \in Targets /\ Missing(target) # {} /\ Reaching(target) = {}
  BY UnmeasuredTargets
<1>5. CASE cell[1].table = "prose"
  <2>1. Found(to.ids) /\ says = number
    BY <1>2, <1>5, StageCellsFound DEF RightKind
  <2>2. CellVerdict(cell, says, Unmeasured) = "checked"
    BY <1>5, <2>1 DEF CellVerdict, CheckProseClaim
  <2> QED
    BY <2>2 DEF Fixed, Passes
<1>6. CASE cell[1].table # "prose" /\ target \in DOMAIN Unmeasured
  <2>1. cell[1].table # "1.1"
    BY <1>1, <1>4, <1>6, RowsAssumption DEF RowsAssumption
  <2>2. says.kind = "marker"
    BY <1>4, <1>6, <2>1 DEF RightKind
  <2>3. Unmeasured[target] = "absent"
    BY <1>6, UnmeasuredTargets DEF Sound
  <2>4. CellVerdict(cell, says, Unmeasured) = "unavailable"
    BY <1>6, <2>2, <2>3 DEF CellVerdict, CheckCell
  <2> QED
    BY <2>1, <2>4 DEF Fixed, Passes
<1>7. CASE cell[1].table # "prose" /\ target \notin DOMAIN Unmeasured
  <2>1. \A x : CellVerdict(cell, x, Unmeasured) = CheckBound(to, x)
    BY <1>7 DEF CellVerdict, CheckCell
  <2>2. CASE cell[1].table = "1.1"
    <3>1. Found(to.ids) /\ to.bound
      BY <1>2, <2>2, StageCellsFound
    <3>2. says.kind \in {"number", "TBD"}
      BY <1>7, <2>2 DEF RightKind
    <3>3. CheckBound(to, number) = "checked"
      BY <1>3, <3>1 DEF CheckBound
    <3>4. CheckBound(to, says) \in {"pending", "wrong", "checked"}
      BY <3>1, <3>2 DEF CheckBound
    <3> HIDE DEF says, number
    <3> QED
      BY <2>1, <3>3, <3>4 DEF Fixed, Passes, says, number
  <2>3. CASE cell[1].table # "1.1"
    <3>1. says.kind # "marker" /\ (to.strict /\ ~Found(to.ids) => says.kind = "prose")
      BY <1>4, <1>7, <2>3 DEF RightKind
    <3>2. CheckBound(to, says) \in {"passed-over", "unbound", "pending", "wrong", "checked"}
      BY <3>1 DEF CheckBound
    <3>3. CheckBound(to, says) \in {"pending", "wrong"} => CheckBound(to, number) = "checked"
      BY <1>3, <3>1 DEF CheckBound
    <3> HIDE DEF says, number
    <3> QED
      BY <2>1, <2>3, <3>2, <3>3 DEF Fixed, Passes, says, number
  <2> QED
    BY <2>2, <2>3
<1> QED
  BY <1>5, <1>6, <1>7

\* Steps that leave the evidence alone leave what the check reads of it.
LEMMA SameVerdicts ==
  ASSUME UNCHANGED <<slots, stages>>, NEW cell, NEW says, says = page'[cell[1]][cell[2]]
  PROVE  CellVerdict(cell, page[cell[1]][cell[2]], Unmeasured)' = CellVerdict(cell, says, Unmeasured)
<1>1. Loaded' = Loaded
  BY DEF Loaded
<1>2. \A t : KindOf(t)' = KindOf(t)
  BY <1>1 DEF KindOf
<1>3. Unmeasured' = Unmeasured
  BY <1>1, <1>2 DEF Unmeasured
<1>4. \A id : Timed(id)' = Timed(id) /\ TimeOf(id)' = TimeOf(id)
  BY <1>1 DEF Timed, TimeOf, Has, Us, Having
<1>5. \A ids : Found(ids)' = Found(ids) /\ Number(ids)' = Number(ids)
  BY <1>4 DEF Found, Number
<1> QED
  BY <1>3, <1>5 DEF CellVerdict, CheckProseClaim, CheckCell, CheckBound

\* What a step that leaves the evidence alone leaves of the rest of the check.
LEMMA SameOrder ==
  ASSUME UNCHANGED <<slots, stages, claim>>
  PROVE  /\ Runnable' = Runnable /\ RunsInOrder' = RunsInOrder
         /\ \A f : Recordings(f)' = Recordings(f) /\ OneCleanCommit(f)' = OneCleanCommit(f)
<1>1. Loaded' = Loaded
  BY DEF Loaded
<1>2. \A f : Recordings(f)' = Recordings(f)
  BY DEF Recordings
<1>3. \A f : OneCleanCommit(f)' = OneCleanCommit(f)
  BY <1>2 DEF OneCleanCommit
<1>4. Runnable' = Runnable
  BY <1>1, <1>2 DEF Runnable
<1>5. Dirty' = Dirty /\ Duplicates' = Duplicates /\ CrossRunSpread' = CrossRunSpread
  BY <1>1 DEF Dirty, Duplicates, CrossRunSpread
<1>6. Stability' = Stability
  BY DEF Stability
<1>7. RunsInOrder' = RunsInOrder
  BY <1>5, <1>6 DEF RunsInOrder
<1> QED
  BY <1>2, <1>3, <1>4, <1>7

LEMMA SoundInOrder ==
  ASSUME SlotsInv, Sound
  PROVE  RunsInOrder
<1>1. \A i \in Loaded : ~slots[i].dirty /\ ~slots[i].twice
  BY LoadedAreUsed DEF Sound, ReportOf, SweepOf
<1>2. ~CrossRunSpread
  BY LoadedAreUsed DEF Sound, Agreed, CrossRunSpread
<1> QED
  BY <1>1, <1>2 DEF Sound, RunsInOrder, Dirty, Duplicates

(* Over evidence in order, and on a page whose cells are of the right kind,     *)
(* --fix leaves a page that the check finds nothing against, however the        *)
(* reports were made and whatever the cells said.                               *)
THEOREM FixLeavesGreen == BenchSpec => FixPublishes
<1> DEFINE Good == Fix /\ Sound /\ (\A cell \in BoundCells : RightKind(cell))
<1>1. ASSUME SlotsInv, Good PROVE Green'
  <2>1. UNCHANGED <<slots, stages, claim>> /\ Runnable
    BY <1>1 DEF Fix
  <2>2. Runnable' /\ RunsInOrder' /\ \A f \in StageFiles : OneCleanCommit(f)' /\ Recordings(f)' = StageColumns
    <3>1. RunsInOrder
      BY <1>1, SoundInOrder
    <3>2. \A f \in StageFiles : OneCleanCommit(f) /\ Recordings(f) = StageColumns
      BY <1>1 DEF Sound
    <3> QED
      BY <2>1, <3>1, <3>2, SameOrder
  <2>3. ASSUME NEW cell \in BoundCells PROVE Passes(cell, Verdicts'[cell])
    <3> DEFINE r == cell[1]
               c == cell[2]
               says == page[r][c]
    <3>1. r \in Rows /\ c \in Columns(r.table) /\ cell = <<r, c>>
      BY CellColumns
    <3>2. Verdicts[cell] = CellVerdict(cell, says, Unmeasured)
      BY DEF Verdicts
    <3>3. page'[r][c] = Fixed(cell, says)
      <4>1. page' = [q \in Rows |->
                      [d \in Columns(q.table) |->
                         IF Verdicts[<<q, d>>] \in {"pending", "wrong"}
                           THEN Number(To[<<q, d>>].ids) ELSE page[q][d]]]
        BY <1>1 DEF Fix
      <4>2. page'[r][c] = IF Verdicts[<<r, c>>] \in {"pending", "wrong"}
                            THEN Number(To[<<r, c>>].ids) ELSE page[r][c]
        BY <3>1, <4>1
      <4> QED
        BY <3>1, <3>2, <4>2 DEF Fixed
    <3>4. PICK after : after = page'[r][c]
      OBVIOUS
    <3>5. (Verdicts[cell])' = CellVerdict(cell, page[cell[1]][cell[2]], Unmeasured)'
      BY DEF Verdicts
    <3>6. CellVerdict(cell, page[cell[1]][cell[2]], Unmeasured)' = CellVerdict(cell, after, Unmeasured)
      BY <2>1, <3>4, SameVerdicts
    <3>7. Passes(cell, CellVerdict(cell, after, Unmeasured))
      BY <1>1, <3>3, <3>4, FixedPasses
    <3> QED
      BY <3>5, <3>6, <3>7
  <2>4. DecodeTableWhole(Verdicts)'
    BY <2>2, <2>3 DEF DecodeTableWhole, Passes, StageFiles
  <2> QED
    BY <2>2, <2>3, <2>4 DEF Green, Passes
<1>2. SlotsInv => [Good => Green']_benchVars
  BY <1>1
<1> QED
  BY <1>2, SlotsHoldReports, PTL DEF FixPublishes

-----------------------------------------------------------------------------
(* Sequences and sums. What a recursive function computes is proved by the     *)
(* least number for which it would not.                                        *)

LEMMA LeastNumber ==
  ASSUME NEW T \in SUBSET Nat, T # {}
  PROVE  \E n \in T : \A m \in T : n <= m
<1> DEFINE R == {p \in Nat \X Nat : p[1] < p[2]}
<1>1. OpToRel(<, Nat) = R
  BY DEF OpToRel
<1>2. IsWellFoundedOn(R, Nat)
  BY <1>1, NatLessThanWellFounded
<1>3. PICK n \in T : \A m \in T : ~ (<<m, n>> \in R)
  BY <1>2, WFMin
<1>4. \A m \in T : ~ (m < n)
  BY <1>3
<1> QED
  BY <1>4

\* A function on 1 .. n is a sequence, which Listed leaves as it is.
LEMMA ListedIs ==
  ASSUME NEW n \in Nat, NEW T, NEW f \in [1 .. n -> T]
  PROVE  f \in Seq(T) /\ Len(f) = n /\ Listed(f) = f
<1>1. f \in Seq(T) /\ Len(f) = n
  OBVIOUS
<1> QED
  BY <1>1, ConcatEmptySeq DEF Listed

\* s has the sums of the first elements of f.
Partial(s, f, n) ==
  /\ s \in [0 .. n -> Int] /\ s[0] = 0
  /\ \A k \in 1 .. n : s[k] = f[k] + s[k - 1]

LEMMA PartialExists ==
  ASSUME NEW n \in Nat, NEW f \in [1 .. n -> Int]
  PROVE  \E s : Partial(s, f, n)
<1> DEFINE T == {k \in 0 .. n : ~ \E s : Partial(s, f, k)}
<1>1. SUFFICES ASSUME T # {} PROVE FALSE
  <2>1. n \in 0 .. n
    OBVIOUS
  <2> QED
    BY <2>1
<1>2. PICK m \in T : \A k \in T : m <= k
  BY <1>1, LeastNumber, T \in SUBSET Nat
<1>3. CASE m = 0
  <2>1. Partial([k \in 0 .. 0 |-> 0], f, 0)
    BY DEF Partial
  <2> QED
    BY <1>2, <1>3, <2>1
<1>4. CASE m # 0
  <2>1. m - 1 \in 0 .. n /\ m - 1 \notin T
    BY <1>2, <1>4
  <2>2. PICK s : Partial(s, f, m - 1)
    BY <2>1
  <2> DEFINE t == [k \in 0 .. m |-> IF k < m THEN s[k] ELSE f[m] + s[m - 1]]
  <2>3. m \in 1 .. n /\ m - 1 \in 0 .. m - 1
    BY <1>4
  <2>4. f[m] \in Int /\ s[m - 1] \in Int
    BY <2>2, <2>3 DEF Partial
  <2>5. t \in [0 .. m -> Int] /\ t[0] = 0
    BY <2>2, <2>3, <2>4 DEF Partial
  <2>6. \A k \in 1 .. m : t[k] = f[k] + t[k - 1]
    BY <2>2, <2>3, <2>4 DEF Partial
  <2>7. Partial(t, f, m)
    BY <2>5, <2>6 DEF Partial
  <2> QED
    BY <1>2, <2>7
<1> QED
  BY <1>3, <1>4

\* Sum is what any such function ends with.
LEMMA SumIs ==
  ASSUME NEW n \in Nat, NEW f \in [1 .. n -> Int], NEW s, Partial(s, f, n)
  PROVE  Sum(f) = s[n]
<1> DEFINE Sums(t) == t = [k \in 0 .. n |-> IF k = 0 THEN 0 ELSE f[k] + t[k - 1]]
           u == CHOOSE t : Sums(t)
<1>1. Sum(f) = u[n]
  <2>1. Listed(f) = f /\ Len(f) = n
    BY ListedIs
  <2> QED
    BY <2>1 DEF Sum
<1>2. Sums(s)
  BY DEF Partial
<1>3. Sums(u)
  BY <1>2
<1>4. \A k \in 0 .. n : u[k] = IF k = 0 THEN 0 ELSE f[k] + u[k - 1]
  BY <1>3
<1> HIDE DEF u, Sums
<1> DEFINE T == {k \in 0 .. n : u[k] # s[k]}
<1>5. T = {}
  <2>1. SUFFICES ASSUME T # {} PROVE FALSE
    OBVIOUS
  <2>2. PICK m \in T : \A k \in T : m <= k
    BY <2>1, LeastNumber, T \in SUBSET Nat
  <2>3. m # 0
    BY <1>4 DEF Partial
  <2>4. m - 1 \in 0 .. n /\ m - 1 \notin T /\ m \in 1 .. n
    BY <2>2, <2>3
  <2>5. u[m] = f[m] + u[m - 1] /\ s[m] = f[m] + s[m - 1]
    BY <1>4, <2>3, <2>4 DEF Partial
  <2> QED
    BY <2>4, <2>5
<1> QED
  BY <1>1, <1>5

LEMMA SumType ==
  ASSUME NEW n \in Nat, NEW f \in [1 .. n -> Int]
  PROVE  Sum(f) \in Int
<1>1. PICK s : Partial(s, f, n)
  BY PartialExists
<1>2. s[n] \in Int
  BY <1>1 DEF Partial
<1> QED
  BY <1>1, <1>2, SumIs

LEMMA SumMonotone ==
  ASSUME NEW n \in Nat, NEW f \in [1 .. n -> Int], NEW g \in [1 .. n -> Int],
         \A i \in 1 .. n : f[i] <= g[i]
  PROVE  Sum(f) <= Sum(g)
<1>1. PICK s : Partial(s, f, n)
  BY PartialExists
<1>2. PICK t : Partial(t, g, n)
  BY PartialExists
<1> DEFINE T == {k \in 0 .. n : ~ (s[k] <= t[k])}
<1>3. T = {}
  <2>1. SUFFICES ASSUME T # {} PROVE FALSE
    OBVIOUS
  <2>2. PICK m \in T : \A k \in T : m <= k
    BY <2>1, LeastNumber, T \in SUBSET Nat
  <2>3. m # 0
    BY <1>1, <1>2 DEF Partial
  <2>4. m - 1 \in 0 .. n /\ m - 1 \notin T /\ m \in 1 .. n
    BY <2>2, <2>3
  <2>5. /\ s[m] = f[m] + s[m - 1] /\ t[m] = g[m] + t[m - 1]
        /\ s[m - 1] \in Int /\ t[m - 1] \in Int /\ f[m] \in Int /\ g[m] \in Int
    BY <1>1, <1>2, <2>4 DEF Partial
  <2> QED
    BY <2>4, <2>5
<1>4. n \in 0 .. n
  OBVIOUS
<1> QED
  BY <1>1, <1>2, <1>3, <1>4, SumIs

LEMMA SumNegated ==
  ASSUME NEW n \in Nat, NEW f \in [1 .. n -> Int], NEW g \in [1 .. n -> Int],
         \A i \in 1 .. n : g[i] = 0 - f[i]
  PROVE  Sum(g) = 0 - Sum(f)
<1>1. PICK s : Partial(s, f, n)
  BY PartialExists
<1> DEFINE t == [k \in 0 .. n |-> 0 - s[k]]
<1>2. Partial(t, g, n)
  <2>1. t \in [0 .. n -> Int] /\ t[0] = 0
    BY <1>1 DEF Partial
  <2>2. ASSUME NEW k \in 1 .. n PROVE t[k] = g[k] + t[k - 1]
    <3>1. k - 1 \in 0 .. n /\ k \in 0 .. n /\ s[k] = f[k] + s[k - 1]
      BY <1>1 DEF Partial
    <3>2. s[k - 1] \in Int /\ f[k] \in Int
      BY <1>1, <3>1 DEF Partial
    <3> QED
      BY <3>1, <3>2
  <2> QED
    BY <2>1, <2>2 DEF Partial
<1> QED
  BY <1>1, <1>2, SumIs

-----------------------------------------------------------------------------
(* Order statistics *)

Upto(f, v) == {i \in DOMAIN f : f[i] <= v}
Under(f, v) == {i \in DOMAIN f : f[i] < v}

LEMMA CountsAre ==
  ASSUME NEW n \in Nat, NEW S \in SUBSET (1 .. n)
  PROVE  IsFiniteSet(S) /\ Cardinality(S) \in 0 .. n
<1>1. 1 \in Int /\ n \in Int
  OBVIOUS
<1>2. /\ IsFiniteSet(1 .. n)
      /\ Cardinality(1 .. n) = IF 1 > n THEN 0 ELSE n - 1 + 1
  BY ONLY <1>1, FS_Interval
<1>3. Cardinality(1 .. n) = n
  BY <1>2
<1>4. IsFiniteSet(S) /\ Cardinality(S) <= Cardinality(1 .. n)
  BY ONLY <1>2, FS_Subset, S \in SUBSET (1 .. n)
<1> QED
  BY <1>3, <1>4, FS_CardinalityType

LEMMA CountOfAll ==
  ASSUME NEW n \in Nat
  PROVE  Cardinality(1 .. n) = n
<1>1. 1 \in Int /\ n \in Int
  OBVIOUS
<1>2. Cardinality(1 .. n) = IF 1 > n THEN 0 ELSE n - 1 + 1
  BY ONLY <1>1, FS_Interval
<1> QED
  BY <1>2

LEMMA FewerOfSubset ==
  ASSUME NEW n \in Nat, NEW S \in SUBSET (1 .. n), NEW T \in SUBSET S
  PROVE  /\ Cardinality(T) <= Cardinality(S)
         /\ Cardinality(T) = Cardinality(S) => T = S
BY CountsAre, FS_Subset

LEMMA GreatestOf ==
  ASSUME NEW n \in Nat, NEW f \in [1 .. n -> Int], NEW L \in SUBSET (1 .. n), L # {}
  PROVE  \E j \in L : \A i \in L : f[i] <= f[j]
<1> DEFINE C(i) == n - Cardinality(Upto(f, f[i]))
           T == {C(i) : i \in L}
<1>1. ASSUME NEW i \in 1 .. n PROVE Upto(f, f[i]) \in SUBSET (1 .. n) /\ C(i) \in Nat
  <2>1. Upto(f, f[i]) \in SUBSET (1 .. n)
    BY DEF Upto
  <2> QED
    BY <2>1, CountsAre
<1>2. T \in SUBSET Nat /\ T # {}
  BY <1>1
<1>3. PICK j \in L : \A i \in L : C(j) <= C(i)
  <2>1. PICK t \in T : \A m \in T : t <= m
    <3> HIDE DEF T
    <3> QED
      BY <1>2, LeastNumber
  <2> QED
    BY <2>1
<1>4. ASSUME NEW i \in L, ~ (f[i] <= f[j]) PROVE FALSE
  <2>1. i \in 1 .. n /\ j \in 1 .. n /\ f[i] \in Int /\ f[j] \in Int
    OBVIOUS
  <2>2. Upto(f, f[j]) \in SUBSET Upto(f, f[i])
    BY <1>4, <2>1 DEF Upto
  <2>3. i \in Upto(f, f[i]) /\ i \notin Upto(f, f[j])
    BY <1>4, <2>1 DEF Upto
  <2>4. /\ Cardinality(Upto(f, f[j])) <= Cardinality(Upto(f, f[i]))
        /\ Cardinality(Upto(f, f[j])) # Cardinality(Upto(f, f[i]))
    BY <1>1, <2>1, <2>2, <2>3, FewerOfSubset
  <2>5. Cardinality(Upto(f, f[j])) \in Nat /\ Cardinality(Upto(f, f[i])) \in Nat
    BY <1>1, <2>1, CountsAre
  <2>6. C(j) <= C(i)
    BY <1>3
  <2> QED
    BY <2>4, <2>5, <2>6
<1> QED
  BY <1>4

LEMMA LeastOf ==
  ASSUME NEW n \in Nat, NEW f \in [1 .. n -> Int], NEW L \in SUBSET (1 .. n), L # {}
  PROVE  \E j \in L : \A i \in L : f[j] <= f[i]
<1> DEFINE g == [i \in 1 .. n |-> 0 - f[i]]
<1>1. g \in [1 .. n -> Int]
  OBVIOUS
<1>2. PICK j \in L : \A i \in L : g[i] <= g[j]
  BY <1>1, GreatestOf
<1>3. ASSUME NEW i \in L PROVE f[j] <= f[i]
  <2>1. g[i] = 0 - f[i] /\ g[j] = 0 - f[j] /\ f[i] \in Int /\ f[j] \in Int /\ g[i] <= g[j]
    BY <1>2
  <2> QED
    BY <2>1
<1> QED
  BY <1>3

LEMMA KthExists ==
  ASSUME NEW n \in Nat, NEW f \in [1 .. n -> Int], NEW k \in 1 .. n
  PROVE  \E v \in Range(f) : IsKth(f, k, v)
<1> DEFINE S == {i \in 1 .. n : k <= Cardinality(Upto(f, f[i]))}
<1>1. S # {}
  <2>1. PICK j \in 1 .. n : \A i \in 1 .. n : f[i] <= f[j]
    BY GreatestOf, 1 .. n # {}
  <2>2. Upto(f, f[j]) = 1 .. n
    BY <2>1 DEF Upto
  <2>3. Cardinality(1 .. n) = n
    BY CountOfAll
  <2> QED
    BY <2>2, <2>3
<1>2. PICK i0 \in S : \A i \in S : f[i0] <= f[i]
  BY <1>1, LeastOf, S \in SUBSET (1 .. n)
<1> DEFINE U == Under(f, f[i0])
<1>3. U \in SUBSET (1 .. n) /\ f[i0] \in Int
  BY DEF Under
<1>4. ASSUME ~ (Cardinality(U) < k) PROVE FALSE
  <2>1. U # {}
    <3>1. Cardinality({}) = 0
      BY FS_EmptySet
    <3>2. U = {} => Cardinality(U) = 0
      BY <3>1
    <3> HIDE DEF U
    <3> QED
      BY <1>4, <3>2
  <2>2. PICK j \in U : \A i \in U : f[i] <= f[j]
    BY <1>3, <2>1, GreatestOf
  <2>3. j \in 1 .. n /\ f[j] < f[i0]
    BY DEF Under
  <2>4. Upto(f, f[j]) = U
    <3>1. ASSUME NEW i \in Upto(f, f[j]) PROVE i \in U
      <4>1. i \in 1 .. n /\ f[i] <= f[j] /\ f[i] \in Int /\ f[j] \in Int
        BY <2>3 DEF Upto
      <4> QED
        BY <1>3, <2>3, <4>1 DEF Under
    <3>2. ASSUME NEW i \in U PROVE i \in Upto(f, f[j])
      BY <2>2, <1>3 DEF Upto
    <3> QED
      BY <3>1, <3>2
  <2>5. Cardinality(U) \in Nat
    BY <1>3, CountsAre
  <2>6. j \in S
    BY <1>4, <2>3, <2>4, <2>5
  <2>7. f[i0] <= f[j] /\ f[j] \in Int
    BY <1>2, <2>3, <2>6
  <2> QED
    BY <1>3, <2>3, <2>7
<1>5. IsKth(f, k, f[i0])
  BY <1>2, <1>4 DEF IsKth, Upto, Under
<1>6. f[i0] \in Range(f)
  BY DEF Range
<1> QED
  BY <1>5, <1>6

LEMMA KthOrder ==
  ASSUME NEW n \in Nat, NEW f \in [1 .. n -> Int], NEW g \in [1 .. n -> Int],
         \A i \in 1 .. n : f[i] <= g[i],
         NEW k \in 1 .. n, NEW v \in Int, NEW w \in Int, IsKth(f, k, v), IsKth(g, k, w)
  PROVE  v <= w
<1>1. SUFFICES ASSUME w < v PROVE FALSE
  OBVIOUS
<1>2. Under(f, v) \in SUBSET (1 .. n) /\ Upto(g, w) \in SUBSET (1 .. n)
  BY DEF Under, Upto
<1>3. Upto(g, w) \in SUBSET Under(f, v)
  <2>1. ASSUME NEW i \in Upto(g, w) PROVE i \in Under(f, v)
    <3>1. i \in 1 .. n /\ g[i] <= w /\ f[i] <= g[i] /\ f[i] \in Int /\ g[i] \in Int
      BY DEF Upto
    <3> QED
      BY <1>1, <3>1 DEF Under
  <2> QED
    BY <2>1
<1>4. Cardinality(Under(f, v)) < k /\ k <= Cardinality(Upto(g, w))
  BY DEF IsKth, Under, Upto
<1>5. Cardinality(Upto(g, w)) <= Cardinality(Under(f, v))
  BY <1>2, <1>3, FewerOfSubset
<1>6. Cardinality(Under(f, v)) \in Nat /\ Cardinality(Upto(g, w)) \in Nat
  BY <1>2, CountsAre
<1> QED
  BY <1>4, <1>5, <1>6

LEMMA AscendingIs ==
  ASSUME NEW n \in Nat, NEW f \in [1 .. n -> Int]
  PROVE  /\ Ascending(f) \in [1 .. n -> Int] /\ Len(Ascending(f)) = n
         /\ \A k \in 1 .. n : IsKth(f, k, Ascending(f)[k])
<1> DEFINE A == [k \in 1 .. n |-> CHOOSE v \in Range(f) : IsKth(f, k, v)]
<1>1. Range(f) \in SUBSET Int
  BY DEF Range
<1>2. \A k \in 1 .. n : A[k] \in Range(f) /\ IsKth(f, k, A[k])
  BY KthExists
<1>3. A \in [1 .. n -> Int]
  BY <1>1, <1>2
<1>4. Listed(A) = A /\ Len(A) = n
  BY <1>3, ListedIs
<1>5. Ascending(f) = A
  BY <1>4 DEF Ascending
<1> QED
  BY <1>2, <1>3, <1>4, <1>5

\* What comes before in every place is no more at any rank.
LEMMA AscendingMonotone ==
  ASSUME NEW n \in Nat, NEW f \in [1 .. n -> Int], NEW g \in [1 .. n -> Int],
         \A i \in 1 .. n : f[i] <= g[i]
  PROVE  \A k \in 1 .. n : Ascending(f)[k] <= Ascending(g)[k]
<1>1. ASSUME NEW k \in 1 .. n PROVE Ascending(f)[k] <= Ascending(g)[k]
  <2>1. /\ Ascending(f)[k] \in Int /\ IsKth(f, k, Ascending(f)[k])
        /\ Ascending(g)[k] \in Int /\ IsKth(g, k, Ascending(g)[k])
    BY AscendingIs
  <2> QED
    BY <2>1, KthOrder
<1> QED
  BY <1>1

-----------------------------------------------------------------------------
(* Quantiles *)

LEMMA Divides ==
  ASSUME NEW x \in Nat, NEW d \in Nat \ {0}
  PROVE  /\ x \div d \in Nat /\ x % d \in 0 .. d - 1
         /\ x = d * (x \div d) + (x % d)
OBVIOUS

LEMMA ScaledOrder ==
  ASSUME NEW c \in Nat, NEW x \in Int, NEW y \in Int, x <= y
  PROVE  c * x \in Int /\ c * y \in Int /\ c * x <= c * y
OBVIOUS

\* The places that a quantile is interpolated between.
LEMMA PlacesAre ==
  ASSUME NEW n \in Nat \ {0}, NEW den \in Nat \ {0}, NEW num \in 0 .. den
  PROVE  LET pos == num * (n - 1) IN
         /\ pos \in Nat /\ pos \div den \in Nat /\ pos % den \in 0 .. den - 1
         /\ 1 + pos \div den \in 1 .. n
         /\ pos % den # 0 => (1 + pos \div den) + 1 \in 1 .. n
<1> DEFINE pos == num * (n - 1)
           q == pos \div den
           r == pos % den
<1>1. n - 1 \in Nat /\ num \in Int /\ pos \in Nat
  OBVIOUS
<1>2. q \in Nat /\ r \in 0 .. den - 1 /\ pos = den * q + r
  BY <1>1, Divides
<1>3. pos <= den * (n - 1)
  <2>1. (n - 1) * num <= (n - 1) * den
    BY <1>1, ScaledOrder, num <= den
  <2> QED
    BY <1>1, <2>1
<1> HIDE DEF pos, q, r
<1>4. q <= n - 1
  <2>1. SUFFICES ASSUME q >= n PROVE FALSE
    BY <1>2
  <2>2. den * n <= den * q
    BY <1>2, <2>1, ScaledOrder
  <2>3. den * n = den * (n - 1) + den
    OBVIOUS
  <2>4. den * q \in Int /\ den * (n - 1) \in Int /\ den * n \in Int /\ den \in Int /\ den > 0 /\ r \in Int /\ r >= 0
    BY <1>2
  <2> QED
    BY <1>1, <1>2, <1>3, <2>2, <2>3, <2>4
<1>5. ASSUME r # 0 PROVE q # n - 1
  <2>1. SUFFICES ASSUME q = n - 1 PROVE FALSE
    OBVIOUS
  <2>2. den * q = den * (n - 1)
    BY <2>1
  <2>3. den * q \in Int /\ r \in Int /\ r > 0
    BY <1>2, <1>5
  <2> QED
    BY <1>1, <1>2, <1>3, <2>2, <2>3
<1>6. q + 1 \in 1 .. n /\ (r # 0 => (1 + q) + 1 \in 1 .. n)
  BY <1>2, <1>4, <1>5
<1> QED
  BY <1>1, <1>2, <1>6 DEF pos, q, r

-----------------------------------------------------------------------------
LEMMA Interpolated ==
  ASSUME NEW d \in Nat, NEW r \in 0 .. d,
         NEW a \in Int, NEW b \in Int, NEW x \in Int, NEW y \in Int, a <= x, b <= y
  PROVE  /\ d * a + r * (b - a) \in Int /\ d * x + r * (y - x) \in Int
         /\ d * a + r * (b - a) <= d * x + r * (y - x)
<1>1. d * a + r * (b - a) = (d - r) * a + r * b
  OBVIOUS
<1>2. d * x + r * (y - x) = (d - r) * x + r * y
  OBVIOUS
<1>3. d - r \in Nat /\ r \in Nat
  OBVIOUS
<1>4. /\ (d - r) * a \in Int /\ (d - r) * x \in Int /\ (d - r) * a <= (d - r) * x
      /\ r * b \in Int /\ r * y \in Int /\ r * b <= r * y
  BY <1>3, ScaledOrder
<1>5. (d - r) * a + r * b <= (d - r) * x + r * y
  BY <1>4
<1>6. (d - r) * a + r * b \in Int /\ (d - r) * x + r * y \in Int
  BY <1>4
<1> QED
  BY <1>1, <1>2, <1>5, <1>6

LEMMA QuantileMonotone ==
  ASSUME NEW n \in Nat \ {0}, NEW den \in Nat \ {0}, NEW num \in 0 .. den,
         NEW s \in [1 .. n -> Int], NEW t \in [1 .. n -> Int],
         \A k \in 1 .. n : s[k] <= t[k]
  PROVE  /\ Quantile(s, num, den) \in Int /\ Quantile(t, num, den) \in Int
         /\ Quantile(s, num, den) <= Quantile(t, num, den)
<1> DEFINE pos == num * (n - 1)
           lo == 1 + pos \div den
           rest == pos % den
<1>1. Len(s) = n /\ Len(t) = n
  BY ListedIs
<1>2. /\ lo \in 1 .. n /\ rest \in 0 .. den - 1
      /\ rest # 0 => lo + 1 \in 1 .. n
  BY PlacesAre
<1>3. /\ Quantile(s, num, den) = den * s[lo] + (IF rest = 0 THEN 0 ELSE rest * (s[lo + 1] - s[lo]))
      /\ Quantile(t, num, den) = den * t[lo] + (IF rest = 0 THEN 0 ELSE rest * (t[lo + 1] - t[lo]))
  BY <1>1 DEF Quantile
<1> HIDE DEF pos, lo, rest
<1>4. CASE rest = 0
  <2>1. s[lo] \in Int /\ t[lo] \in Int /\ s[lo] <= t[lo]
    BY <1>2
  <2>2. den * s[lo] \in Int /\ den * t[lo] \in Int /\ den * s[lo] <= den * t[lo]
    BY <2>1, ScaledOrder
  <2> QED
    BY <1>3, <1>4, <2>2
<1>5. CASE rest # 0
  <2>1. /\ s[lo] \in Int /\ t[lo] \in Int /\ s[lo] <= t[lo]
        /\ s[lo + 1] \in Int /\ t[lo + 1] \in Int /\ s[lo + 1] <= t[lo + 1]
    BY <1>2, <1>5
  <2>2. rest \in 0 .. den
    BY <1>2
  <2> HIDE DEF rest
  <2>3. /\ den * s[lo] + rest * (s[lo + 1] - s[lo]) \in Int
        /\ den * t[lo] + rest * (t[lo + 1] - t[lo]) \in Int
        /\ den * s[lo] + rest * (s[lo + 1] - s[lo]) <= den * t[lo] + rest * (t[lo + 1] - t[lo])
    BY <2>1, <2>2, Interpolated
  <2> QED
    BY <1>3, <1>5, <2>3
<1> QED
  BY <1>4, <1>5

LEMMA IntervalMonotone ==
  ASSUME NEW n \in Nat \ {0}, NEW f \in [1 .. n -> Int], NEW g \in [1 .. n -> Int],
         \A i \in 1 .. n : f[i] <= g[i]
  PROVE  \A e \in {1, 2} : /\ IntervalOf(f)[e] \in Int /\ IntervalOf(g)[e] \in Int
                           /\ IntervalOf(f)[e] <= IntervalOf(g)[e]
<1> DEFINE s == Ascending(f)
           t == Ascending(g)
<1>1. s \in [1 .. n -> Int] /\ t \in [1 .. n -> Int] /\ \A k \in 1 .. n : s[k] <= t[k]
  BY AscendingIs, AscendingMonotone
<1>2. Cut \in Nat \ {0} /\ 1 \in 0 .. Cut /\ Cut - 1 \in 0 .. Cut
  BY DrawsAssumption
<1>3. /\ IntervalOf(f) = <<Quantile(s, 1, Cut), Quantile(s, Cut - 1, Cut)>>
      /\ IntervalOf(g) = <<Quantile(t, 1, Cut), Quantile(t, Cut - 1, Cut)>>
  BY DEF IntervalOf
<1> HIDE DEF s, t
<1>4. \A num \in {1, Cut - 1} :
        /\ Quantile(s, num, Cut) \in Int /\ Quantile(t, num, Cut) \in Int
        /\ Quantile(s, num, Cut) <= Quantile(t, num, Cut)
  BY <1>1, <1>2, QuantileMonotone
<1> QED
  BY <1>3, <1>4

-----------------------------------------------------------------------------
(* Resampling *)

SampleSizes == {Resamples, PResamples}

LEMMA DrawIs ==
  ASSUME NEW seed \in Seeds, NEW m \in 1 .. ImageCount, NEW n \in SampleSizes, NEW r \in 1 .. n
  PROVE  Draws[seed][m][r] \in [1 .. m -> 1 .. m]
<1>1. m \in DOMAIN Draws[seed]
  BY ScoredAssumption
<1>2. Draws[seed][m] \in Seq([1 .. m -> 1 .. m]) /\ Len(Draws[seed][m]) >= n
  BY <1>1, DrawsAssumption DEF SampleSizes
<1>3. n \in Nat
  BY DrawsAssumption DEF SampleSizes
<1>4. r \in 1 .. Len(Draws[seed][m])
  BY <1>2, <1>3
<1> QED
  BY <1>2, <1>4, ElementOfSeq

\* One resample of the values.
Drawn(values, m, seed, r) == [i \in 1 .. m |-> values[Draws[seed][m][r][i]]]

LEMMA DrawnIs ==
  ASSUME NEW seed \in Seeds, NEW m \in 1 .. ImageCount, NEW n \in SampleSizes, NEW r \in 1 .. n,
         NEW f \in [1 .. m -> Int]
  PROVE  /\ Drawn(f, m, seed, r) \in [1 .. m -> Int]
         /\ \A i \in 1 .. m : /\ Draws[seed][m][r][i] \in 1 .. m
                              /\ Drawn(f, m, seed, r)[i] = f[Draws[seed][m][r][i]]
<1>1. Draws[seed][m][r] \in [1 .. m -> 1 .. m]
  BY DrawIs
<1> QED
  BY <1>1 DEF Drawn

LEMMA ResampledIs ==
  ASSUME NEW seed \in Seeds, NEW m \in 1 .. ImageCount, NEW n \in SampleSizes, NEW f \in [1 .. m -> Int]
  PROVE  /\ ResampledStatistics(f, n, seed) \in [1 .. n -> Int]
         /\ \A r \in 1 .. n : ResampledStatistics(f, n, seed)[r] = Sum(Drawn(f, m, seed, r))
<1> DEFINE S == [r \in 1 .. n |-> Sum(Drawn(f, m, seed, r))]
<1>1. m \in Nat /\ n \in Nat
  BY ScoredAssumption, DrawsAssumption DEF SampleSizes
<1>2. \A r \in 1 .. n : Sum(Drawn(f, m, seed, r)) \in Int
  BY <1>1, DrawnIs, SumType
<1>3. S \in [1 .. n -> Int]
  BY <1>2
<1>4. Listed(S) = S /\ Len(f) = m
  BY <1>1, <1>3, ListedIs
<1>5. ResampledStatistics(f, n, seed) = Listed(S)
  BY <1>4 DEF ResampledStatistics, Drawn
<1> QED
  BY <1>3, <1>4, <1>5

LEMMA ResampledMonotone ==
  ASSUME NEW seed \in Seeds, NEW m \in 1 .. ImageCount, NEW n \in SampleSizes,
         NEW f \in [1 .. m -> Int], NEW g \in [1 .. m -> Int], \A i \in 1 .. m : f[i] <= g[i]
  PROVE  \A r \in 1 .. n : ResampledStatistics(f, n, seed)[r] <= ResampledStatistics(g, n, seed)[r]
<1>1. ASSUME NEW r \in 1 .. n
      PROVE  ResampledStatistics(f, n, seed)[r] <= ResampledStatistics(g, n, seed)[r]
  <2> DEFINE u == Drawn(f, m, seed, r)
             w == Drawn(g, m, seed, r)
  <2>1. u \in [1 .. m -> Int] /\ w \in [1 .. m -> Int]
    BY DrawnIs
  <2>2. \A i \in 1 .. m : u[i] <= w[i]
    <3>1. ASSUME NEW i \in 1 .. m PROVE u[i] <= w[i]
      <4>1. /\ Draws[seed][m][r][i] \in 1 .. m
            /\ u[i] = f[Draws[seed][m][r][i]] /\ w[i] = g[Draws[seed][m][r][i]]
        BY DrawnIs
      <4> QED
        BY <4>1
    <3> QED
      BY <3>1
  <2>3. m \in Nat
    BY ScoredAssumption
  <2> HIDE DEF u, w
  <2>4. Sum(u) <= Sum(w)
    BY <2>1, <2>2, <2>3, SumMonotone
  <2>5. ResampledStatistics(f, n, seed)[r] = Sum(u) /\ ResampledStatistics(g, n, seed)[r] = Sum(w)
    BY ResampledIs DEF u, w
  <2> QED
    BY <2>4, <2>5
<1> QED
  BY <1>1

LEMMA BootstrapMonotone ==
  ASSUME NEW seed \in Seeds, NEW m \in 1 .. ImageCount,
         NEW f \in [1 .. m -> Int], NEW g \in [1 .. m -> Int], \A i \in 1 .. m : f[i] <= g[i]
  PROVE  \A e \in {1, 2} : /\ BootstrapCI(f, seed)[e] \in Int /\ BootstrapCI(g, seed)[e] \in Int
                           /\ BootstrapCI(f, seed)[e] <= BootstrapCI(g, seed)[e]
<1>1. Resamples \in SampleSizes /\ Resamples \in Nat \ {0}
  BY DrawsAssumption DEF SampleSizes
<1>2. /\ ResampledStatistics(f, Resamples, seed) \in [1 .. Resamples -> Int]
      /\ ResampledStatistics(g, Resamples, seed) \in [1 .. Resamples -> Int]
  BY <1>1, ResampledIs
<1>3. \A r \in 1 .. Resamples :
        ResampledStatistics(f, Resamples, seed)[r] <= ResampledStatistics(g, Resamples, seed)[r]
  BY <1>1, ResampledMonotone
<1> QED
  BY <1>1, <1>2, <1>3, IntervalMonotone DEF BootstrapCI

-----------------------------------------------------------------------------
(* Sets in order *)

Below(S, i) == {j \in S : j < i}

LEMMA BelowIs ==
  ASSUME NEW n \in Nat, NEW S \in SUBSET (1 .. n), NEW i \in S
  PROVE  Cardinality(Below(S, i)) + 1 \in 1 .. Cardinality(S)
<1>0. i \in 1 .. n /\ ~ (i < i)
  OBVIOUS
<1>1. Below(S, i) \in SUBSET S /\ i \in S /\ i \notin Below(S, i) /\ Below(S, i) \in SUBSET (1 .. n)
  BY <1>0 DEF Below
<1>2. /\ Cardinality(Below(S, i)) <= Cardinality(S) /\ Cardinality(Below(S, i)) # Cardinality(S)
  BY <1>1, FewerOfSubset
<1>3. Cardinality(Below(S, i)) \in Nat /\ Cardinality(S) \in Nat
  BY <1>1, CountsAre
<1> QED
  BY <1>2, <1>3

LEMMA BelowDiffers ==
  ASSUME NEW n \in Nat, NEW S \in SUBSET (1 .. n), NEW i \in S, NEW k \in S, i < k
  PROVE  Cardinality(Below(S, i)) # Cardinality(Below(S, k))
<1>0. /\ i \in 1 .. n /\ k \in 1 .. n /\ ~ (i < i)
      /\ \A j \in S : j < i => j < k
  <2>1. i \in 1 .. n /\ k \in 1 .. n /\ \A j \in S : j \in 1 .. n
    OBVIOUS
  <2> QED
    BY <2>1
<1>1. /\ Below(S, i) \in SUBSET Below(S, k) /\ Below(S, k) \in SUBSET (1 .. n)
      /\ i \in Below(S, k) /\ i \notin Below(S, i)
  BY <1>0 DEF Below
<1> QED
  BY <1>1, FewerOfSubset

\* Every element has a place, and every place an element.
LEMMA InOrderIs ==
  ASSUME NEW n \in Nat, NEW S \in SUBSET (1 .. n)
  PROVE  /\ InOrder(S) \in [1 .. Cardinality(S) -> S] /\ Len(InOrder(S)) = Cardinality(S)
         /\ \A i \in S, k \in 1 .. Cardinality(S) :
              InOrder(S)[k] = i <=> Cardinality(Below(S, i)) = k - 1
<1> DEFINE c == Cardinality(S)
           f == [i \in S |-> Cardinality(Below(S, i)) + 1]
<1>1. IsFiniteSet(S) /\ c \in Nat
  BY CountsAre
<1>2. f \in [S -> 1 .. c]
  BY BelowIs
<1>3. \A i, k \in S : f[i] = f[k] => i = k
  <2>1. ASSUME NEW i \in S, NEW k \in S, f[i] = f[k], i # k PROVE FALSE
    <3>1. Cardinality(Below(S, i)) \in Nat /\ Cardinality(Below(S, k)) \in Nat
      <4>1. Below(S, i) \in SUBSET (1 .. n) /\ Below(S, k) \in SUBSET (1 .. n)
        BY DEF Below
      <4> QED
        BY <4>1, CountsAre
    <3>2. Cardinality(Below(S, i)) = Cardinality(Below(S, k))
      BY <2>1, <3>1
    <3>3. i < k \/ k < i
      BY <2>1
    <3> QED
      BY <3>2, <3>3, BelowDiffers
  <2> QED
    BY <2>1
<1>4. f \in Injection(S, 1 .. c)
  BY <1>2, <1>3 DEF Injection, IsInjective
<1>5. IsFiniteSet(1 .. c) /\ Cardinality(1 .. c) = c
  BY <1>1, CountsAre, CountOfAll
<1>6. f \in Surjection(S, 1 .. c)
  <2> HIDE DEF f, c
  <2> QED
    BY <1>4, <1>5, FS_Injection DEF c
<1>7. \A k \in 1 .. c : \E i \in S : f[i] = k
  BY <1>6 DEF Surjection
<1>8. ASSUME NEW k \in 1 .. c
      PROVE  InOrder(S)[k] \in S /\ f[InOrder(S)[k]] = k
  <2>1. PICK i \in S : f[i] = k
    BY <1>7
  <2>2. Cardinality({j \in S : j < i}) = k - 1
    <3>1. Below(S, i) \in SUBSET (1 .. n)
      BY DEF Below
    <3>2. Cardinality(Below(S, i)) \in Nat
      BY <3>1, CountsAre
    <3> QED
      BY <2>1, <3>2 DEF Below
  <2>3. InOrder(S)[k] = CHOOSE x \in S : Cardinality({j \in S : j < x}) = k - 1
    BY DEF InOrder
  <2>4. /\ InOrder(S)[k] \in S
        /\ Cardinality({j \in S : j < InOrder(S)[k]}) = k - 1
    BY <2>2, <2>3
  <2>5. k \in Int
    BY <1>1
  <2> QED
    BY <2>4, <2>5 DEF Below
<1>9. InOrder(S) \in [1 .. c -> S]
  BY <1>8 DEF InOrder
<1>10. Len(InOrder(S)) = c
  BY <1>1, <1>9, ListedIs
<1>11. ASSUME NEW i \in S, NEW k \in 1 .. c
       PROVE  InOrder(S)[k] = i <=> Cardinality(Below(S, i)) = k - 1
  <2>1. Cardinality(Below(S, i)) \in Nat /\ k \in Nat /\ f[i] = Cardinality(Below(S, i)) + 1
    <3>1. Below(S, i) \in SUBSET (1 .. n)
      BY DEF Below
    <3> QED
      BY <1>1, <3>1, CountsAre
  <2>2. InOrder(S)[k] = i => f[i] = k
    BY <1>8
  <2>3. f[i] = k => InOrder(S)[k] = i
    BY <1>3, <1>8
  <2> HIDE DEF f
  <2> QED
    BY <2>1, <2>2, <2>3
<1> QED
  BY <1>9, <1>10, <1>11

LEMMA InOrderReaches ==
  ASSUME NEW n \in Nat, NEW S \in SUBSET (1 .. n), NEW i \in S
  PROVE  \E k \in 1 .. Cardinality(S) : InOrder(S)[k] = i
<1>1. Cardinality(Below(S, i)) + 1 \in 1 .. Cardinality(S)
  BY BelowIs
<1>2. Below(S, i) \in SUBSET (1 .. n)
  BY DEF Below
<1>3. Cardinality(Below(S, i)) \in Nat
  BY <1>2, CountsAre
<1>4. PICK k \in 1 .. Cardinality(S) : k = Cardinality(Below(S, i)) + 1
  BY <1>1
<1>5. Cardinality(Below(S, i)) = k - 1
  BY <1>3, <1>4
<1>6. InOrder(S)[k] = i
  BY <1>5, InOrderIs
<1> QED
  BY <1>6

\* A function on 1 .. n is empty where n is zero.
LEMMA EmptyIs ==
  ASSUME NEW n \in Nat, NEW T, NEW f \in [1 .. n -> T]
  PROVE  f = <<>> <=> n = 0
<1>1. f \in Seq(T) /\ Len(f) = n
  BY ListedIs
<1>2. f \in Seq(T) => (Len(f) = 0 <=> f = <<>>)
  BY EmptySeq
<1> QED
  BY <1>1, <1>2

\* All rows but the first.
LEMMA OthersAre ==
  ASSUME NEW n \in Nat \ {0}
  PROVE  LET S == (1 .. n) \ {1} IN
         /\ Cardinality(S) = n - 1 /\ Len(InOrder(S)) = n - 1
         /\ \A k \in 1 .. n - 1 : InOrder(S)[k] = k + 1
<1> DEFINE S == (1 .. n) \ {1}
<1>1. S \in SUBSET (1 .. n) /\ 1 \in 1 .. n
  OBVIOUS
<1>2. Cardinality(S) = n - 1
  <2>1. IsFiniteSet(1 .. n) /\ Cardinality(1 .. n) = n
    BY CountsAre, CountOfAll
  <2> QED
    BY <1>1, <2>1, FS_RemoveElement
<1>3. ASSUME NEW k \in 1 .. n - 1 PROVE InOrder(S)[k] = k + 1
  <2>1. Below(S, k + 1) = 2 .. k /\ k + 1 \in S
    BY DEF Below
  <2>2. 2 \in Int /\ k \in Int
    OBVIOUS
  <2>3. Cardinality(2 .. k) = IF 2 > k THEN 0 ELSE k - 2 + 1
    BY ONLY <2>2, FS_Interval
  <2>4. Cardinality(Below(S, k + 1)) = k - 1
    BY <2>1, <2>3
  <2>5. k \in 1 .. Cardinality(S)
    BY <1>2
  <2>6. PICK i \in S : i = k + 1
    BY <2>1
  <2>7. Cardinality(Below(S, i)) = k - 1
    BY <2>4, <2>6
  <2> HIDE DEF S
  <2>8. InOrder(S)[k] = i
    BY <1>1, <2>5, <2>7, InOrderIs
  <2> QED
    BY <2>6, <2>8
<1>4. Len(InOrder(S)) = Cardinality(S)
  <2> HIDE DEF S
  <2> QED
    BY <1>1, InOrderIs
<1> QED
  BY <1>2, <1>3, <1>4

-----------------------------------------------------------------------------
(* PairCount *)

Scores == [1 .. ImageCount -> Int \cup {Null}]

\* The images that two series both have.
Both(arm, base) == {i \in 1 .. ImageCount : base[i] # Null /\ arm[i] # Null}

LEMMA BothIs ==
  ASSUME NEW arm \in Scores, NEW base \in Scores
  PROVE  /\ Both(arm, base) \in SUBSET (1 .. ImageCount)
         /\ Cardinality(Both(arm, base)) \in 0 .. ImageCount
         /\ \A i \in Both(arm, base) : arm[i] \in Int /\ base[i] \in Int
         /\ {i \in DOMAIN base : base[i] # Null /\ i <= Len(arm) /\ arm[i] # Null} = Both(arm, base)
<1>1. ImageCount \in Nat
  BY ScoredAssumption
<1>2. Both(arm, base) \in SUBSET (1 .. ImageCount)
  BY DEF Both
<1>3. Cardinality(Both(arm, base)) \in 0 .. ImageCount
  BY <1>1, <1>2, CountsAre
<1>4. \A i \in Both(arm, base) : arm[i] \in Int /\ base[i] \in Int
  BY DEF Both, Scores
<1>5. Len(arm) = ImageCount /\ DOMAIN base = 1 .. ImageCount
  <2>1. arm \in [1 .. ImageCount -> Int \cup {Null}]
    BY DEF Scores
  <2>2. Len(arm) = ImageCount
    BY <1>1, <2>1, ListedIs
  <2> QED
    BY <2>2 DEF Scores
<1>6. \A i \in 1 .. ImageCount : i <= ImageCount
  BY <1>1
<1>7. {i \in DOMAIN base : base[i] # Null /\ i <= Len(arm) /\ arm[i] # Null} = Both(arm, base)
  BY <1>5, <1>6 DEF Both
<1> QED
  BY <1>2, <1>3, <1>4, <1>7

PairCount(arm, base) == Cardinality(Both(arm, base))

LEMMA DeltasAre ==
  ASSUME NEW arm \in Scores, NEW base \in Scores
  PROVE  LET diffs == PairedDeltas(arm, base)
             n == PairCount(arm, base)
             place == InOrder(Both(arm, base)) IN
         /\ n \in 0 .. ImageCount /\ place \in [1 .. n -> Both(arm, base)]
         /\ diffs.deltas \in [1 .. n -> Int] /\ Len(diffs.deltas) = n
         /\ diffs.baseValues \in [1 .. n -> Int]
         /\ diffs.baseValues = [k \in 1 .. n |-> base[place[k]]]
         /\ \A k \in 1 .. n : diffs.deltas[k] = arm[place[k]] - base[place[k]]
         /\ diffs.deltas = <<>> <=> n = 0
         /\ n = 0 => diffs = [deltas |-> <<>>, baseValues |-> <<>>]
<1> DEFINE diffs == PairedDeltas(arm, base)
           n == PairCount(arm, base)
           place == InOrder(Both(arm, base))
<1>1. /\ n \in 0 .. ImageCount /\ place \in [1 .. n -> Both(arm, base)] /\ ImageCount \in Nat
      /\ \A i \in Both(arm, base) : arm[i] \in Int /\ base[i] \in Int
  BY ScoredAssumption, BothIs, InOrderIs DEF PairCount
<1>2. diffs = [deltas     |-> [k \in DOMAIN place |-> arm[place[k]] - base[place[k]]],
              baseValues |-> [k \in DOMAIN place |-> base[place[k]]]]
  BY BothIs DEF PairedDeltas
<1>3. DOMAIN place = 1 .. n
  BY <1>1
<1> HIDE DEF place, n, diffs
<1>4. /\ diffs.deltas = [k \in 1 .. n |-> arm[place[k]] - base[place[k]]]
      /\ diffs.baseValues = [k \in 1 .. n |-> base[place[k]]]
      /\ diffs = [deltas |-> diffs.deltas, baseValues |-> diffs.baseValues]
  BY <1>2, <1>3
<1>5. \A k \in 1 .. n : arm[place[k]] \in Int /\ base[place[k]] \in Int
  BY <1>1
<1>6. diffs.deltas \in [1 .. n -> Int] /\ diffs.baseValues \in [1 .. n -> Int] /\ n \in Nat
  BY <1>1, <1>4, <1>5
<1>7. Len(diffs.deltas) = n
  BY <1>6, ListedIs
<1>8. (diffs.deltas = <<>> <=> n = 0) /\ (diffs.baseValues = <<>> <=> n = 0)
  BY <1>6, EmptyIs
<1>9. n = 0 => diffs = [deltas |-> <<>>, baseValues |-> <<>>]
  BY <1>4, <1>8
<1>10. \A k \in 1 .. n : diffs.deltas[k] = arm[place[k]] - base[place[k]]
  BY <1>4
<1> QED
  BY <1>1, <1>4, <1>6, <1>7, <1>8, <1>9, <1>10 DEF place, n, diffs

LEMMA SeriesOf ==
  ASSUME NEW r \in ScoredRow, NEW key \in Series
  PROVE  r[key] \in Scores /\ DOMAIN r = Series
BY DEF ScoredRow, Scores

LEMMA MetricsAreSeries == PairedMetrics \in SUBSET Series
BY DEF Series

\* A series is committed where it has a score.
LEMMA CommittedRow ==
  ASSUME NEW r \in ScoredRow
  PROVE  /\ DOMAIN PerImageOf(r) = {k \in Series : \E i \in 1 .. ImageCount : r[k][i] # Null}
         /\ \A k \in DOMAIN PerImageOf(r) : PerImageOf(r)[k] = r[k]
<1>1. ASSUME NEW k \in Series
      PROVE  Finite(r[k]) # <<>> <=> \E i \in 1 .. ImageCount : r[k][i] # Null
  <2> DEFINE S == {i \in 1 .. ImageCount : r[k][i] # Null}
  <2>1. DOMAIN r[k] = 1 .. ImageCount
    BY SeriesOf DEF Scores
  <2>2. S \in SUBSET (1 .. ImageCount) /\ ImageCount \in Nat
    BY ScoredAssumption
  <2>3. Finite(r[k]) = [j \in DOMAIN InOrder(S) |-> r[k][InOrder(S)[j]]]
    BY <2>1 DEF Finite
  <2>4. S = {} <=> ~ \E i \in 1 .. ImageCount : r[k][i] # Null
    OBVIOUS
  <2> HIDE DEF S
  <2>5. InOrder(S) \in [1 .. Cardinality(S) -> S]
    BY <2>2, InOrderIs
  <2>6. IsFiniteSet(S) /\ Cardinality(S) \in Nat
    BY <2>2, CountsAre
  <2>7. Cardinality(S) = 0 <=> S = {}
    BY <2>6, FS_EmptySet
  <2> DEFINE F == [j \in 1 .. Cardinality(S) |-> r[k][InOrder(S)[j]]]
             V == {r[k][InOrder(S)[j]] : j \in 1 .. Cardinality(S)}
  <2>8. F \in [1 .. Cardinality(S) -> V]
    OBVIOUS
  <2>9. Finite(r[k]) = F
    BY <2>3, <2>5
  <2> HIDE DEF F, V
  <2>10. F = <<>> <=> Cardinality(S) = 0
    BY <2>6, <2>8, EmptyIs
  <2> QED
    BY <2>4, <2>7, <2>9, <2>10
<1> QED
  BY <1>1 DEF PerImageOf

\* What is left out of a committed row had no pair.
LEMMA PairedIs ==
  ASSUME NEW r \in ScoredRow, NEW b \in ScoredRow, NEW key \in PairedMetrics
  PROVE  /\ Paired(r, b, key) = PairedDeltas(r[key], b[key])
         /\ Paired(PerImageOf(r), PerImageOf(b), key) = PairedDeltas(r[key], b[key])
<1>1. key \in Series /\ r[key] \in Scores /\ b[key] \in Scores /\ DOMAIN r = Series /\ DOMAIN b = Series
  BY MetricsAreSeries, SeriesOf
<1>2. Paired(r, b, key) = PairedDeltas(r[key], b[key])
  BY <1>1 DEF Paired
<1>3. CASE key \in DOMAIN PerImageOf(r) /\ key \in DOMAIN PerImageOf(b)
  <2>1. PerImageOf(r)[key] = r[key] /\ PerImageOf(b)[key] = b[key]
    BY <1>3, CommittedRow
  <2> QED
    BY <1>2, <1>3, <2>1 DEF Paired
<1>4. CASE ~ (key \in DOMAIN PerImageOf(r) /\ key \in DOMAIN PerImageOf(b))
  <2>0. /\ key \in DOMAIN PerImageOf(r) <=> \E i \in 1 .. ImageCount : r[key][i] # Null
        /\ key \in DOMAIN PerImageOf(b) <=> \E i \in 1 .. ImageCount : b[key][i] # Null
    <3>1. /\ DOMAIN PerImageOf(r) = {k \in Series : \E i \in 1 .. ImageCount : r[k][i] # Null}
          /\ DOMAIN PerImageOf(b) = {k \in Series : \E i \in 1 .. ImageCount : b[k][i] # Null}
      BY CommittedRow
    <3> QED
      BY ONLY <1>1, <3>1
  <2>1. Both(r[key], b[key]) = {}
    BY <1>4, <2>0 DEF Both
  <2>2. PairCount(r[key], b[key]) = 0
    BY <2>1, FS_EmptySet DEF PairCount
  <2>3. PairedDeltas(r[key], b[key]) = [deltas |-> <<>>, baseValues |-> <<>>]
    BY <1>1, <2>2, DeltasAre
  <2>4. Paired(PerImageOf(r), PerImageOf(b), key) = [deltas |-> <<>>, baseValues |-> <<>>]
    BY <1>4 DEF Paired
  <2> QED
    BY <1>2, <2>3, <2>4
<1> QED
  BY <1>2, <1>3, <1>4

-----------------------------------------------------------------------------
(* Arms *)

Pair(found, i, key) == Paired(found[i], found[1], key)

\* compareArms has an entry for every row but the first, with the metrics that have pairs.
LEMMA ArmsAre ==
  ASSUME NEW n \in Nat \ {0}, NEW found, DOMAIN found = 1 .. n, NEW i \in 1 .. n - 1
  PROVE  LET arms == CompareArms(found, 1) IN
         /\ Len(arms) = n - 1 /\ DOMAIN arms = 1 .. n - 1
         /\ DOMAIN arms[i] = {m \in PairedMetrics : Pair(found, i + 1, m).deltas # <<>>}
         /\ \A key \in DOMAIN arms[i] :
              /\ arms[i][key].pairs = Len(Pair(found, i + 1, key).deltas)
              /\ arms[i][key].baseSum = Sum(Pair(found, i + 1, key).baseValues)
              /\ arms[i][key].ci = BootstrapCI(Pair(found, i + 1, key).deltas, BootstrapSeed)
              /\ arms[i][key].p = BootstrapP(Pair(found, i + 1, key).deltas, PResamples, BootstrapSeed)
              /\ arms[i][key].pHolm = Adjusted(found, 1, key, i + 1)
<1> DEFINE others == OtherRows(found, 1)
           arm(j) ==
             [key \in {m \in PairedMetrics : Paired(found[others[j]], found[1], m).deltas # <<>>} |->
               LET diffs == Paired(found[others[j]], found[1], key) IN
               [pairs    |-> Len(diffs.deltas),
                baseSum  |-> Sum(diffs.baseValues),
                deltaSum |-> Sum(diffs.deltas),
                ci       |-> BootstrapCI(diffs.deltas, BootstrapSeed),
                p        |-> BootstrapP(diffs.deltas, PResamples, BootstrapSeed),
                pHolm    |-> Adjusted(found, 1, key, others[j])]]
           V == {arm(j) : j \in 1 .. n - 1}
<1>1. Len(others) = n - 1 /\ others[i] = i + 1
  BY OthersAre DEF OtherRows
<1>2. CompareArms(found, 1) = [j \in 1 .. n - 1 |-> arm(j)]
  BY <1>1 DEF CompareArms
<1>3. CompareArms(found, 1) \in [1 .. n - 1 -> V]
  BY <1>2
<1>4. n - 1 \in Nat
  OBVIOUS
<1> HIDE DEF V
<1>5. Len(CompareArms(found, 1)) = n - 1 /\ DOMAIN CompareArms(found, 1) = 1 .. n - 1
  BY <1>3, <1>4, ListedIs
<1>6. CompareArms(found, 1)[i] = arm(i)
  BY <1>2
<1>7. arm(i) =
        [key \in {m \in PairedMetrics : Pair(found, i + 1, m).deltas # <<>>} |->
               LET diffs == Pair(found, i + 1, key) IN
               [pairs    |-> Len(diffs.deltas),
                baseSum  |-> Sum(diffs.baseValues),
                deltaSum |-> Sum(diffs.deltas),
                ci       |-> BootstrapCI(diffs.deltas, BootstrapSeed),
                p        |-> BootstrapP(diffs.deltas, PResamples, BootstrapSeed),
                pHolm    |-> Adjusted(found, 1, key, i + 1)]]
  BY <1>1 DEF Pair
<1> HIDE DEF arm, others
<1> QED
  BY <1>5, <1>6, <1>7

-----------------------------------------------------------------------------
(* GuardVerdicts *)

GuardVerdicts == {"ok", "FAIL", "inconclusive"}

\* v is no better than w.
NoBetter(v, w) == v \in GuardVerdicts /\ w \in GuardVerdicts /\ (v = "FAIL" \/ w = "ok" \/ v = w)

LEMMA RankIs ==
  ASSUME NEW v, NEW w, NoBetter(v, w)
  PROVE  Rank(v) <= Rank(w)
<1>1. Rank("FAIL") = 0 /\ Rank("inconclusive") = 1 /\ Rank("ok") = 2
  BY DEF Rank
<1>2. Rank(v) \in 0 .. 2 /\ Rank(w) \in 0 .. 2
  BY <1>1 DEF NoBetter, GuardVerdicts
<1>3. CASE v = "FAIL"
  BY <1>1, <1>2, <1>3
<1>4. CASE w = "ok"
  BY <1>1, <1>2, <1>4
<1>5. CASE v = w
  BY <1>2, <1>5
<1> QED
  BY <1>3, <1>4, <1>5 DEF NoBetter

LEMMA VerdictOrder ==
  ASSUME NEW a \in BOOLEAN, NEW b \in BOOLEAN, NEW c \in BOOLEAN, NEW d \in BOOLEAN, a => c, d => b
  PROVE  NoBetter(Verdict(a, b), Verdict(c, d))
BY DEF Verdict, NoBetter, GuardVerdicts

\* The guards' metrics; an artifact's is one where a rise is declared.
Guarding == {"ssimulacra2", "butteraugli", "dssim", "ringing", "spurious"}
Judges(key, artifactRise) == key \in {"ringing", "spurious"} => artifactRise # Null

VerdictOf(stat, key, artifactRise) ==
  IF key = "ssimulacra2" THEN DropVerdict(stat)
  ELSE IF key \in {"butteraugli", "dssim"} THEN RiseVerdict(stat, Rise)
  ELSE RiseVerdict(stat, artifactRise)

VerdictsOf(stats, artifactRise) ==
  {DropVerdict(stats[key]) : key \in {"ssimulacra2"} \cap DOMAIN stats}
    \cup {RiseVerdict(stats[key], Rise) : key \in {"butteraugli", "dssim"} \cap DOMAIN stats}
    \cup (IF artifactRise = Null THEN {}
          ELSE {RiseVerdict(stats[key], artifactRise) :
                  key \in {"ringing", "spurious"} \cap DOMAIN stats})

LEMMA VerdictsAre ==
  ASSUME NEW stats, NEW artifactRise, NEW v
  PROVE  v \in VerdictsOf(stats, artifactRise) <=>
           \E key \in Guarding : /\ key \in DOMAIN stats /\ Judges(key, artifactRise)
                                 /\ v = VerdictOf(stats[key], key, artifactRise)
<1> DEFINE D == {DropVerdict(stats[key]) : key \in {"ssimulacra2"} \cap DOMAIN stats}
           R == {RiseVerdict(stats[key], Rise) : key \in {"butteraugli", "dssim"} \cap DOMAIN stats}
           A == {RiseVerdict(stats[key], artifactRise) : key \in {"ringing", "spurious"} \cap DOMAIN stats}
           Of(key) == /\ key \in DOMAIN stats /\ Judges(key, artifactRise)
                      /\ v = VerdictOf(stats[key], key, artifactRise)
<1>1. v \in D <=> Of("ssimulacra2")
  BY DEF Judges, VerdictOf
<1>2. v \in R <=> Of("butteraugli") \/ Of("dssim")
  BY DEF Judges, VerdictOf
<1>3. v \in (IF artifactRise = Null THEN {} ELSE A) <=> Of("ringing") \/ Of("spurious")
  BY DEF Judges, VerdictOf
<1>4. VerdictsOf(stats, artifactRise) = D \cup R \cup (IF artifactRise = Null THEN {} ELSE A)
  BY DEF VerdictsOf
<1>5. (\E key \in Guarding : Of(key)) <=>
        Of("ssimulacra2") \/ Of("butteraugli") \/ Of("dssim") \/ Of("ringing") \/ Of("spurious")
  BY DEF Guarding
<1> HIDE DEF D, R, A
<1>6. v \in VerdictsOf(stats, artifactRise) <=>
        v \in D \/ v \in R \/ v \in (IF artifactRise = Null THEN {} ELSE A)
  BY <1>4
<1> HIDE DEF Of
<1>7. v \in VerdictsOf(stats, artifactRise) <=> \E key \in Guarding : Of(key)
  BY <1>1, <1>2, <1>3, <1>5, <1>6
<1> QED
  BY <1>7 DEF Of

LEMMA GuardOrder ==
  ASSUME NEW s, NEW t, NEW artifactRise,
         \A key \in Guarding :
           /\ key \in DOMAIN s <=> key \in DOMAIN t
           /\ key \in DOMAIN s /\ Judges(key, artifactRise) =>
                NoBetter(VerdictOf(s[key], key, artifactRise), VerdictOf(t[key], key, artifactRise))
  PROVE  NoBetter(GuardVerdict(s, artifactRise), GuardVerdict(t, artifactRise))
<1> DEFINE S == VerdictsOf(s, artifactRise)
           T == VerdictsOf(t, artifactRise)
<1>1. /\ GuardVerdict(s, artifactRise) =
           IF "FAIL" \in S THEN "FAIL" ELSE IF "inconclusive" \in S THEN "inconclusive" ELSE "ok"
      /\ GuardVerdict(t, artifactRise) =
           IF "FAIL" \in T THEN "FAIL" ELSE IF "inconclusive" \in T THEN "inconclusive" ELSE "ok"
  BY DEF GuardVerdict, VerdictsOf
<1>2. ASSUME NEW w \in T PROVE \E v \in S : NoBetter(v, w)
  <2>1. PICK key \in Guarding : /\ key \in DOMAIN t /\ Judges(key, artifactRise)
                                /\ w = VerdictOf(t[key], key, artifactRise)
    BY VerdictsAre
  <2>2. /\ key \in DOMAIN s
        /\ NoBetter(VerdictOf(s[key], key, artifactRise), w)
    BY <2>1
  <2>3. VerdictOf(s[key], key, artifactRise) \in S
    BY <2>1, <2>2, VerdictsAre
  <2> QED
    BY <2>2, <2>3
<1> HIDE DEF S, T
<1>3. "FAIL" \in T => "FAIL" \in S
  BY <1>2 DEF NoBetter, GuardVerdicts
<1>4. "inconclusive" \in T => "FAIL" \in S \/ "inconclusive" \in S
  BY <1>2 DEF NoBetter, GuardVerdicts
<1> QED
  BY <1>1, <1>3, <1>4 DEF NoBetter, GuardVerdicts

-----------------------------------------------------------------------------
LEMMA RiseOrder ==
  ASSUME NEW s, NEW t, NEW rise \in Int, NEW m \in Nat,
         s.pairs = m, t.pairs = m, s.baseSum \in Int, t.baseSum = s.baseSum,
         \A e \in {1, 2} : s.ci[e] \in Int /\ t.ci[e] \in Int /\ t.ci[e] <= s.ci[e]
  PROVE  NoBetter(RiseVerdict(s, rise), RiseVerdict(t, rise))
<1> DEFINE margin == IF s.baseSum = 0 THEN Allowance * m * Cut * RiseParts ELSE rise * s.baseSum * Cut
<1>1. Cut \in Nat /\ RiseParts \in Nat /\ Allowance \in Nat
  BY DrawsAssumption, TolerancesAssumption
<1>2. margin \in Int
  <2>1. Allowance * m * Cut * RiseParts \in Int
    BY <1>1
  <2>2. rise * s.baseSum * Cut \in Int
    BY <1>1
  <2> QED
    BY <2>1, <2>2
<1>3. ASSUME NEW e \in {1, 2}
      PROVE  /\ t.ci[e] * RiseParts <= s.ci[e] * RiseParts
             /\ t.ci[e] * RiseParts \in Int /\ s.ci[e] * RiseParts \in Int
  <2> DEFINE x == t.ci[e]
             y == s.ci[e]
  <2>1. x \in Int /\ y \in Int /\ x <= y
    BY <1>3
  <2> HIDE DEF x, y
  <2>2. RiseParts * x \in Int /\ RiseParts * y \in Int /\ RiseParts * x <= RiseParts * y
    BY <1>1, <2>1, ScaledOrder
  <2>3. RiseParts * x = x * RiseParts /\ RiseParts * y = y * RiseParts
    BY <1>1, <2>1
  <2> QED
    BY <2>2, <2>3 DEF x, y
<1> DEFINE sw == s.ci[2] * RiseParts <= margin
           sb == s.ci[1] * RiseParts > margin
           tw == t.ci[2] * RiseParts <= margin
           tb == t.ci[1] * RiseParts > margin
<1>4. RiseVerdict(s, rise) = Verdict(sw, sb) /\ RiseVerdict(t, rise) = Verdict(tw, tb)
  BY DEF RiseVerdict
<1> HIDE DEF margin
<1>5. (sw => tw) /\ (tb => sb)
  BY <1>2, <1>3
<1>6. sw \in BOOLEAN /\ sb \in BOOLEAN /\ tw \in BOOLEAN /\ tb \in BOOLEAN
  OBVIOUS
<1> HIDE DEF sw, sb, tw, tb
<1> QED
  BY <1>4, <1>5, <1>6, VerdictOrder

LEMMA DropOrder ==
  ASSUME NEW s, NEW t, NEW m \in Nat, s.pairs = m, t.pairs = m,
         \A e \in {1, 2} : s.ci[e] \in Int /\ t.ci[e] \in Int /\ s.ci[e] <= t.ci[e]
  PROVE  NoBetter(DropVerdict(s), DropVerdict(t))
<1> DEFINE floor == 0 - Drop * Cut * m
           sw == s.ci[1] >= floor
           sb == s.ci[2] < floor
           tw == t.ci[1] >= floor
           tb == t.ci[2] < floor
<1>1. floor \in Int
  <2>1. Cut \in Nat /\ Drop \in Nat
    BY DrawsAssumption, TolerancesAssumption
  <2>2. Drop * Cut * m \in Int
    BY <2>1
  <2> QED
    BY <2>2
<1>2. DropVerdict(s) = Verdict(sw, sb) /\ DropVerdict(t) = Verdict(tw, tb)
  BY DEF DropVerdict
<1> HIDE DEF floor
<1>3. (sw => tw) /\ (tb => sb)
  BY <1>1
<1>4. sw \in BOOLEAN /\ sb \in BOOLEAN /\ tw \in BOOLEAN /\ tb \in BOOLEAN
  OBVIOUS
<1> HIDE DEF sw, sb, tw, tb
<1> QED
  BY <1>2, <1>3, <1>4, VerdictOrder

-----------------------------------------------------------------------------
(* Dominance *)

\* The same images are scored, and no score is more.
Lower(low, high) ==
  \A n \in 1 .. ImageCount :
    /\ (low[n] = Null) = (high[n] = Null)
    /\ low[n] # Null => low[n] <= high[n]

LEMMA LowerPairs ==
  ASSUME NEW low \in Scores, NEW high \in Scores, NEW base \in Scores, Lower(low, high)
  PROVE  /\ PairCount(low, base) = PairCount(high, base)
         /\ PairedDeltas(low, base).baseValues = PairedDeltas(high, base).baseValues
         /\ \A k \in 1 .. PairCount(low, base) :
              PairedDeltas(low, base).deltas[k] <= PairedDeltas(high, base).deltas[k]
<1>1. Both(low, base) = Both(high, base)
  BY DEF Both, Lower
<1> DEFINE m == PairCount(low, base)
           place == InOrder(Both(low, base))
<1>2. m = PairCount(high, base) /\ place = InOrder(Both(high, base))
  BY <1>1 DEF PairCount
<1>3. /\ place \in [1 .. m -> Both(low, base)]
      /\ PairedDeltas(low, base).baseValues = [k \in 1 .. m |-> base[place[k]]]
      /\ \A k \in 1 .. m : PairedDeltas(low, base).deltas[k] = low[place[k]] - base[place[k]]
  BY DeltasAre
<1>4. /\ PairedDeltas(high, base).baseValues = [k \in 1 .. m |-> base[place[k]]]
      /\ \A k \in 1 .. m : PairedDeltas(high, base).deltas[k] = high[place[k]] - base[place[k]]
  BY <1>2, DeltasAre
<1> HIDE DEF m, place
<1>5. ASSUME NEW k \in 1 .. m
      PROVE  PairedDeltas(low, base).deltas[k] <= PairedDeltas(high, base).deltas[k]
  <2> DEFINE i == place[k]
  <2>1. i \in Both(low, base) /\ i \in Both(high, base)
    BY <1>1, <1>3
  <2>2. low[i] \in Int /\ high[i] \in Int /\ base[i] \in Int
    BY <2>1, BothIs
  <2>3. i \in 1 .. ImageCount /\ low[i] # Null
    BY <2>1 DEF Both
  <2>4. low[i] <= high[i]
    BY <2>3 DEF Lower
  <2> HIDE DEF i
  <2>5. low[i] - base[i] <= high[i] - base[i]
    BY <2>2, <2>4
  <2> QED
    BY <1>3, <1>4, <2>5 DEF i
<1> QED
  BY <1>2, <1>3, <1>4, <1>5 DEF m

\* What compareArms finds of a metric of two arms, one of which is lower.
LEMMA LowerStats ==
  ASSUME NEW low \in Scores, NEW high \in Scores, NEW base \in Scores, Lower(low, high)
  PROVE  LET one == PairedDeltas(low, base)
             two == PairedDeltas(high, base) IN
         /\ one.deltas = <<>> <=> two.deltas = <<>>
         /\ Len(one.deltas) \in Nat /\ Len(two.deltas) = Len(one.deltas)
         /\ Sum(one.baseValues) \in Int /\ Sum(two.baseValues) = Sum(one.baseValues)
         /\ one.deltas # <<>> =>
              \A e \in {1, 2} : /\ BootstrapCI(one.deltas, BootstrapSeed)[e] \in Int
                                /\ BootstrapCI(two.deltas, BootstrapSeed)[e] \in Int
                                /\ BootstrapCI(one.deltas, BootstrapSeed)[e]
                                     <= BootstrapCI(two.deltas, BootstrapSeed)[e]
<1> DEFINE one == PairedDeltas(low, base)
           two == PairedDeltas(high, base)
           m == PairCount(low, base)
<1>1. /\ m = PairCount(high, base) /\ one.baseValues = two.baseValues
      /\ \A k \in 1 .. m : one.deltas[k] <= two.deltas[k]
  BY LowerPairs
<1>2. /\ m \in 0 .. ImageCount /\ one.deltas \in [1 .. m -> Int] /\ Len(one.deltas) = m
      /\ one.baseValues \in [1 .. m -> Int] /\ (one.deltas = <<>> <=> m = 0)
  BY DeltasAre
<1>3. two.deltas \in [1 .. m -> Int] /\ Len(two.deltas) = m /\ (two.deltas = <<>> <=> m = 0)
  BY <1>1, DeltasAre
<1> HIDE DEF m, one, two
<1>4. m \in Nat /\ (m # 0 => m \in 1 .. ImageCount) /\ BootstrapSeed \in Seeds
  BY <1>2, ScoredAssumption, DrawsAssumption
<1>5. Sum(one.baseValues) \in Int
  BY <1>2, <1>4, SumType
<1>6. m # 0 =>
        \A e \in {1, 2} : /\ BootstrapCI(one.deltas, BootstrapSeed)[e] \in Int
                          /\ BootstrapCI(two.deltas, BootstrapSeed)[e] \in Int
                          /\ BootstrapCI(one.deltas, BootstrapSeed)[e]
                               <= BootstrapCI(two.deltas, BootstrapSeed)[e]
  BY <1>1, <1>2, <1>3, <1>4, BootstrapMonotone
<1> QED
  BY <1>1, <1>2, <1>3, <1>4, <1>5, <1>6 DEF one, two

\* How the two rows lie to each other, on a metric of the guards.
Worse(a, b, key) == IF key = "ssimulacra2" THEN Lower(a[key], b[key]) ELSE Lower(b[key], a[key])

LEMMA WorseVerdict ==
  ASSUME NEW n \in Nat \ {0}, NEW found, DOMAIN found = 1 .. n,
         NEW row \in [1 .. n -> ScoredRow], \A i \in 1 .. n : found[i] = PerImageOf(row[i]),
         NEW a \in 2 .. n, NEW b \in 2 .. n, NEW rise \in Int \cup {Null},
         \A key \in Guarding : Worse(row[a], row[b], key)
  PROVE  NoBetter(GuardVerdict(CompareArms(found, 1)[a - 1], rise),
                  GuardVerdict(CompareArms(found, 1)[b - 1], rise))
<1> DEFINE s == CompareArms(found, 1)[a - 1]
           t == CompareArms(found, 1)[b - 1]
           P(key) == PairedDeltas(row[a][key], row[1][key])
           Q(key) == PairedDeltas(row[b][key], row[1][key])
<1>1. Guarding \in SUBSET PairedMetrics
  BY DEF Guarding, PairedMetrics
<1>2. a - 1 \in 1 .. n - 1 /\ b - 1 \in 1 .. n - 1 /\ (a - 1) + 1 = a /\ (b - 1) + 1 = b
      /\ a \in 1 .. n /\ b \in 1 .. n /\ 1 \in 1 .. n
  OBVIOUS
<1>3. ASSUME NEW key \in PairedMetrics
      PROVE  Pair(found, a, key) = P(key) /\ Pair(found, b, key) = Q(key)
  BY <1>2, PairedIs DEF Pair
<1> HIDE DEF P, Q
<1>4. /\ DOMAIN s = {m \in PairedMetrics : Pair(found, a, m).deltas # <<>>}
      /\ \A key \in DOMAIN s :
           /\ s[key].pairs = Len(Pair(found, a, key).deltas)
           /\ s[key].baseSum = Sum(Pair(found, a, key).baseValues)
           /\ s[key].ci = BootstrapCI(Pair(found, a, key).deltas, BootstrapSeed)
  BY <1>2, ArmsAre
<1>5. /\ DOMAIN t = {m \in PairedMetrics : Pair(found, b, m).deltas # <<>>}
      /\ \A key \in DOMAIN t :
           /\ t[key].pairs = Len(Pair(found, b, key).deltas)
           /\ t[key].baseSum = Sum(Pair(found, b, key).baseValues)
           /\ t[key].ci = BootstrapCI(Pair(found, b, key).deltas, BootstrapSeed)
  BY <1>2, ArmsAre
<1> HIDE DEF s, t
<1>6. ASSUME NEW key \in Guarding
      PROVE  /\ key \in DOMAIN s <=> key \in DOMAIN t
             /\ key \in DOMAIN s /\ Judges(key, rise) =>
                  NoBetter(VerdictOf(s[key], key, rise), VerdictOf(t[key], key, rise))
  <2>1. /\ row[a][key] \in Scores /\ row[b][key] \in Scores /\ row[1][key] \in Scores
        /\ key \in PairedMetrics
    BY <1>1, <1>2, SeriesOf, MetricsAreSeries
  <2>2. /\ key \in DOMAIN s <=> P(key).deltas # <<>>
        /\ key \in DOMAIN t <=> Q(key).deltas # <<>>
        /\ key \in DOMAIN s => /\ s[key].pairs = Len(P(key).deltas)
                               /\ s[key].baseSum = Sum(P(key).baseValues)
                               /\ s[key].ci = BootstrapCI(P(key).deltas, BootstrapSeed)
        /\ key \in DOMAIN t => /\ t[key].pairs = Len(Q(key).deltas)
                               /\ t[key].baseSum = Sum(Q(key).baseValues)
                               /\ t[key].ci = BootstrapCI(Q(key).deltas, BootstrapSeed)
    BY <1>3, <1>4, <1>5, <2>1
  <2>3. CASE key = "ssimulacra2"
    <3>1. Lower(row[a][key], row[b][key])
      BY <2>3 DEF Worse
    <3>2. /\ P(key).deltas = <<>> <=> Q(key).deltas = <<>>
          /\ Len(P(key).deltas) \in Nat /\ Len(Q(key).deltas) = Len(P(key).deltas)
          /\ P(key).deltas # <<>> =>
               \A e \in {1, 2} : /\ BootstrapCI(P(key).deltas, BootstrapSeed)[e] \in Int
                                 /\ BootstrapCI(Q(key).deltas, BootstrapSeed)[e] \in Int
                                 /\ BootstrapCI(P(key).deltas, BootstrapSeed)[e]
                                      <= BootstrapCI(Q(key).deltas, BootstrapSeed)[e]
      BY <2>1, <3>1, LowerStats DEF P, Q
    <3>3. ASSUME key \in DOMAIN s PROVE NoBetter(DropVerdict(s[key]), DropVerdict(t[key]))
      BY <2>2, <3>2, <3>3, DropOrder
    <3> QED
      BY <2>2, <2>3, <3>2, <3>3 DEF VerdictOf
  <2>4. CASE key # "ssimulacra2"
    <3>1. Lower(row[b][key], row[a][key])
      BY <2>4 DEF Worse
    <3>2. /\ P(key).deltas = <<>> <=> Q(key).deltas = <<>>
          /\ Len(Q(key).deltas) \in Nat /\ Len(P(key).deltas) = Len(Q(key).deltas)
          /\ Sum(Q(key).baseValues) \in Int /\ Sum(P(key).baseValues) = Sum(Q(key).baseValues)
          /\ Q(key).deltas # <<>> =>
               \A e \in {1, 2} : /\ BootstrapCI(Q(key).deltas, BootstrapSeed)[e] \in Int
                                 /\ BootstrapCI(P(key).deltas, BootstrapSeed)[e] \in Int
                                 /\ BootstrapCI(Q(key).deltas, BootstrapSeed)[e]
                                      <= BootstrapCI(P(key).deltas, BootstrapSeed)[e]
      BY <2>1, <3>1, LowerStats DEF P, Q
    <3>3. ASSUME key \in DOMAIN s, NEW r \in Int
          PROVE  NoBetter(RiseVerdict(s[key], r), RiseVerdict(t[key], r))
      BY <2>2, <3>2, <3>3, RiseOrder
    <3>4. Rise \in Int
      BY TolerancesAssumption
    <3>5. CASE key \in {"butteraugli", "dssim"}
      BY <2>2, <2>4, <3>2, <3>3, <3>4, <3>5 DEF VerdictOf
    <3>6. CASE key \in {"ringing", "spurious"}
      <4>1. Judges(key, rise) => rise \in Int
        BY <3>6 DEF Judges
      <4> QED
        BY <2>2, <3>2, <3>3, <3>6, <4>1 DEF VerdictOf
    <3> QED
      BY <2>4, <3>5, <3>6 DEF Guarding
  <2> QED
    BY <2>3, <2>4
<1>7. NoBetter(GuardVerdict(s, rise), GuardVerdict(t, rise))
  BY <1>6, GuardOrder
<1> QED
  BY <1>7 DEF s, t

-----------------------------------------------------------------------------
(* The sweep *)

Stages == {"config", "score", "judge", "write", "read", "done", "refused", "malformed"}

SweepTyped == phase \in Stages /\ config \in Configs /\ rows \in Seq(ScoredRow)
RowsCounted ==
  /\ phase \in {"config", "score"} => Len(rows) < Variants
  /\ phase \in {"judge", "write", "read", "done"} => Len(rows) = Variants
TableIs == phase \in {"write", "read", "done"} => table = ApplyGuards
FileIs == phase \in {"read", "done"} => file = PerImages
ViewIs == phase = "done" => ~ Malformed /\ view = Derived

SweepInv == SweepTyped /\ RowsCounted /\ TableIs /\ FileIs /\ ViewIs

LEMMA SweepInit == AnalysisInit => SweepInv
<1> SUFFICES ASSUME AnalysisInit PROVE SweepInv
  OBVIOUS
<1>1. phase = "config" /\ config \in Configs /\ rows = <<>> /\ Variants \in Nat \ {0}
  BY ScoredAssumption DEF AnalysisInit
<1>2. SweepTyped
  BY <1>1, EmptySeq DEF SweepTyped, Stages
<1>3. RowsCounted
  BY <1>1, EmptySeq DEF RowsCounted
<1> QED
  BY <1>1, <1>2, <1>3 DEF SweepInv, TableIs, FileIs, ViewIs

LEMMA SweepStep == SweepInv /\ [AnalysisNext]_analysisVars => SweepInv'
<1> SUFFICES ASSUME SweepInv, [AnalysisNext]_analysisVars PROVE SweepInv'
  OBVIOUS
<1> USE DEF SweepInv
<1>1. CASE CheckConfig
  <2>1. /\ phase = "config" /\ phase' \in {"refused", "score"}
        /\ UNCHANGED <<config, rows, table, file, view>>
    BY <1>1 DEF CheckConfig
  <2>2. SweepTyped' /\ RowsCounted'
    BY <2>1 DEF SweepTyped, RowsCounted, Stages
  <2> QED
    BY <2>1, <2>2 DEF TableIs, FileIs, ViewIs
<1>2. CASE ScoreVariant
  <2>1. phase = "score" /\ UNCHANGED <<config, table, file, view>>
    BY <1>2 DEF ScoreVariant
  <2>2. PICK row \in Scored :
          rows' = Append(rows, [key \in Series |->
                    IF key \in Artifacts /\ ~config.artifacts THEN Unscored ELSE row[key]])
    BY <1>2 DEF ScoreVariant
  <2>3. phase' = IF Len(rows') = Variants THEN "judge" ELSE "score"
    BY <1>2 DEF ScoreVariant
  <2> DEFINE r == [key \in Series |-> IF key \in Artifacts /\ ~config.artifacts THEN Unscored ELSE row[key]]
  <2>4. r \in ScoredRow
    <3>1. row \in ScoredRow
      BY ScoredAssumption
    <3>2. Unscored \in [1 .. ImageCount -> Int \cup {Null}]
      BY DEF Unscored
    <3> QED
      BY <3>1, <3>2 DEF ScoredRow
  <2>5. rows' = Append(rows, r)
    BY <2>2
  <2> HIDE DEF r
  <2>6. rows \in Seq(ScoredRow) /\ Len(rows) \in Nat /\ Len(rows) < Variants /\ Variants \in Nat
    BY <2>1, ScoredAssumption DEF SweepTyped, RowsCounted
  <2>7. rows' \in Seq(ScoredRow) /\ Len(rows') = Len(rows) + 1
    BY <2>4, <2>5, <2>6
  <2>8. SweepTyped'
    BY <2>1, <2>3, <2>7 DEF SweepTyped, Stages
  <2>9. RowsCounted'
    BY <2>3, <2>6, <2>7 DEF RowsCounted
  <2> QED
    BY <2>3, <2>8, <2>9 DEF TableIs, FileIs, ViewIs
<1>3. CASE Judge
  <2>1. phase = "judge" /\ UNCHANGED <<config, rows, file, view>>
    BY <1>3 DEF Judge
  <2>2. (phase' = "refused" /\ table' = table) \/ (phase' = "write" /\ table' = ApplyGuards)
    BY <1>3 DEF Judge
  <2>3. SweepTyped' /\ RowsCounted'
    BY <2>1, <2>2 DEF SweepTyped, RowsCounted, Stages
  <2>4. TableIs'
    <3>1. ApplyGuards' = ApplyGuards
      BY <2>1 DEF ApplyGuards, PerImages
    <3> QED
      BY <2>2, <3>1 DEF TableIs
  <2> QED
    BY <2>2, <2>3, <2>4 DEF FileIs, ViewIs
<1>4. CASE WriteResult
  <2>1. phase = "write" /\ phase' = "read" /\ file' = PerImages /\ UNCHANGED <<config, rows, table, view>>
    BY <1>4 DEF WriteResult
  <2>2. SweepTyped' /\ RowsCounted'
    BY <2>1 DEF SweepTyped, RowsCounted, Stages
  <2>3. ApplyGuards' = ApplyGuards /\ PerImages' = PerImages
    BY <2>1 DEF ApplyGuards, PerImages
  <2>4. TableIs'
    BY <2>1, <2>3 DEF TableIs
  <2> QED
    BY <2>1, <2>2, <2>3, <2>4 DEF FileIs, ViewIs
<1>5. CASE Read
  <2>1. /\ phase = "read" /\ phase' = (IF Malformed THEN "malformed" ELSE "done")
        /\ view' = (IF Malformed THEN <<>> ELSE Derived) /\ UNCHANGED <<config, rows, table, file>>
    BY <1>5 DEF Read
  <2>2. SweepTyped' /\ RowsCounted'
    BY <2>1 DEF SweepTyped, RowsCounted, Stages
  <2>3. ApplyGuards' = ApplyGuards /\ PerImages' = PerImages /\ Derived' = Derived /\ Malformed' = Malformed
    BY <2>1 DEF ApplyGuards, PerImages, Derived, Malformed
  <2>4. TableIs' /\ FileIs' /\ ViewIs'
    BY <2>1, <2>3 DEF TableIs, FileIs, ViewIs
  <2> QED
    BY <2>2, <2>4
<1>6. CASE UNCHANGED analysisVars
  <2>1. UNCHANGED <<phase, config, rows, table, file, view>>
    BY <1>6 DEF analysisVars
  <2>2. ApplyGuards' = ApplyGuards /\ PerImages' = PerImages /\ Derived' = Derived /\ Malformed' = Malformed
    BY <2>1 DEF ApplyGuards, PerImages, Derived, Malformed
  <2> QED
    BY <2>1, <2>2 DEF SweepTyped, RowsCounted, TableIs, FileIs, ViewIs
<1>7. CASE Finished
  BY <1>6, <1>7 DEF Finished
<1> QED
  BY <1>1, <1>2, <1>3, <1>4, <1>5, <1>6, <1>7 DEF AnalysisNext

\* At every moment of a sweep its rows are rows of scores, as many as it has got to,
\* and the table it prints, the file it commits and what is read of that file are
\* functions of those rows (sweep.ts, results.ts).
THEOREM SweepsKeepTables == AnalysisSpec => []SweepInv
<1> QED
  BY SweepInit, SweepStep, PTL DEF AnalysisSpec

\* A row has the edge of a grid on the images that it has a spectral score for.
GridsRecorded ==
  \A i \in DOMAIN rows : \A n \in 1 .. ImageCount :
    (rows[i]["spurious"][n] = Null) <=> (rows[i]["spuriousGrid"][n] = Null)
GridInv == SweepInv /\ GridsRecorded

LEMMA GridInit == AnalysisInit => GridInv
<1> SUFFICES ASSUME AnalysisInit PROVE GridInv
  OBVIOUS
<1>1. rows = <<>>
  BY DEF AnalysisInit
<1> QED
  BY <1>1, SweepInit DEF GridInv, GridsRecorded

LEMMA GridStep == GridInv /\ [AnalysisNext]_analysisVars => GridInv'
<1> SUFFICES ASSUME GridInv, [AnalysisNext]_analysisVars PROVE GridInv'
  OBVIOUS
<1>1. SweepInv' /\ rows \in Seq(ScoredRow)
  BY SweepStep DEF GridInv, SweepInv, SweepTyped
<1>2. CASE ScoreVariant
  <2>1. PICK row \in Scored :
          rows' = Append(rows, [key \in Series |->
                    IF key \in Artifacts /\ ~config.artifacts THEN Unscored ELSE row[key]])
    BY <1>2 DEF ScoreVariant
  <2> DEFINE r == [key \in Series |-> IF key \in Artifacts /\ ~config.artifacts THEN Unscored ELSE row[key]]
  <2>2. ASSUME NEW n \in 1 .. ImageCount
        PROVE  (r["spurious"][n] = Null) <=> (r["spuriousGrid"][n] = Null)
    <3>1. /\ "spurious" \in Series /\ "spuriousGrid" \in Series
          /\ "spurious" \in Artifacts /\ "spuriousGrid" \in Artifacts
      BY DEF Series, PairedMetrics, Artifacts
    <3>2. CASE config.artifacts
      <4>1. r["spurious"] = row["spurious"] /\ r["spuriousGrid"] = row["spuriousGrid"]
        BY <3>1, <3>2
      <4> QED
        BY <4>1, GridsAssumption
    <3>3. CASE ~config.artifacts
      BY <3>1, <3>3 DEF Unscored
    <3> QED
      BY <3>2, <3>3
  <2>3. rows' = Append(rows, r)
    BY <2>1
  <2> HIDE DEF r
  <2>4. /\ DOMAIN rows' = 1 .. Len(rows) + 1 /\ DOMAIN rows = 1 .. Len(rows) /\ Len(rows) \in Nat
        /\ \A i \in 1 .. Len(rows) : rows'[i] = rows[i]
        /\ rows'[Len(rows) + 1] = r
    BY <1>1, <2>3
  <2>5. GridsRecorded'
    <3>1. ASSUME NEW i \in DOMAIN rows', NEW n \in 1 .. ImageCount
          PROVE  (rows'[i]["spurious"][n] = Null) <=> (rows'[i]["spuriousGrid"][n] = Null)
      <4>1. CASE i = Len(rows) + 1
        BY <2>2, <2>4, <4>1
      <4>2. CASE i # Len(rows) + 1
        <5>1. i \in DOMAIN rows /\ rows'[i] = rows[i]
          BY <2>4, <4>2
        <5> QED
          BY <5>1 DEF GridInv, GridsRecorded
      <4> QED
        BY <4>1, <4>2
    <3> QED
      BY <3>1 DEF GridsRecorded
  <2> QED
    BY <1>1, <2>5 DEF GridInv
<1>3. CASE UNCHANGED rows
  BY <1>1, <1>3 DEF GridInv, GridsRecorded
<1>4. ScoreVariant \/ UNCHANGED rows
  BY DEF AnalysisNext, CheckConfig, Judge, WriteResult, Read, Finished, analysisVars
<1> QED
  BY <1>2, <1>3, <1>4

\* Grids that do not disagree are the same wherever both rows have one.
LEMMA AgreeingGrids ==
  ASSUME GridInv, GridDisagreements = {}, rows # <<>>, NEW i \in DOMAIN rows, NEW n \in 1 .. ImageCount,
         rows[1]["spuriousGrid"][n] # Null, rows[i]["spuriousGrid"][n] # Null
  PROVE  rows[1]["spuriousGrid"][n] = rows[i]["spuriousGrid"][n]
<1> DEFINE grid == [j \in DOMAIN rows |-> rows[j]["spuriousGrid"]]
           seen == {grid[j][n] : j \in {k \in DOMAIN rows : grid[k][n] # Null}}
<1>1. rows \in Seq(ScoredRow) /\ Len(rows) \in Nat /\ DOMAIN rows = 1 .. Len(rows) /\ 1 \in DOMAIN rows
  BY DEF GridInv, SweepInv, SweepTyped
<1>2. Finite(grid[1]) # <<>>
  <2>1. rows[1] \in ScoredRow /\ "spuriousGrid" \in Series
    BY <1>1, ElementOfSeq DEF Series
  <2>2. "spuriousGrid" \in DOMAIN PerImageOf(rows[1])
    BY <2>1, CommittedRow
  <2>3. Finite(rows[1]["spuriousGrid"]) # <<>>
    BY <2>2 DEF PerImageOf
  <2> QED
    BY <1>1, <2>3
<1>3. ~(Cardinality(seen) > 1)
  BY <1>2 DEF GridDisagreements
<1>4. grid[1][n] \in seen /\ grid[i][n] \in seen
  BY <1>1
<1>5. IsFiniteSet(seen) /\ Cardinality(seen) \in Nat
  <2>1. 1 \in Int /\ Len(rows) \in Int
    BY <1>1
  <2>2. IsFiniteSet(DOMAIN rows)
    BY <1>1, <2>1, FS_Interval
  <2>3. IsFiniteSet({k \in DOMAIN rows : grid[k][n] # Null})
    BY <2>2, FS_Subset
  <2> DEFINE S == {k \in DOMAIN rows : grid[k][n] # Null}
             f == [k \in S |-> grid[k][n]]
  <2>4. IsFiniteSet(seen)
    <3>1. f \in [S -> seen] /\ \A v \in seen : \E k \in S : f[k] = v
      OBVIOUS
    <3>2. f \in Surjection(S, seen)
      BY <3>1 DEF Surjection
    <3> HIDE DEF f, S, seen
    <3> QED
      BY <2>3, <3>2, FS_Surjection DEF S
  <2> QED
    BY <2>4, FS_CardinalityType
<1>6. grid[1][n] = grid[i][n]
  <2> DEFINE a == grid[1][n]
             b == grid[i][n]
  <2>1. a \in seen /\ b \in seen
    BY <1>4
  <2> HIDE DEF a, b, grid, seen
  <2>2. ASSUME a # b PROVE FALSE
    <3>1. IsFiniteSet({a}) /\ Cardinality({a}) = 1
      BY FS_Singleton
    <3>2. Cardinality({a} \cup {b}) = 1 + 1
      <4>1. b \notin {a}
        BY <2>2
      <4>2. Cardinality({a} \cup {b}) = Cardinality({a}) + 1
        BY ONLY <3>1, <4>1, FS_AddElement, Zenon
      <4> QED
        BY <3>1, <4>2
    <3>3. Cardinality({a} \cup {b}) <= Cardinality(seen)
      BY <1>5, <2>1, FS_Subset
    <3>4. 2 <= Cardinality(seen)
      BY ONLY <1>5, <3>2, <3>3
    <3> QED
      BY ONLY <1>3, <1>5, <3>4
  <2> QED
    BY <2>2 DEF a, b
<1> QED
  BY <1>1, <1>6

\* A table that says that its spectral columns are comparable compares scores that
\* were taken on one grid with the incumbent's: for any arms, images, configs and
\* grids (sweep.ts, gridDisagreements). That no score is without a grid is what makes
\* the comparison of the grids one of the scores, and is kept from row to row.
THEOREM ComparableIsOneGrid == AnalysisSpec => []OneGrid
<1>1. GridInv => OneGrid
  <2>1. ASSUME GridInv, Comparable, NEW i \in DOMAIN rows, NEW n \in 1 .. ImageCount,
               rows[1]["spurious"][n] # Null, rows[i]["spurious"][n] # Null
        PROVE  rows[1]["spuriousGrid"][n] = rows[i]["spuriousGrid"][n]
    <3>1. rows \in Seq(ScoredRow) /\ 1 \in DOMAIN rows
      BY <2>1 DEF GridInv, SweepInv, SweepTyped
    <3>2. rows[1]["spuriousGrid"][n] # Null /\ rows[i]["spuriousGrid"][n] # Null
      BY <2>1, <3>1 DEF GridInv, GridsRecorded
    <3>3. GridDisagreements = {} /\ rows # <<>>
      BY <2>1, <3>1 DEF Comparable
    <3> QED
      BY <2>1, <3>2, <3>3, AgreeingGrids
  <2> QED
    BY <2>1 DEF OneGrid
<1> QED
  BY <1>1, GridInit, GridStep, PTL DEF AnalysisSpec

\* The rows, and what was committed of them, as functions on their places.
LEMMA RowsAre ==
  ASSUME SweepInv, phase \in {"write", "read", "done"}
  PROVE  /\ Len(rows) \in Nat \ {0} /\ rows \in [1 .. Len(rows) -> ScoredRow]
         /\ DOMAIN PerImages = 1 .. Len(rows) /\ Len(PerImages) = Len(rows)
         /\ \A i \in 1 .. Len(rows) : PerImages[i] = PerImageOf(rows[i])
         /\ config.rise \in Int \cup {Null}
<1>1. rows \in Seq(ScoredRow) /\ Len(rows) = Variants /\ Variants \in Nat \ {0}
      /\ config.rise \in Int \cup {Null}
  BY ScoredAssumption DEF SweepInv, SweepTyped, RowsCounted
<1>2. rows \in [1 .. Len(rows) -> ScoredRow]
  BY <1>1
<1>3. PerImages = [i \in 1 .. Len(rows) |-> PerImageOf(rows[i])]
  BY DEF PerImages
<1> DEFINE V == {PerImageOf(rows[i]) : i \in 1 .. Len(rows)}
<1>4. PerImages \in [1 .. Len(rows) -> V]
  BY <1>3
<1> HIDE DEF V
<1>5. Len(PerImages) = Len(rows)
  BY <1>1, <1>4, ListedIs
<1> QED
  BY <1>1, <1>2, <1>3, <1>5

LEMMA DominatedIsWorse ==
  ASSUME NEW a \in 1 .. Len(rows), NEW b \in 1 .. Len(rows), rows \in [1 .. Len(rows) -> ScoredRow],
         Dominated(a, b, "ssimulacra2", -1),
         \A key \in {"butteraugli", "dssim", "ringing", "spurious"} : Dominated(a, b, key, 1)
  PROVE  \A key \in Guarding : Worse(rows[a], rows[b], key)
<1>1. \A key \in Guarding : rows[a][key] \in Scores /\ rows[b][key] \in Scores
  BY SeriesOf DEF Guarding, Series, PairedMetrics
<1>2. Worse(rows[a], rows[b], "ssimulacra2")
  <2> DEFINE x == rows[a]["ssimulacra2"]
             y == rows[b]["ssimulacra2"]
  <2>1. x \in Scores /\ y \in Scores
    BY <1>1 DEF Guarding
  <2>2. \A n \in 1 .. ImageCount :
          /\ (x[n] = Null) = (y[n] = Null)
          /\ x[n] # Null => (-1) * x[n] >= (-1) * y[n]
    BY DEF Dominated
  <2> HIDE DEF x, y
  <2>3. ASSUME NEW n \in 1 .. ImageCount, x[n] # Null PROVE x[n] <= y[n]
    <3>1. y[n] # Null /\ (-1) * x[n] >= (-1) * y[n]
      BY <2>2, <2>3
    <3>2. x[n] \in Int /\ y[n] \in Int
      BY <2>1, <2>3, <3>1 DEF Scores
    <3> QED
      BY <3>1, <3>2
  <2>4. Lower(x, y)
    BY <2>2, <2>3 DEF Lower
  <2> QED
    BY <2>4 DEF Worse, x, y
<1>3. ASSUME NEW key \in {"butteraugli", "dssim", "ringing", "spurious"}
      PROVE  Worse(rows[a], rows[b], key)
  <2> DEFINE x == rows[a][key]
             y == rows[b][key]
  <2>1. x \in Scores /\ y \in Scores /\ key # "ssimulacra2"
    BY <1>1 DEF Guarding
  <2>2. \A n \in 1 .. ImageCount :
          /\ (x[n] = Null) = (y[n] = Null)
          /\ x[n] # Null => 1 * x[n] >= 1 * y[n]
    BY DEF Dominated
  <2> HIDE DEF x, y
  <2>3. ASSUME NEW n \in 1 .. ImageCount, y[n] # Null PROVE y[n] <= x[n]
    <3>1. x[n] # Null /\ 1 * x[n] >= 1 * y[n]
      BY <2>2, <2>3
    <3>2. x[n] \in Int /\ y[n] \in Int
      BY <2>1, <2>3, <3>1 DEF Scores
    <3> QED
      BY <3>1, <3>2
  <2>4. Lower(y, x)
    BY <2>2, <2>3 DEF Lower
  <2> QED
    BY <2>1, <2>4 DEF Worse, x, y
<1> QED
  BY <1>2, <1>3 DEF Guarding

LEMMA InvNeverBetter == SweepInv => NeverBetterDominated
<1> SUFFICES ASSUME SweepInv, phase \in {"write", "read", "done"},
                    NEW a \in 2 .. Len(rows), NEW b \in 2 .. Len(rows),
                    Dominated(a, b, "ssimulacra2", -1),
                    \A key \in {"butteraugli", "dssim", "ringing", "spurious"} : Dominated(a, b, key, 1)
             PROVE  Rank(table[a - 1].onCi) <= Rank(table[b - 1].onCi)
  BY DEF NeverBetterDominated
<1>1. /\ Len(rows) \in Nat \ {0} /\ rows \in [1 .. Len(rows) -> ScoredRow]
      /\ DOMAIN PerImages = 1 .. Len(rows)
      /\ \A i \in 1 .. Len(rows) : PerImages[i] = PerImageOf(rows[i])
      /\ config.rise \in Int \cup {Null}
  BY RowsAre
<1>2. a \in 1 .. Len(rows) /\ b \in 1 .. Len(rows)
      /\ a - 1 \in 1 .. Len(rows) - 1 /\ b - 1 \in 1 .. Len(rows) - 1
  BY <1>1
<1>3. \A key \in Guarding : Worse(rows[a], rows[b], key)
  BY <1>1, <1>2, DominatedIsWorse
<1>4. NoBetter(GuardVerdict(CompareArms(PerImages, 1)[a - 1], config.rise),
               GuardVerdict(CompareArms(PerImages, 1)[b - 1], config.rise))
  <2> DEFINE n == Len(rows)
             found == PerImages
             row == rows
             rise == config.rise
  <2>1. /\ n \in Nat \ {0} /\ DOMAIN found = 1 .. n /\ row \in [1 .. n -> ScoredRow]
        /\ \A i \in 1 .. n : found[i] = PerImageOf(row[i])
        /\ a \in 2 .. n /\ b \in 2 .. n /\ rise \in Int \cup {Null}
        /\ \A key \in Guarding : Worse(row[a], row[b], key)
    BY <1>1, <1>3
  <2> HIDE DEF n, found, row, rise
  <2>2. NoBetter(GuardVerdict(CompareArms(found, 1)[a - 1], rise),
                 GuardVerdict(CompareArms(found, 1)[b - 1], rise))
    BY <2>1, WorseVerdict
  <2> QED
    BY <2>2 DEF found, rise
<1>5. \A i \in 1 .. Len(rows) - 1 :
        table[i].onCi = GuardVerdict(CompareArms(PerImages, 1)[i], config.rise)
  BY DEF SweepInv, TableIs, ApplyGuards
<1> QED
  BY <1>2, <1>4, <1>5, RankIs

\* An arm that is nowhere better than another, on any image and any metric of a guard,
\* has no better verdict on the intervals, whatever the scores, the number of images,
\* the draws and the tolerances (stats.ts, arms-core.ts).
THEOREM DominatedArmsAreNoBetter == AnalysisSpec => []NeverBetterDominated
<1> QED
  BY SweepsKeepTables, InvNeverBetter, PTL

-----------------------------------------------------------------------------
(* An interval of the differences the other way round *)

Opposite(f, g, n) == \A i \in 1 .. n : g[i] = 0 - f[i]

LEMMA CountOfRest ==
  ASSUME NEW n \in Nat, NEW S \in SUBSET (1 .. n)
  PROVE  Cardinality((1 .. n) \ S) = n - Cardinality(S) /\ Cardinality(S) \in 0 .. n
<1>1. IsFiniteSet(1 .. n) /\ Cardinality(1 .. n) = n /\ IsFiniteSet(S) /\ Cardinality(S) \in 0 .. n
  BY CountsAre, CountOfAll
<1>2. (1 .. n) \cap S = S
  OBVIOUS
<1>3. Cardinality((1 .. n) \ S) = Cardinality(1 .. n) - Cardinality((1 .. n) \cap S)
  BY <1>1, FS_Difference
<1> QED
  BY <1>1, <1>2, <1>3

LEMMA KthMirrored ==
  ASSUME NEW n \in Nat, NEW f \in [1 .. n -> Int], NEW g \in [1 .. n -> Int], Opposite(f, g, n),
         NEW k \in 1 .. n, NEW v \in Int, IsKth(f, k, v)
  PROVE  IsKth(g, (n + 1) - k, 0 - v)
<1>1. Under(f, v) \in SUBSET (1 .. n) /\ Upto(f, v) \in SUBSET (1 .. n)
  BY DEF Under, Upto
<1>2. ASSUME NEW i \in 1 .. n
      PROVE  /\ g[i] < 0 - v <=> ~ (f[i] <= v)
             /\ g[i] <= 0 - v <=> ~ (f[i] < v)
  <2>1. g[i] = 0 - f[i] /\ f[i] \in Int
    BY DEF Opposite
  <2> QED
    BY <2>1
<1>3. /\ {i \in DOMAIN g : g[i] < 0 - v} = (1 .. n) \ Upto(f, v)
      /\ {i \in DOMAIN g : g[i] <= 0 - v} = (1 .. n) \ Under(f, v)
  BY <1>2 DEF Under, Upto
<1>4. /\ Cardinality((1 .. n) \ Upto(f, v)) = n - Cardinality(Upto(f, v))
      /\ Cardinality((1 .. n) \ Under(f, v)) = n - Cardinality(Under(f, v))
      /\ Cardinality(Upto(f, v)) \in 0 .. n /\ Cardinality(Under(f, v)) \in 0 .. n
  BY <1>1, CountOfRest
<1>5. Cardinality(Under(f, v)) < k /\ k <= Cardinality(Upto(f, v))
  BY DEF IsKth, Under, Upto
<1>6. /\ n - Cardinality(Upto(f, v)) < (n + 1) - k
      /\ (n + 1) - k <= n - Cardinality(Under(f, v))
  BY <1>4, <1>5
<1> QED
  BY <1>3, <1>4, <1>6 DEF IsKth

LEMMA AscendingMirrored ==
  ASSUME NEW n \in Nat, NEW f \in [1 .. n -> Int], NEW g \in [1 .. n -> Int], Opposite(f, g, n)
  PROVE  \A k \in 1 .. n : Ascending(g)[(n + 1) - k] = 0 - Ascending(f)[k]
<1>1. ASSUME NEW k \in 1 .. n PROVE Ascending(g)[(n + 1) - k] = 0 - Ascending(f)[k]
  <2> DEFINE u == Ascending(f)[k]
             v == 0 - u
             l == (n + 1) - k
             w == Ascending(g)[l]
  <2>1. u \in Int /\ IsKth(f, k, u)
    BY AscendingIs
  <2> HIDE DEF u
  <2>2. IsKth(g, l, v) /\ v \in Int /\ l \in 1 .. n
    <3>1. IsKth(g, (n + 1) - k, 0 - u)
      BY <2>1, KthMirrored
    <3> QED
      BY <2>1, <3>1
  <2> HIDE DEF l
  <2>3. w \in Int /\ IsKth(g, l, w)
    BY <2>2, AscendingIs
  <2> HIDE DEF v, w
  <2>4. \A i \in 1 .. n : g[i] <= g[i]
    <3>1. \A i \in 1 .. n : g[i] \in Int
      OBVIOUS
    <3> QED
      BY <3>1
  <2>5. v <= w /\ w <= v
    BY <2>2, <2>3, <2>4, KthOrder
  <2>6. v = w
    BY <2>2, <2>3, <2>5
  <2> QED
    BY <2>6 DEF u, v, w, l
<1> QED
  BY <1>1

LEMMA DividesOnce ==
  ASSUME NEW d \in Nat \ {0}, NEW q \in Nat, NEW r \in 0 .. d - 1
  PROVE  (d * q + r) \div d = q /\ (d * q + r) % d = r
<1> DEFINE x == d * q + r
           p == x \div d
           s == x % d
<1>1. x \in Nat
  <2>1. d * q \in Nat
    OBVIOUS
  <2> QED
    BY <2>1
<1>2. p \in Nat /\ s \in 0 .. d - 1 /\ x = d * p + s
  BY <1>1, Divides
<1> HIDE DEF p, s
<1>3. ASSUME p < q PROVE FALSE
  <2>1. d * (p + 1) <= d * q /\ d * (p + 1) = d * p + d /\ d * p \in Int /\ d * q \in Int
    BY <1>2, <1>3, ScaledOrder
  <2> QED
    BY <1>2, <2>1
<1>4. ASSUME q < p PROVE FALSE
  <2>1. d * (q + 1) <= d * p /\ d * (q + 1) = d * q + d /\ d * p \in Int /\ d * q \in Int
    BY <1>2, <1>4, ScaledOrder
  <2> QED
    BY <1>2, <2>1
<1>5. p = q
  BY <1>2, <1>3, <1>4
<1>6. d * p = d * q /\ d * q \in Int
  BY <1>5
<1>7. s = r
  BY <1>2, <1>6
<1> QED
  BY <1>5, <1>7 DEF p, s

LEMMA QuantileMirrored ==
  ASSUME NEW n \in Nat \ {0}, NEW d \in Nat \ {0, 1},
         NEW s \in [1 .. n -> Int], NEW t \in [1 .. n -> Int],
         \A k \in 1 .. n : t[(n + 1) - k] = 0 - s[k]
  PROVE  Quantile(t, 1, d) = 0 - Quantile(s, d - 1, d)
<1> DEFINE q == (n - 1) \div d
           r == (n - 1) % d
<1>1. n - 1 \in Nat /\ d \in Nat \ {0}
  OBVIOUS
<1>2. /\ q \in Nat /\ r \in 0 .. d - 1 /\ n - 1 = d * q + r
      /\ 1 + q \in 1 .. n /\ (r # 0 => (1 + q) + 1 \in 1 .. n)
  <2>1. 1 \in 0 .. d /\ 1 * (n - 1) = n - 1
    OBVIOUS
  <2>2. /\ (1 * (n - 1)) \div d \in Nat
        /\ 1 + (1 * (n - 1)) \div d \in 1 .. n
        /\ (1 * (n - 1)) % d # 0 => (1 + (1 * (n - 1)) \div d) + 1 \in 1 .. n
    BY <1>1, <2>1, PlacesAre
  <2>3. n - 1 = d * q + r /\ r \in 0 .. d - 1
    BY <1>1, Divides
  <2> QED
    BY <2>1, <2>2, <2>3
<1>3. Len(s) = n /\ Len(t) = n
  BY ListedIs
<1>4. Quantile(t, 1, d) = d * t[1 + q] + (IF r = 0 THEN 0 ELSE r * (t[(1 + q) + 1] - t[1 + q]))
  <2>1. 1 * (n - 1) = n - 1
    OBVIOUS
  <2> QED
    BY <1>3, <2>1 DEF Quantile
<1> DEFINE pos == (d - 1) * (n - 1)
           lo == 1 + pos \div d
           rest == pos % d
<1>5. Quantile(s, d - 1, d) = d * s[lo] + (IF rest = 0 THEN 0 ELSE rest * (s[lo + 1] - s[lo]))
  BY <1>3 DEF Quantile
<1> HIDE DEF q, r
<1>6. pos = d * (n - 1) - (d * q + r)
  <2>1. (d - 1) * (n - 1) = d * (n - 1) - (n - 1)
    OBVIOUS
  <2> QED
    BY <1>2, <2>1
<1>7. CASE r = 0
  <2>1. pos = d * ((n - 1) - q) + 0 /\ (n - 1) - q \in Nat
    <3>1. (n - 1) - q \in Nat
      BY <1>2
    <3>2. d * ((n - 1) - q) = d * (n - 1) - d * q
      BY <1>2
    <3>3. d * (n - 1) \in Int /\ d * q \in Int
      BY <1>2
    <3> HIDE DEF pos
    <3> QED
      BY <1>6, <1>7, <3>1, <3>2, <3>3
  <2>2. pos \div d = (n - 1) - q /\ pos % d = 0
    <3>1. 0 \in 0 .. d - 1
      OBVIOUS
    <3> HIDE DEF pos
    <3> QED
      BY <1>1, <2>1, <3>1, DividesOnce
  <2>3. lo = n - q /\ rest = 0
    BY <1>2, <2>2
  <2>4. n - q \in 1 .. n /\ (n + 1) - (n - q) = 1 + q
    BY <1>2
  <2>5. t[1 + q] = 0 - s[n - q] /\ s[n - q] \in Int
    BY <2>4
  <2>6. d * (0 - s[n - q]) = 0 - d * s[n - q] /\ d * s[n - q] \in Int
    BY <2>5
  <2> HIDE DEF pos, lo, rest
  <2>7. Quantile(t, 1, d) = d * (0 - s[n - q]) /\ Quantile(s, d - 1, d) = d * s[n - q]
    <3>1. d * (0 - s[n - q]) \in Int
      BY <2>6
    <3> QED
      BY <1>4, <1>5, <1>7, <2>3, <2>5, <2>6, <3>1
  <2> QED
    BY <2>6, <2>7
<1>8. CASE r # 0
  <2>1. pos = d * ((n - 2) - q) + (d - r) /\ (n - 2) - q \in Nat /\ d - r \in 1 .. d - 1
    <3>1. (n - 2) - q \in Nat /\ d - r \in 1 .. d - 1
      BY <1>2, <1>8
    <3>2. d * ((n - 2) - q) = (d * (n - 1) - d) - d * q
      BY <1>2
    <3>3. d * (n - 1) \in Int /\ d * q \in Int
      BY <1>2
    <3> HIDE DEF pos
    <3> QED
      BY <1>2, <1>6, <3>1, <3>2, <3>3
  <2>2. pos \div d = (n - 2) - q /\ pos % d = d - r
    <3>1. d - r \in 0 .. d - 1
      BY <2>1
    <3> HIDE DEF pos
    <3> QED
      BY <1>1, <2>1, <3>1, DividesOnce
  <2>3. lo = (n - 1) - q /\ lo + 1 = n - q /\ rest = d - r /\ rest # 0
    <3>1. lo = 1 + ((n - 2) - q) /\ rest = d - r
      BY <2>2
    <3>2. n \in Int /\ q \in Int /\ d - r \in 1 .. d - 1
      BY <1>2, <2>1
    <3> HIDE DEF lo, rest
    <3> QED
      BY <3>1, <3>2
  <2>4. /\ n - q \in 1 .. n /\ (n + 1) - (n - q) = 1 + q
        /\ (n - 1) - q \in 1 .. n /\ (n + 1) - ((n - 1) - q) = (1 + q) + 1
    BY <1>2, <1>8
  <2> DEFINE a == s[n - q]
             b == s[(n - 1) - q]
  <2>5. t[1 + q] = 0 - a /\ t[(1 + q) + 1] = 0 - b /\ a \in Int /\ b \in Int
    BY <2>4
  <2> HIDE DEF pos, lo, rest
  <2>6. /\ Quantile(t, 1, d) = d * (0 - a) + r * ((0 - b) - (0 - a))
        /\ Quantile(s, d - 1, d) = d * b + (d - r) * (a - b)
    <3>1. Quantile(t, 1, d) = d * t[1 + q] + r * (t[(1 + q) + 1] - t[1 + q])
      BY <1>4, <1>8
    <3>2. Quantile(s, d - 1, d) = d * s[lo] + rest * (s[lo + 1] - s[lo])
      BY <1>5, <2>3
    <3>3. s[lo] = b /\ s[lo + 1] = a
      BY <2>3
    <3> HIDE DEF a, b
    <3> QED
      BY <2>3, <2>5, <3>1, <3>2, <3>3
  <2> HIDE DEF a, b
  <2>7. r \in Int /\ d \in Int
    BY <1>2
  <2>8. d * (0 - a) + r * ((0 - b) - (0 - a)) = 0 - (d * b + (d - r) * (a - b))
    BY <2>5, <2>7
  <2> QED
    BY <2>6, <2>8
<1> QED
  BY <1>7, <1>8

-----------------------------------------------------------------------------
LEMMA IntervalMirrored ==
  ASSUME NEW n \in Nat \ {0}, NEW f \in [1 .. n -> Int], NEW g \in [1 .. n -> Int], Opposite(f, g, n)
  PROVE  /\ IntervalOf(f) \in Int \X Int
         /\ IntervalOf(g) = <<0 - IntervalOf(f)[2], 0 - IntervalOf(f)[1]>>
<1> DEFINE s == Ascending(f)
           t == Ascending(g)
<1>1. s \in [1 .. n -> Int] /\ t \in [1 .. n -> Int]
  BY AscendingIs
<1>2. Opposite(g, f, n)
  <2>1. ASSUME NEW i \in 1 .. n PROVE f[i] = 0 - g[i]
    <3>1. g[i] = 0 - f[i] /\ f[i] \in Int
      BY DEF Opposite
    <3> QED
      BY <3>1
  <2> QED
    BY <2>1 DEF Opposite
<1>3. \A k \in 1 .. n : t[(n + 1) - k] = 0 - s[k]
  BY AscendingMirrored
<1>4. \A k \in 1 .. n : s[(n + 1) - k] = 0 - t[k]
  BY <1>2, AscendingMirrored
<1>5. Cut \in Nat \ {0, 1}
  BY DrawsAssumption
<1>6. /\ IntervalOf(f) = <<Quantile(s, 1, Cut), Quantile(s, Cut - 1, Cut)>>
      /\ IntervalOf(g) = <<Quantile(t, 1, Cut), Quantile(t, Cut - 1, Cut)>>
  BY DEF IntervalOf
<1> HIDE DEF s, t
<1>7. /\ Quantile(t, 1, Cut) = 0 - Quantile(s, Cut - 1, Cut)
      /\ Quantile(s, 1, Cut) = 0 - Quantile(t, Cut - 1, Cut)
  BY <1>1, <1>3, <1>4, <1>5, QuantileMirrored
<1>8. \A i \in 1 .. n : f[i] <= f[i] /\ g[i] <= g[i]
  <2>1. \A i \in 1 .. n : f[i] \in Int /\ g[i] \in Int
    OBVIOUS
  <2> QED
    BY <2>1
<1>9. \A e \in {1, 2} : IntervalOf(f)[e] \in Int /\ IntervalOf(g)[e] \in Int
  BY <1>8, IntervalMonotone
<1>10. /\ Quantile(s, 1, Cut) \in Int /\ Quantile(s, Cut - 1, Cut) \in Int
       /\ Quantile(t, Cut - 1, Cut) \in Int
  BY <1>6, <1>9
<1>11. Quantile(t, Cut - 1, Cut) = 0 - Quantile(s, 1, Cut)
  BY <1>7, <1>10
<1> QED
  BY <1>6, <1>7, <1>10, <1>11

LEMMA ResampledMirrored ==
  ASSUME NEW seed \in Seeds, NEW m \in 1 .. ImageCount, NEW n \in SampleSizes,
         NEW f \in [1 .. m -> Int], NEW g \in [1 .. m -> Int], Opposite(f, g, m)
  PROVE  Opposite(ResampledStatistics(f, n, seed), ResampledStatistics(g, n, seed), n)
<1>1. ASSUME NEW r \in 1 .. n
      PROVE  ResampledStatistics(g, n, seed)[r] = 0 - ResampledStatistics(f, n, seed)[r]
  <2> DEFINE u == Drawn(f, m, seed, r)
             w == Drawn(g, m, seed, r)
  <2>1. u \in [1 .. m -> Int] /\ w \in [1 .. m -> Int]
    BY DrawnIs
  <2>4. m \in Nat
    BY ScoredAssumption
  <2>2. ASSUME NEW i \in 1 .. m PROVE w[i] = 0 - u[i]
    <3>1. /\ Draws[seed][m][r][i] \in 1 .. m
          /\ u[i] = f[Draws[seed][m][r][i]] /\ w[i] = g[Draws[seed][m][r][i]]
      BY DrawnIs
    <3> HIDE DEF u, w
    <3> QED
      BY <3>1 DEF Opposite
  <2>3. ResampledStatistics(f, n, seed)[r] = Sum(u) /\ ResampledStatistics(g, n, seed)[r] = Sum(w)
    BY ResampledIs
  <2> HIDE DEF u, w
  <2>5. Sum(w) = 0 - Sum(u)
    BY <2>1, <2>2, <2>4, SumNegated
  <2> QED
    BY <2>3, <2>5
<1> QED
  BY <1>1 DEF Opposite

LEMMA BootstrapMirrored ==
  ASSUME NEW seed \in Seeds, NEW m \in 1 .. ImageCount,
         NEW f \in [1 .. m -> Int], NEW g \in [1 .. m -> Int], Opposite(f, g, m)
  PROVE  /\ BootstrapCI(f, seed) \in Int \X Int
         /\ BootstrapCI(g, seed) = <<0 - BootstrapCI(f, seed)[2], 0 - BootstrapCI(f, seed)[1]>>
<1> DEFINE n == Resamples
           S == ResampledStatistics(f, n, seed)
           T == ResampledStatistics(g, n, seed)
<1>1. n \in SampleSizes /\ n \in Nat \ {0}
  BY DrawsAssumption DEF SampleSizes
<1>2. S \in [1 .. n -> Int] /\ T \in [1 .. n -> Int]
  BY <1>1, ResampledIs
<1>4. Opposite(S, T, n)
  BY <1>1, ResampledMirrored
<1>5. BootstrapCI(f, seed) = IntervalOf(S) /\ BootstrapCI(g, seed) = IntervalOf(T)
  BY DEF BootstrapCI
<1> HIDE DEF n, S, T
<1>6. IntervalOf(S) \in Int \X Int /\ IntervalOf(T) = <<0 - IntervalOf(S)[2], 0 - IntervalOf(S)[1]>>
  BY <1>1, <1>2, <1>4, IntervalMirrored
<1> QED
  BY <1>5, <1>6

-----------------------------------------------------------------------------
(* The readers of one arm *)

LEMMA CiedeIsPaired == "ciede2000" \in PairedMetrics
BY DEF PairedMetrics

\* The sweep and its readers see the same gains.
LEMMA GainsAgree ==
  ASSUME NEW r \in ScoredRow, NEW b \in ScoredRow
  PROVE  Gains(PerImageOf(r), PerImageOf(b)) = Gains(r, b)
BY CiedeIsPaired, PairedIs DEF Gains

LEMMA GainsAre ==
  ASSUME NEW r \in ScoredRow, NEW b \in ScoredRow
  PROVE  LET f == PairedDeltas(r["ciede2000"], b["ciede2000"]).deltas
             m == PairCount(r["ciede2000"], b["ciede2000"]) IN
         /\ m \in 0 .. ImageCount /\ f \in [1 .. m -> Int] /\ Gains(r, b) \in [1 .. m -> Int]
         /\ Opposite(f, Gains(r, b), m)
         /\ Gains(r, b) = <<>> <=> m = 0
         /\ f = <<>> <=> m = 0
<1> DEFINE f == PairedDeltas(r["ciede2000"], b["ciede2000"]).deltas
           m == PairCount(r["ciede2000"], b["ciede2000"])
<1>1. r["ciede2000"] \in Scores /\ b["ciede2000"] \in Scores
  BY CiedeIsPaired, MetricsAreSeries, SeriesOf
<1>2. m \in 0 .. ImageCount /\ f \in [1 .. m -> Int] /\ (f = <<>> <=> m = 0) /\ m \in Nat
  <2>1. m \in 0 .. ImageCount /\ f \in [1 .. m -> Int] /\ (f = <<>> <=> m = 0)
    BY <1>1, DeltasAre
  <2> QED
    BY <2>1, ScoredAssumption
<1>3. Paired(r, b, "ciede2000").deltas = f
  BY CiedeIsPaired, PairedIs
<1> HIDE DEF f, m
<1>4. Gains(r, b) = [i \in 1 .. m |-> 0 - f[i]]
  BY <1>2, <1>3 DEF Gains
<1>5. Gains(r, b) \in [1 .. m -> Int] /\ Opposite(f, Gains(r, b), m)
  BY <1>2, <1>4 DEF Opposite
<1>6. Gains(r, b) = <<>> <=> m = 0
  BY <1>2, <1>5, EmptyIs
<1> QED
  BY <1>2, <1>5, <1>6 DEF f, m

LEMMA IntervalsAgree ==
  ASSUME NEW r \in ScoredRow, NEW b \in ScoredRow
  PROVE  LET f == PairedDeltas(r["ciede2000"], b["ciede2000"]).deltas IN
         GainInterval(Gains(r, b)) =
           Mirrored(IF f = <<>> THEN Null ELSE BootstrapCI(f, BootstrapSeed))
<1> DEFINE f == PairedDeltas(r["ciede2000"], b["ciede2000"]).deltas
           m == PairCount(r["ciede2000"], b["ciede2000"])
           g == Gains(r, b)
           ci == BootstrapCI(f, BootstrapSeed)
<1>1. /\ m \in 0 .. ImageCount /\ f \in [1 .. m -> Int] /\ g \in [1 .. m -> Int] /\ Opposite(f, g, m)
      /\ (g = <<>> <=> m = 0) /\ (f = <<>> <=> m = 0)
  BY GainsAre
<1>2. ImageCount \in Nat /\ BootstrapSeed \in Seeds
  BY ScoredAssumption, DrawsAssumption
<1>3. GainInterval(g) = IF g = <<>> THEN Null ELSE BootstrapCI(g, BootstrapSeed)
  BY DEF GainInterval
<1> HIDE DEF f, m, g, ci
<1>4. CASE m = 0
  BY <1>1, <1>3, <1>4 DEF Mirrored, f, g
<1>5. CASE m # 0
  <2>1. m \in 1 .. ImageCount
    BY <1>1, <1>2, <1>5
  <2>2. ci \in Int \X Int /\ BootstrapCI(g, BootstrapSeed) = <<0 - ci[2], 0 - ci[1]>>
    BY <1>1, <1>2, <2>1, BootstrapMirrored DEF ci
  <2>3. ci # Null
    BY <2>2, ScoredAssumption
  <2>4. Mirrored(ci) = <<0 - ci[2], 0 - ci[1]>>
    BY <2>3 DEF Mirrored
  <2>5. GainInterval(g) = Mirrored(ci)
    BY <1>1, <1>3, <1>5, <2>2, <2>4
  <2>6. f # <<>>
    BY <1>1, <1>5
  <2> QED
    BY <2>5, <2>6 DEF f, g, ci
<1> QED
  BY <1>4, <1>5

LEMMA SumOfNone ==
  ASSUME NEW f \in [1 .. 0 -> Int]
  PROVE  Sum(f) = 0
<1>1. Partial([k \in 0 .. 0 |-> 0], f, 0)
  BY DEF Partial
<1> QED
  BY <1>1, SumIs

LEMMA MeansAgree ==
  ASSUME NEW r \in ScoredRow
  PROVE  MeansOf(PerImageOf(r)) = MeansOf(r)
<1>1. ASSUME NEW key \in PairedMetrics, key \notin DOMAIN PerImageOf(r)
      PROVE  Mean(r[key]) = NoMean
  <2>1. Finite(r[key]) = <<>>
    <3>1. key \in Series
      BY MetricsAreSeries
    <3> QED
      BY <1>1, <3>1 DEF PerImageOf
  <2>2. <<>> \in [1 .. 0 -> Int]
    <3>1. [i \in 1 .. 0 |-> 0] \in [1 .. 0 -> Int]
      OBVIOUS
    <3>2. [i \in 1 .. 0 |-> 0] = <<>>
      BY <3>1, EmptyIs
    <3> QED
      BY <3>1, <3>2
  <2>3. Sum(<<>>) = 0 /\ Len(<<>>) = 0
    BY <2>2, SumOfNone
  <2> QED
    BY <2>1, <2>3 DEF Mean, NoMean
<1>2. ASSUME NEW key \in PairedMetrics
      PROVE  (IF key \in DOMAIN PerImageOf(r) THEN Mean(PerImageOf(r)[key]) ELSE NoMean) = Mean(r[key])
  BY <1>1, CommittedRow
<1>3. \A key \in PairedMetrics : key \in DOMAIN r
  BY MetricsAreSeries DEF ScoredRow
<1> QED
  BY <1>2, <1>3 DEF MeansOf

-----------------------------------------------------------------------------
(* p-values *)

\* A p-value is a number of parts of One.
LEMMA PIs ==
  ASSUME NEW values, NEW seed, NEW n \in Nat
  PROVE  BootstrapP(values, n, seed) \in 0 .. n + 1
<1> DEFINE sums == ResampledStatistics(values, n, seed)
           L == {r \in 1 .. n : sums[r] <= 0}
           G == {r \in 1 .. n : sums[r] >= 0}
<1>1. L \in SUBSET (1 .. n) /\ G \in SUBSET (1 .. n)
  OBVIOUS
<1>2. BootstrapP(values, n, seed) = Least(n + 1, 2 * (Least(Cardinality(L), Cardinality(G)) + 1))
  BY DEF BootstrapP
<1> HIDE DEF L, G
<1>3. Cardinality(L) \in 0 .. n /\ Cardinality(G) \in 0 .. n
  BY <1>1, CountsAre
<1> QED
  BY <1>2, <1>3 DEF Least

LEMMA SteppedIs ==
  ASSUME NEW one \in Nat, NEW p \in 0 .. one, NEW times \in Nat \ {0}
  PROVE  Least(one, times * p) \in Int /\ Least(one, times * p) >= p
<1>1. times * p \in Int /\ times * p >= p
  OBVIOUS
<1> QED
  BY <1>1 DEF Least

\* Holm's adjustment makes no p-value less than it was.
LEMMA HolmNoLess ==
  ASSUME NEW n \in Nat, NEW one \in Nat, NEW ps \in [1 .. n -> 0 .. one], NEW i \in 1 .. n
  PROVE  Holm(ps, one)[i] \in Int /\ Holm(ps, one)[i] >= ps[i]
<1>1. Tested(ps) = 1 .. n
  BY ScoredAssumption DEF Tested
<1>2. \A j \in 1 .. n : RankOf(ps, j) \in 0 .. n
  <2>1. ASSUME NEW j \in 1 .. n PROVE RankOf(ps, j) \in 0 .. n
    <3> DEFINE S == {k \in Tested(ps) : ps[k] < ps[j] \/ (ps[k] = ps[j] /\ k <= j)}
    <3>1. S \in SUBSET (1 .. n)
      BY <1>1
    <3>2. RankOf(ps, j) = Cardinality(S)
      BY DEF RankOf
    <3> HIDE DEF S
    <3> QED
      BY <3>1, <3>2, CountsAre
  <2> QED
    BY <2>1
<1>3. Cardinality(Tested(ps)) = n
  BY <1>1, CountOfAll
<1>4. \A j \in 1 .. n : Stepped(ps, one, j) \in Int /\ Stepped(ps, one, j) >= ps[j]
  <2>1. ASSUME NEW j \in 1 .. n
        PROVE  Stepped(ps, one, j) \in Int /\ Stepped(ps, one, j) >= ps[j]
    <3>1. (n - RankOf(ps, j)) + 1 \in Nat \ {0} /\ ps[j] \in 0 .. one
      BY <1>2
    <3>2. Stepped(ps, one, j) = Least(one, ((n - RankOf(ps, j)) + 1) * ps[j])
      BY <1>3 DEF Stepped
    <3> QED
      BY <3>1, <3>2, SteppedIs
  <2> QED
    BY <2>1
<1> DEFINE L == {k \in 1 .. n : RankOf(ps, k) <= RankOf(ps, i)}
           f == [j \in 1 .. n |-> Stepped(ps, one, j)]
           V == {Stepped(ps, one, j) : j \in L}
<1>5. L \in SUBSET (1 .. n) /\ i \in L /\ L # {}
  <2>1. RankOf(ps, i) <= RankOf(ps, i)
    BY <1>2
  <2> QED
    BY <2>1
<1>6. f \in [1 .. n -> Int]
  BY <1>4
<1>7. Holm(ps, one)[i] = Max(V)
  <2>1. ps[i] # Null
    BY ScoredAssumption
  <2>2. i \in DOMAIN ps
    OBVIOUS
  <2>3. Holm(ps, one)[i] =
          Max({Stepped(ps, one, j) : j \in {k \in Tested(ps) : RankOf(ps, k) <= RankOf(ps, i)}})
    BY <2>1, <2>2 DEF Holm
  <2> QED
    BY <1>1, <2>3
<1>8. \A j \in 1 .. n : f[j] = Stepped(ps, one, j)
  OBVIOUS
<1> HIDE DEF f, L
<1>9. PICK j \in L : \A k \in L : f[k] <= f[j]
  BY <1>5, <1>6, GreatestOf
<1>10. \E x \in V : \A y \in V : x >= y
  <2>1. Stepped(ps, one, j) \in V
    OBVIOUS
  <2>2. ASSUME NEW y \in V PROVE Stepped(ps, one, j) >= y
    <3>1. PICK k \in L : y = Stepped(ps, one, k)
      OBVIOUS
    <3>2. j \in 1 .. n /\ k \in 1 .. n
      BY <1>5
    <3> QED
      BY <1>4, <1>8, <1>9, <3>1, <3>2
  <2> QED
    BY <2>1, <2>2
<1>11. Max(V) \in V /\ \A y \in V : Max(V) >= y
  BY <1>10 DEF Max
<1>12. Stepped(ps, one, i) \in V
  BY <1>5
<1>13. Max(V) \in Int
  BY <1>4, <1>5, <1>11
<1> HIDE DEF V
<1> QED
  BY <1>4, <1>7, <1>11, <1>12, <1>13

\* And so with the p-value of an arm, in the family that its pairs put it in.
LEMMA AdjustedNoLess ==
  ASSUME NEW n \in Nat \ {0}, NEW found, DOMAIN found = 1 .. n, NEW i \in 2 .. n, NEW key,
         Pair(found, i, key).deltas # <<>>
  PROVE  LET p == BootstrapP(Pair(found, i, key).deltas, PResamples, BootstrapSeed) IN
         p \in Int /\ Adjusted(found, 1, key, i) \in Int /\ Adjusted(found, 1, key, i) >= p
<1> DEFINE S == {j \in DOMAIN found \ {1} : Paired(found[j], found[1], key).deltas # <<>>}
           have == HavePairs(found, 1, key)
           P(j) == BootstrapP(Pair(found, j, key).deltas, PResamples, BootstrapSeed)
           c == Cardinality(S)
           ps == [k \in 1 .. c |-> P(have[k])]
<1>1. S \in SUBSET (1 .. n) /\ i \in S
  BY DEF Pair
<1>2. have = InOrder(S)
  BY DEF HavePairs
<1>3. PResamples \in Nat /\ One \in Nat
  BY DrawsAssumption DEF One
<1>4. \A j : P(j) \in 0 .. One
  BY <1>3, PIs DEF One
<1>5. HolmFamily(found, 1, key) =
        Holm(Listed([k \in 1 .. Len(have) |->
               BootstrapP(Pair(found, have[k], key).deltas, PResamples, BootstrapSeed)]), One)
  BY DEF HolmFamily, Pair
<1>6. HolmFamily(found, 1, key) = Holm(Listed([k \in 1 .. Len(have) |-> P(have[k])]), One)
  BY <1>5
<1>7. Adjusted(found, 1, key, i) =
        HolmFamily(found, 1, key)[CHOOSE k \in 1 .. Len(have) : have[k] = i]
  BY DEF Adjusted
<1> HIDE DEF S, P, have
<1>8. Len(have) = c /\ c \in Nat
  <2>1. Len(have) = c
    BY <1>1, <1>2, InOrderIs
  <2>2. c \in 0 .. n
    BY <1>1, CountsAre
  <2> QED
    BY <2>1, <2>2
<1>9. \E k \in 1 .. c : have[k] = i
  BY <1>1, <1>2, InOrderReaches
<1>10. ps \in [1 .. c -> 0 .. One]
  BY <1>4
<1>11. HolmFamily(found, 1, key) = Holm(ps, One)
  <2>1. Listed(ps) = ps
    <3> HIDE DEF ps, c
    <3> QED
      BY <1>8, <1>10, ListedIs
  <2> QED
    BY <1>6, <1>8, <2>1
<1>12. PICK k \in 1 .. c : k = (CHOOSE x \in 1 .. Len(have) : have[x] = i) /\ have[k] = i
  BY <1>8, <1>9
<1>13. ps[k] = P(i)
  BY <1>12
<1> HIDE DEF ps, c
<1>14. Holm(ps, One)[k] \in Int /\ Holm(ps, One)[k] >= ps[k]
  BY <1>3, <1>8, <1>10, HolmNoLess
<1>15. P(i) \in Int /\ Adjusted(found, 1, key, i) \in Int /\ Adjusted(found, 1, key, i) >= P(i)
  BY <1>3, <1>4, <1>7, <1>11, <1>12, <1>13, <1>14
<1> QED
  BY <1>15 DEF P

LEMMA BelowOrder ==
  ASSUME NEW p \in Int, NEW q \in Int, p <= q, Below05(q)
  PROVE  Below05(p)
<1>1. Cut \in Nat /\ One \in Nat
  BY DrawsAssumption DEF One
<1>2. Cut * p \in Int /\ Cut * q \in Int /\ Cut * p <= Cut * q
  BY <1>1, ScaledOrder
<1>3. p * Cut = Cut * p /\ q * Cut = Cut * q
  BY <1>1
<1>4. q * Cut < 2 * One
  BY DEF Below05
<1>5. 2 * One \in Int
  BY <1>1
<1> QED
  BY <1>2, <1>3, <1>4, <1>5 DEF Below05

-----------------------------------------------------------------------------
(* Seeds *)

\* Another seed turns the interval of these differences.
Turned(deltas) ==
  \E seed \in Seeds \ {BootstrapSeed} :
    ExcludesZero(BootstrapCI(deltas, seed)) # ExcludesZero(BootstrapCI(deltas, BootstrapSeed))

LEMMA FlipsAre ==
  ASSUME NEW n \in Nat \ {0}, NEW found, DOMAIN found = 1 .. n
  PROVE  IntervalFlips(found) =
           {i \in 2 .. n : /\ Pair(found, i, "ciede2000").deltas # <<>>
                           /\ Turned(Pair(found, i, "ciede2000").deltas)}
<1> DEFINE D(i) == Pair(found, i, "ciede2000").deltas
           S == {i \in 2 .. n : D(i) # <<>>}
           have == HavePairs(found, 1, "ciede2000")
           series == ArmsWithPairs(found)
           c == Cardinality(S)
<1>1. have = InOrder(S)
  <2>1. {i \in DOMAIN found \ {1} : Paired(found[i], found[1], "ciede2000").deltas # <<>>} = S
    BY DEF Pair
  <2> QED
    BY <2>1 DEF HavePairs
<1>2. series = [k \in 1 .. Len(have) |-> [row |-> have[k], deltas |-> D(have[k])]]
  BY DEF ArmsWithPairs, Pair
<1>3. IntervalFlips(found) = {series[k].row : k \in {j \in DOMAIN series : Turned(series[j].deltas)}}
  BY DEF IntervalFlips, Turned
<1>4. S \in SUBSET (1 .. n)
  OBVIOUS
<1> HIDE DEF D, S, have, series
<1>5. have \in [1 .. c -> S] /\ Len(have) = c
  BY <1>1, <1>4, InOrderIs
<1>6. /\ DOMAIN series = 1 .. c
      /\ \A k \in 1 .. c : series[k].row = have[k] /\ series[k].deltas = D(have[k])
  BY <1>2, <1>5
<1>7. \A i \in S : \E k \in 1 .. c : have[k] = i
  BY <1>1, <1>4, InOrderReaches
<1>8. IntervalFlips(found) = {i \in S : Turned(D(i))}
  <2>1. ASSUME NEW i \in IntervalFlips(found) PROVE i \in S /\ Turned(D(i))
    <3>1. PICK k \in {j \in DOMAIN series : Turned(series[j].deltas)} : i = series[k].row
      BY <1>3, <2>1
    <3> QED
      BY <1>5, <1>6, <3>1
  <2>2. ASSUME NEW i \in S, Turned(D(i)) PROVE i \in IntervalFlips(found)
    <3>1. PICK k \in 1 .. c : have[k] = i
      BY <1>7, <2>2
    <3>2. k \in DOMAIN series /\ series[k].row = i /\ Turned(series[k].deltas)
      BY <1>6, <2>2, <3>1
    <3> QED
      BY <1>3, <3>2
  <2> QED
    BY <2>1, <2>2
<1> QED
  BY <1>8 DEF S, D

\* An arm that stands alone turns where it did among the others.
LEMMA FlipsAlone ==
  ASSUME NEW n \in Nat \ {0}, NEW found, DOMAIN found = 1 .. n
  PROVE  IntervalFlips(found) = {i \in 2 .. n : IntervalFlips(<<found[1], found[i]>>) # {}}
<1>1. ASSUME NEW i \in 2 .. n
      PROVE  IntervalFlips(<<found[1], found[i]>>) # {} <=>
               /\ Pair(found, i, "ciede2000").deltas # <<>>
               /\ Turned(Pair(found, i, "ciede2000").deltas)
  <2> DEFINE two == <<found[1], found[i]>>
  <2>1. DOMAIN two = 1 .. 2 /\ two[1] = found[1] /\ two[2] = found[i] /\ 2 \in Nat \ {0}
    OBVIOUS
  <2> HIDE DEF two
  <2>2. IntervalFlips(two) =
          {j \in 2 .. 2 : /\ Pair(two, j, "ciede2000").deltas # <<>>
                          /\ Turned(Pair(two, j, "ciede2000").deltas)}
    BY <2>1, FlipsAre
  <2>3. Pair(two, 2, "ciede2000") = Pair(found, i, "ciede2000")
    BY <2>1 DEF Pair
  <2>4. \A j : j \in 2 .. 2 <=> j = 2
    OBVIOUS
  <2>5. IntervalFlips(two) # {} <=>
          /\ Pair(two, 2, "ciede2000").deltas # <<>>
          /\ Turned(Pair(two, 2, "ciede2000").deltas)
    BY <2>2, <2>4
  <2> QED
    BY <2>3, <2>5 DEF two
<1>2. IntervalFlips(found) =
        {i \in 2 .. n : /\ Pair(found, i, "ciede2000").deltas # <<>>
                        /\ Turned(Pair(found, i, "ciede2000").deltas)}
  BY FlipsAre
<1> QED
  BY <1>1, <1>2

-----------------------------------------------------------------------------
(* The readers of a result *)

\* An arm's interval in the table is the mirror of the one that its readers take.
LEMMA ArmInterval ==
  ASSUME NEW n \in Nat \ {0}, NEW row \in [1 .. n -> ScoredRow], NEW found, DOMAIN found = 1 .. n,
         \A j \in 1 .. n : found[j] = PerImageOf(row[j]), NEW i \in 1 .. n - 1
  PROVE  LET arm == CompareArms(found, 1)[i] IN
         GainInterval(Gains(row[i + 1], row[1])) =
           Mirrored(IF "ciede2000" \in DOMAIN arm THEN arm["ciede2000"].ci ELSE Null)
<1> DEFINE arm == CompareArms(found, 1)[i]
           f == PairedDeltas(row[i + 1]["ciede2000"], row[1]["ciede2000"]).deltas
<1>1. i + 1 \in 1 .. n /\ 1 \in 1 .. n /\ row[i + 1] \in ScoredRow /\ row[1] \in ScoredRow
  OBVIOUS
<1>2. Pair(found, i + 1, "ciede2000").deltas = f
  BY <1>1, CiedeIsPaired, PairedIs DEF Pair
<1>3. /\ DOMAIN arm = {m \in PairedMetrics : Pair(found, i + 1, m).deltas # <<>>}
      /\ \A key \in DOMAIN arm : arm[key].ci = BootstrapCI(Pair(found, i + 1, key).deltas, BootstrapSeed)
  BY ArmsAre
<1>4. GainInterval(Gains(row[i + 1], row[1])) =
        Mirrored(IF f = <<>> THEN Null ELSE BootstrapCI(f, BootstrapSeed))
  BY <1>1, IntervalsAgree
<1> HIDE DEF arm, f
<1>5. "ciede2000" \in DOMAIN arm <=> f # <<>>
  BY <1>2, <1>3, CiedeIsPaired
<1>6. f # <<>> => arm["ciede2000"].ci = BootstrapCI(f, BootstrapSeed)
  BY <1>2, <1>3, <1>5
<1>7. (IF "ciede2000" \in DOMAIN arm THEN arm["ciede2000"].ci ELSE Null) =
        (IF f = <<>> THEN Null ELSE BootstrapCI(f, BootstrapSeed))
  BY <1>5, <1>6
<1> QED
  BY <1>4, <1>7 DEF arm

\* The places of the rows, of the table and of what was read.
LEMMA PlacesRead ==
  ASSUME SweepInv, phase = "done"
  PROVE  LET n == Len(rows) IN
         /\ n \in Nat \ {0} /\ rows \in [1 .. n -> ScoredRow]
         /\ file = PerImages /\ DOMAIN file = 1 .. n /\ Len(file) = n
         /\ \A i \in 1 .. n : file[i] = PerImageOf(rows[i])
         /\ DOMAIN table = 1 .. n - 1 /\ Len(table) = n - 1
         /\ Len(view) = n - 1
<1> DEFINE n == Len(rows)
<1>1. table = ApplyGuards /\ file = PerImages /\ view = Derived
  BY DEF SweepInv, TableIs, FileIs, ViewIs
<1>2. /\ n \in Nat \ {0} /\ rows \in [1 .. n -> ScoredRow]
      /\ DOMAIN file = 1 .. n /\ Len(file) = n
      /\ \A i \in 1 .. n : file[i] = PerImageOf(rows[i])
  BY <1>1, RowsAre
<1>3. DOMAIN table = 1 .. n - 1
  BY <1>1 DEF ApplyGuards
<1>4. DOMAIN view = 1 .. n - 1
  BY <1>1, <1>2 DEF Derived
<1> DEFINE T == {table[i] : i \in 1 .. n - 1}
           V == {view[i] : i \in 1 .. n - 1}
<1>5. table \in [1 .. n - 1 -> T] /\ view \in [1 .. n - 1 -> V]
  <2>1. table = [i \in 1 .. n - 1 |-> table[i]]
    BY <1>1, <1>3 DEF ApplyGuards
  <2>2. view = [i \in 1 .. n - 1 |-> view[i]]
    BY <1>1, <1>2, <1>4 DEF Derived
  <2> QED
    BY <2>1, <2>2
<1>6. n - 1 \in Nat
  BY <1>2
<1> HIDE DEF T, V
<1>7. Len(table) = n - 1 /\ Len(view) = n - 1
  BY <1>5, <1>6, ListedIs
<1> QED
  BY <1>1, <1>2, <1>3, <1>7

\* Row by row, the table is what is read.
LEMMA RowsRead ==
  ASSUME SweepInv, phase = "done", NEW i \in 1 .. Len(rows) - 1
  PROVE  /\ table[i].ci = Mirrored(view[i].ci)
         /\ \A field \in {"means", "wins", "onCi", "ok"} : table[i][field] = view[i][field]
         /\ table[i].onCi = GuardVerdict(CompareArms(file, 1)[i], config.rise)
         /\ table[i].ok = GuardsHold(MeansOf(file[i + 1]), MeansOf(file[1]), config.rise)
<1> DEFINE n == Len(rows)
           g == Gains(rows[i + 1], rows[1])
           h == Gains(file[i + 1], file[1])
           arm == CompareArms(file, 1)[i]
<1>1. /\ n \in Nat \ {0} /\ rows \in [1 .. n -> ScoredRow]
      /\ file = PerImages /\ DOMAIN file = 1 .. n /\ Len(file) = n
      /\ \A j \in 1 .. n : file[j] = PerImageOf(rows[j])
  BY PlacesRead
<1>2. /\ i + 1 \in 1 .. n /\ 1 \in 1 .. n
      /\ rows[i + 1] \in ScoredRow /\ rows[1] \in ScoredRow
      /\ file[i + 1] = PerImageOf(rows[i + 1]) /\ file[1] = PerImageOf(rows[1])
  BY <1>1
<1>3. table = ApplyGuards /\ view = Derived
  BY DEF SweepInv, TableIs, ViewIs
<1>4. table[i] = [means |-> MeansOf(rows[i + 1]), ci |-> GainInterval(g),
                  wins  |-> <<Wins(g), Len(g)>>,
                  onCi  |-> GuardVerdict(arm, config.rise),
                  ok    |-> GuardsHold(MeansOf(rows[i + 1]), MeansOf(rows[1]), config.rise)]
  BY <1>1, <1>3 DEF ApplyGuards
<1>5. view[i] = [means |-> MeansOf(file[i + 1]),
                 ci    |-> IF "ciede2000" \in DOMAIN arm THEN arm["ciede2000"].ci ELSE Null,
                 wins  |-> <<Wins(h), Len(h)>>,
                 onCi  |-> GuardVerdict(arm, config.rise),
                 ok    |-> GuardsHold(MeansOf(file[i + 1]), MeansOf(file[1]), config.rise)]
  BY <1>1, <1>3 DEF Derived
<1>6. g = h
  BY <1>2, GainsAgree
<1>7. MeansOf(file[i + 1]) = MeansOf(rows[i + 1]) /\ MeansOf(file[1]) = MeansOf(rows[1])
  BY <1>2, MeansAgree
<1>8. GainInterval(g) = Mirrored(IF "ciede2000" \in DOMAIN arm THEN arm["ciede2000"].ci ELSE Null)
  <2> DEFINE row == rows
             found == file
             m == Len(rows)
  <2>1. /\ m \in Nat \ {0} /\ row \in [1 .. m -> ScoredRow] /\ DOMAIN found = 1 .. m
        /\ \A j \in 1 .. m : found[j] = PerImageOf(row[j])
        /\ i \in 1 .. m - 1
    BY <1>1
  <2> HIDE DEF row, found, m, n, g, h, arm
  <2>2. GainInterval(Gains(row[i + 1], row[1])) =
          Mirrored(IF "ciede2000" \in DOMAIN CompareArms(found, 1)[i]
                   THEN CompareArms(found, 1)[i]["ciede2000"].ci ELSE Null)
    BY <2>1, ArmInterval
  <2> QED
    BY <2>2 DEF row, found, g, arm
<1>9. /\ table[i].onCi = GuardVerdict(arm, config.rise) /\ view[i].onCi = GuardVerdict(arm, config.rise)
      /\ table[i].means = MeansOf(rows[i + 1]) /\ view[i].means = MeansOf(file[i + 1])
      /\ table[i].wins = <<Wins(g), Len(g)>> /\ view[i].wins = <<Wins(h), Len(h)>>
      /\ table[i].ok = GuardsHold(MeansOf(rows[i + 1]), MeansOf(rows[1]), config.rise)
      /\ view[i].ok = GuardsHold(MeansOf(file[i + 1]), MeansOf(file[1]), config.rise)
      /\ table[i].ci = GainInterval(g)
      /\ view[i].ci = IF "ciede2000" \in DOMAIN arm THEN arm["ciede2000"].ci ELSE Null
  <2> HIDE DEF g, h, arm
  <2> QED
    BY <1>4, <1>5
<1>10. table[i].ci = Mirrored(view[i].ci)
  <2> HIDE DEF g, arm
  <2> QED
    BY <1>8, <1>9
<1>11. table[i].ok = GuardsHold(MeansOf(file[i + 1]), MeansOf(file[1]), config.rise)
  BY <1>7, <1>9
<1>12. \A field \in {"means", "wins", "onCi", "ok"} : table[i][field] = view[i][field]
  <2>1. table[i].wins = view[i].wins
    <3> HIDE DEF g, h
    <3> QED
      BY <1>6, <1>9
  <2>2. /\ table[i].onCi = view[i].onCi /\ table[i].means = view[i].means
        /\ table[i].ok = view[i].ok
    BY <1>7, <1>9
  <2> QED
    BY <2>1, <2>2
<1> QED
  BY <1>9, <1>10, <1>11, <1>12

\* What the summary counts are the rows of the table.
LEMMA SummaryAgrees ==
  ASSUME SweepInv, phase = "done"
  PROVE  LET summary == SummarizeInference(file, config.rise) IN
         /\ summary.guardsOk = Cardinality({i \in DOMAIN table : table[i].onCi = "ok"})
         /\ summary.meansOkCiNot =
              Cardinality({i \in DOMAIN table : table[i].ok /\ table[i].onCi # "ok"})
         /\ summary.meansFailCiNot =
              Cardinality({i \in DOMAIN table : ~table[i].ok /\ table[i].onCi # "FAIL"})
         /\ summary.differsHolm <= summary.differs
<1> DEFINE n == Len(rows)
           arms == CompareArms(file, 1)
           OnMeans(i) == GuardsHold(MeansOf(file[i + 1]), MeansOf(file[1]), config.rise)
           OnIntervals(i) == GuardVerdict(arms[i], config.rise)
           Differ(i, field) == "ciede2000" \in DOMAIN arms[i] /\ Below05(arms[i]["ciede2000"][field])
           summary == SummarizeInference(file, config.rise)
           P == {i \in 1 .. n - 1 : Differ(i, "p")}
           H == {i \in 1 .. n - 1 : Differ(i, "pHolm")}
<1>1. n \in Nat \ {0} /\ DOMAIN file = 1 .. n /\ DOMAIN table = 1 .. n - 1 /\ n - 1 \in Nat
  <2>1. n \in Nat \ {0} /\ DOMAIN file = 1 .. n /\ DOMAIN table = 1 .. n - 1
    BY PlacesRead
  <2> QED
    BY <2>1
<1>2. DOMAIN arms = 1 .. n - 1
  <2>1. CASE n = 1
    <3>1. Len(OtherRows(file, 1)) = 0
      <4>1. DOMAIN file \ {1} = (1 .. n) \ {1}
        BY <1>1
      <4>2. Len(InOrder((1 .. n) \ {1})) = n - 1
        <5> HIDE DEF n
        <5> QED
          BY <1>1, OthersAre
      <4>3. OtherRows(file, 1) = InOrder((1 .. n) \ {1})
        BY <4>1 DEF OtherRows
      <4> HIDE DEF n
      <4> QED
        BY <2>1, <4>2, <4>3
    <3> QED
      BY <1>1, <2>1, <3>1 DEF CompareArms
  <2>2. CASE n # 1
    <3>1. 1 \in 1 .. n - 1
      BY <1>1, <2>2
    <3> QED
      BY <1>1, <3>1, ArmsAre
  <2> QED
    BY <2>1, <2>2
<1>3. \A i \in 1 .. n - 1 : table[i].onCi = OnIntervals(i) /\ table[i].ok = OnMeans(i)
  BY RowsRead
<1>4. /\ summary.guardsOk = Cardinality({i \in DOMAIN arms : OnIntervals(i) = "ok"})
      /\ summary.meansOkCiNot = Cardinality({i \in DOMAIN arms : OnMeans(i) /\ OnIntervals(i) # "ok"})
      /\ summary.meansFailCiNot = Cardinality({i \in DOMAIN arms : ~OnMeans(i) /\ OnIntervals(i) # "FAIL"})
      /\ summary.differs = Cardinality({i \in DOMAIN arms : Differ(i, "p")})
      /\ summary.differsHolm = Cardinality({i \in DOMAIN arms : Differ(i, "pHolm")})
  BY DEF SummarizeInference, Tally
<1>5. ASSUME NEW i \in 1 .. n - 1, Differ(i, "pHolm") PROVE Differ(i, "p")
  <2>1. /\ DOMAIN arms[i] = {m \in PairedMetrics : Pair(file, i + 1, m).deltas # <<>>}
        /\ \A key \in DOMAIN arms[i] :
             /\ arms[i][key].p = BootstrapP(Pair(file, i + 1, key).deltas, PResamples, BootstrapSeed)
             /\ arms[i][key].pHolm = Adjusted(file, 1, key, i + 1)
    BY <1>1, ArmsAre
  <2>2. i + 1 \in 2 .. n
    BY <1>1
  <2> HIDE DEF arms, n
  <2>3. /\ "ciede2000" \in DOMAIN arms[i] /\ Pair(file, i + 1, "ciede2000").deltas # <<>>
        /\ Below05(Adjusted(file, 1, "ciede2000", i + 1))
    BY <1>5, <2>1
  <2> DEFINE p == BootstrapP(Pair(file, i + 1, "ciede2000").deltas, PResamples, BootstrapSeed)
  <2>4. /\ p \in Int /\ Adjusted(file, 1, "ciede2000", i + 1) \in Int
        /\ p <= Adjusted(file, 1, "ciede2000", i + 1)
    <3>1. /\ p \in Int /\ Adjusted(file, 1, "ciede2000", i + 1) \in Int
          /\ Adjusted(file, 1, "ciede2000", i + 1) >= p
      BY <1>1, <2>2, <2>3, AdjustedNoLess
    <3> HIDE DEF p
    <3> QED
      BY <3>1
  <2>5. Below05(p)
    <3> HIDE DEF p
    <3> QED
      BY <2>3, <2>4, BelowOrder
  <2> QED
    BY <2>1, <2>3, <2>5
<1> HIDE DEF arms, summary, OnMeans, OnIntervals, Differ
<1>6. Cardinality(H) \in Int /\ Cardinality(P) \in Int /\ Cardinality(H) <= Cardinality(P)
  <2>1. P \in SUBSET (1 .. n - 1) /\ H \in SUBSET P /\ H \in SUBSET (1 .. n - 1)
    BY <1>5
  <2> DEFINE m == n - 1
  <2>2. m \in Nat
    BY <1>1
  <2>3. P \in SUBSET (1 .. m) /\ H \in SUBSET P /\ H \in SUBSET (1 .. m)
    BY <2>1
  <2> HIDE DEF P, H, m
  <2>4. Cardinality(P) \in 0 .. m /\ Cardinality(H) \in 0 .. m
    BY <2>2, <2>3, CountsAre
  <2>5. Cardinality(H) <= Cardinality(P)
    BY <2>2, <2>3, FewerOfSubset
  <2> QED
    BY <2>4, <2>5
<1>7. summary.differs = Cardinality(P) /\ summary.differsHolm = Cardinality(H)
  BY <1>2, <1>4
<1>8. /\ {i \in DOMAIN arms : OnIntervals(i) = "ok"} = {i \in DOMAIN table : table[i].onCi = "ok"}
      /\ {i \in DOMAIN arms : OnMeans(i) /\ OnIntervals(i) # "ok"} =
           {i \in DOMAIN table : table[i].ok /\ table[i].onCi # "ok"}
      /\ {i \in DOMAIN arms : ~OnMeans(i) /\ OnIntervals(i) # "FAIL"} =
           {i \in DOMAIN table : ~table[i].ok /\ table[i].onCi # "FAIL"}
  BY <1>1, <1>2, <1>3
<1> HIDE DEF P, H
<1> QED
  BY <1>4, <1>6, <1>7, <1>8 DEF summary

LEMMA InvReadersAgree == SweepInv => ReadersAgree
<1> SUFFICES ASSUME SweepInv, phase = "done" PROVE ReadersAgree
  BY DEF ReadersAgree
<1>1. Len(view) = Len(table)
  BY PlacesRead
<1>2. ASSUME NEW i \in DOMAIN table
      PROVE  /\ table[i].ci = Mirrored(view[i].ci)
             /\ \A field \in {"means", "wins", "onCi", "ok"} : table[i][field] = view[i][field]
  <2>1. i \in 1 .. Len(rows) - 1
    BY PlacesRead
  <2> QED
    BY <2>1, RowsRead
<1>3. LET summary == SummarizeInference(file, config.rise) IN
      /\ summary.guardsOk = Cardinality({i \in DOMAIN table : table[i].onCi = "ok"})
      /\ summary.meansOkCiNot =
           Cardinality({i \in DOMAIN table : table[i].ok /\ table[i].onCi # "ok"})
      /\ summary.meansFailCiNot =
           Cardinality({i \in DOMAIN table : ~table[i].ok /\ table[i].onCi # "FAIL"})
      /\ summary.differsHolm <= summary.differs
  BY SummaryAgrees
<1>4. IntervalFlips(file) = {i \in 2 .. Len(file) : IntervalFlips(<<file[1], file[i]>>) # {}}
  <2> DEFINE found == file
             n == Len(rows)
  <2>1. n \in Nat \ {0} /\ DOMAIN found = 1 .. n /\ Len(found) = n
    BY PlacesRead
  <2> HIDE DEF found, n
  <2>2. IntervalFlips(found) = {i \in 2 .. n : IntervalFlips(<<found[1], found[i]>>) # {}}
    BY <2>1, FlipsAlone
  <2> QED
    BY <2>1, <2>2 DEF found
<1> QED
  BY <1>1, <1>2, <1>3, <1>4 DEF ReadersAgree

\* What a sweep printed is what its committed result gives again, and what is counted
\* over results, adjusted and asked of other seeds is consistent with it, whatever the
\* scores, the draws and the tolerances (sweep.ts, results.ts, arms-core.ts, arms.ts).
THEOREM ReadersTellTheSame == AnalysisSpec => []ReadersAgree
<1> QED
  BY SweepsKeepTables, InvReadersAgree, PTL

-----------------------------------------------------------------------------
(* Holm's adjustment *)

\* The tests that are not after this one, and those whose p-value is no less than v.
Before(ps, i) == {j \in Tested(ps) : ps[j] < ps[i] \/ (ps[j] = ps[i] /\ j <= i)}
NoLess(ps, v) == {k \in Tested(ps) : ps[k] >= v}

LEMMA TestsAre ==
  ASSUME NEW n \in Nat, NEW one \in Nat, NEW ps \in [1 .. n -> (0 .. one) \cup {Null}]
  PROVE  /\ Tested(ps) \in SUBSET (1 .. n) /\ Cardinality(Tested(ps)) \in 0 .. n
         /\ \A i \in 1 .. n : i \in Tested(ps) <=> ps[i] # Null
         /\ \A i \in Tested(ps) : ps[i] \in 0 .. one /\ i \in Int /\ RankOf(ps, i) \in 0 .. n
         /\ \A i \in Tested(ps) : Before(ps, i) \in SUBSET (1 .. n) /\ i \in Before(ps, i)
<1>1. Tested(ps) = {i \in 1 .. n : ps[i] # Null}
  BY DEF Tested
<1>2. Tested(ps) \in SUBSET (1 .. n)
  BY <1>1
<1>3. Cardinality(Tested(ps)) \in 0 .. n
  BY <1>2, CountsAre
<1>4. \A i \in 1 .. n : i \in Tested(ps) <=> ps[i] # Null
  BY <1>1
<1>5. \A i \in Tested(ps) : ps[i] \in 0 .. one /\ i \in Int
  BY <1>1
<1>6. \A i : Before(ps, i) \in SUBSET (1 .. n) /\ RankOf(ps, i) = Cardinality(Before(ps, i))
  BY <1>2 DEF Before, RankOf
<1>7. \A i : RankOf(ps, i) \in 0 .. n
  BY <1>6, CountsAre
<1>8. \A i \in Tested(ps) : i \in Before(ps, i)
  BY <1>5 DEF Before
<1> QED
  BY <1>2, <1>3, <1>4, <1>5, <1>6, <1>7, <1>8

\* A test has no greater rank than another exactly when it is not after it.
LEMMA RanksOrder ==
  ASSUME NEW n \in Nat, NEW one \in Nat, NEW ps \in [1 .. n -> (0 .. one) \cup {Null}],
         NEW i \in Tested(ps), NEW j \in Tested(ps)
  PROVE  RankOf(ps, j) <= RankOf(ps, i) <=> j \in Before(ps, i)
<1>1. \A k \in Tested(ps) : ps[k] \in Int /\ k \in Int
  BY TestsAre
<1>2. /\ Before(ps, i) \in SUBSET (1 .. n) /\ Before(ps, j) \in SUBSET (1 .. n)
      /\ i \in Before(ps, i) /\ j \in Before(ps, j)
  BY TestsAre
<1>3. RankOf(ps, i) = Cardinality(Before(ps, i)) /\ RankOf(ps, j) = Cardinality(Before(ps, j))
  BY DEF RankOf, Before
<1>4. RankOf(ps, i) \in Int /\ RankOf(ps, j) \in Int
  BY TestsAre
<1>5. CASE j \in Before(ps, i)
  <2>1. ps[j] < ps[i] \/ (ps[j] = ps[i] /\ j <= i)
    BY <1>5 DEF Before
  <2>2. Before(ps, j) \in SUBSET Before(ps, i)
    <3>1. ASSUME NEW k \in Before(ps, j) PROVE k \in Before(ps, i)
      <4>1. k \in Tested(ps) /\ (ps[k] < ps[j] \/ (ps[k] = ps[j] /\ k <= j))
        BY DEF Before
      <4>2. ps[k] < ps[i] \/ (ps[k] = ps[i] /\ k <= i)
        BY <1>1, <2>1, <4>1
      <4> QED
        BY <4>1, <4>2 DEF Before
    <3> QED
      BY <3>1
  <2>3. Cardinality(Before(ps, j)) <= Cardinality(Before(ps, i))
    BY <1>2, <2>2, FewerOfSubset
  <2> QED
    BY <1>3, <1>5, <2>3
<1>6. CASE j \notin Before(ps, i)
  <2>1. ~(ps[j] < ps[i] \/ (ps[j] = ps[i] /\ j <= i))
    BY <1>6 DEF Before
  <2>2. Before(ps, i) \in SUBSET Before(ps, j)
    <3>1. ASSUME NEW k \in Before(ps, i) PROVE k \in Before(ps, j)
      <4>1. k \in Tested(ps) /\ (ps[k] < ps[i] \/ (ps[k] = ps[i] /\ k <= i))
        BY DEF Before
      <4>2. ps[k] < ps[j] \/ (ps[k] = ps[j] /\ k <= j)
        BY <1>1, <2>1, <4>1
      <4> QED
        BY <4>1, <4>2 DEF Before
    <3> QED
      BY <3>1
  <2>3. /\ Cardinality(Before(ps, i)) <= Cardinality(Before(ps, j))
        /\ Cardinality(Before(ps, i)) # Cardinality(Before(ps, j))
    <3>1. Before(ps, i) # Before(ps, j)
      BY <1>2, <1>6
    <3> QED
      BY <1>2, <2>2, <3>1, FewerOfSubset
  <2> QED
    BY <1>3, <1>4, <1>6, <2>3
<1> QED
  BY <1>5, <1>6

\* What a test is multiplied by is no more than the tests whose p-value is no less;
\* and of tests that tie there is one for which it is just that.
LEMMA TimesAre ==
  ASSUME NEW n \in Nat, NEW one \in Nat, NEW ps \in [1 .. n -> (0 .. one) \cup {Null}],
         NEW j \in Tested(ps)
  PROVE  LET m == Cardinality(Tested(ps)) IN
         /\ (m - RankOf(ps, j)) + 1 \in Nat \ {0} /\ Cardinality(NoLess(ps, ps[j])) \in Nat
         /\ (m - RankOf(ps, j)) + 1 <= Cardinality(NoLess(ps, ps[j]))
         /\ (\A k \in Tested(ps) : ps[k] = ps[j] => j <= k) =>
              (m - RankOf(ps, j)) + 1 = Cardinality(NoLess(ps, ps[j]))
<1> DEFINE m == Cardinality(Tested(ps))
           R == Tested(ps) \ Before(ps, j)
           S == R \cup {j}
           L == NoLess(ps, ps[j])
<1>1. /\ Tested(ps) \in SUBSET (1 .. n) /\ Before(ps, j) \in SUBSET (1 .. n) /\ j \in Before(ps, j)
      /\ m \in 0 .. n /\ RankOf(ps, j) \in 0 .. n
  BY TestsAre
<1>2. \A k \in Tested(ps) : ps[k] \in Int /\ k \in Int
  BY TestsAre
<1>3. Before(ps, j) \in SUBSET Tested(ps) /\ RankOf(ps, j) = Cardinality(Before(ps, j))
  BY DEF Before, RankOf
<1>4. L \in SUBSET (1 .. n)
  BY <1>1 DEF NoLess
<1>5. S \in SUBSET L
  <2>1. ASSUME NEW k \in S PROVE k \in L
    <3>1. k \in Tested(ps) /\ (k = j \/ ~(ps[k] < ps[j]))
      BY DEF Before
    <3> QED
      BY <1>2, <3>1 DEF NoLess
  <2> QED
    BY <2>1
<1>6. (\A k \in Tested(ps) : ps[k] = ps[j] => j <= k) => S = L
  <2>1. ASSUME \A k \in Tested(ps) : ps[k] = ps[j] => j <= k, NEW k \in L PROVE k \in S
    <3>1. k \in Tested(ps) /\ ps[k] >= ps[j]
      BY DEF NoLess
    <3>2. CASE k = j
      BY <3>2
    <3>3. CASE k # j
      <4>1. ~(ps[k] < ps[j] \/ (ps[k] = ps[j] /\ k <= j))
        BY <1>2, <2>1, <3>1, <3>3
      <4> QED
        BY <3>1, <4>1 DEF Before
    <3> QED
      BY <3>2, <3>3
  <2> QED
    BY <1>5, <2>1
<1>7. Cardinality(S) = (m - RankOf(ps, j)) + 1
  <2>1. IsFiniteSet(Tested(ps)) /\ IsFiniteSet(Before(ps, j))
    BY <1>1, CountsAre
  <2>2. IsFiniteSet(R) /\ Cardinality(R) = m - Cardinality(Tested(ps) \cap Before(ps, j))
    BY <2>1, FS_Difference
  <2>3. Tested(ps) \cap Before(ps, j) = Before(ps, j)
    BY <1>3
  <2>4. j \notin R
    BY <1>1
  <2> HIDE DEF R, m
  <2>5. Cardinality(S) = Cardinality(R) + 1
    BY <2>2, <2>4, FS_AddElement
  <2> QED
    BY <1>3, <2>2, <2>3, <2>5
<1>8. Cardinality(L) \in 0 .. n /\ Cardinality(S) <= Cardinality(L) /\ Cardinality(S) \in 0 .. n
  <2>1. S \in SUBSET (1 .. n)
    BY <1>4, <1>5
  <2> HIDE DEF S, L
  <2>2. Cardinality(L) \in 0 .. n /\ Cardinality(S) \in 0 .. n
    BY <1>4, <2>1, CountsAre
  <2>3. Cardinality(S) <= Cardinality(L)
    BY <1>4, <1>5, FewerOfSubset
  <2> QED
    BY <2>2, <2>3
<1>9. m - RankOf(ps, j) >= 0
  <2>1. Cardinality(Before(ps, j)) <= m
    BY <1>1, <1>3, FewerOfSubset
  <2> HIDE DEF m
  <2> QED
    BY <1>1, <1>3, <2>1
<1> HIDE DEF m, S, L
<1>10. (m - RankOf(ps, j)) + 1 \in Nat \ {0}
  BY <1>1, <1>9
<1> QED
  BY <1>6, <1>7, <1>8, <1>10 DEF m, L

\* An adjusted p-value is within a level exactly when the products up to it are.
LEMMA HolmWithin ==
  ASSUME NEW n \in Nat, NEW one \in Nat, NEW ps \in [1 .. n -> (0 .. one) \cup {Null}],
         NEW i \in Tested(ps), NEW level \in 0 .. one - 1
  PROVE  Holm(ps, one)[i] <= level <=>
           \A j \in Before(ps, i) :
             ((Cardinality(Tested(ps)) - RankOf(ps, j)) + 1) * ps[j] <= level
<1> DEFINE m == Cardinality(Tested(ps))
           Product(j) == ((m - RankOf(ps, j)) + 1) * ps[j]
           B == Before(ps, i)
           V == {Stepped(ps, one, j) : j \in B}
<1>1. /\ Tested(ps) \in SUBSET (1 .. n) /\ B \in SUBSET (1 .. n) /\ i \in B
      /\ i \in 1 .. n /\ ps[i] # Null /\ B \in SUBSET Tested(ps)
  <2>1. B \in SUBSET Tested(ps)
    BY DEF Before
  <2> QED
    BY <2>1, TestsAre
<1>2. Holm(ps, one)[i] = Max(V)
  <2>1. {k \in Tested(ps) : RankOf(ps, k) <= RankOf(ps, i)} = B
    BY <1>1, RanksOrder
  <2>2. Holm(ps, one)[i] =
          Max({Stepped(ps, one, j) : j \in {k \in Tested(ps) : RankOf(ps, k) <= RankOf(ps, i)}})
    BY <1>1 DEF Holm
  <2> QED
    BY <2>1, <2>2
<1>3. \A j \in Tested(ps) : Product(j) \in Int /\ Stepped(ps, one, j) = Least(one, Product(j))
  <2>1. ASSUME NEW j \in Tested(ps)
        PROVE  Product(j) \in Int /\ Stepped(ps, one, j) = Least(one, Product(j))
    <3>1. (m - RankOf(ps, j)) + 1 \in Nat \ {0}
      BY TimesAre
    <3>2. ps[j] \in Int
      BY TestsAre
    <3>3. Stepped(ps, one, j) = Least(one, Product(j))
      BY DEF Stepped
    <3> HIDE DEF m
    <3> QED
      BY <3>1, <3>2, <3>3
  <2> QED
    BY <2>1
<1> HIDE DEF Product, m
<1>4. \A j \in Tested(ps) :
        /\ Stepped(ps, one, j) \in Int
        /\ Stepped(ps, one, j) <= level <=> Product(j) <= level
  BY <1>3 DEF Least
<1> DEFINE f == [j \in 1 .. n |-> IF j \in B THEN Stepped(ps, one, j) ELSE 0]
<1>5. f \in [1 .. n -> Int]
  BY <1>1, <1>4
<1>6. \A j \in B : f[j] = Stepped(ps, one, j)
  BY <1>1
<1> HIDE DEF f, B
<1>7. PICK j \in B : \A k \in B : f[k] <= f[j]
  BY <1>1, <1>5, GreatestOf
<1>8. Max(V) \in V /\ \A y \in V : Max(V) >= y
  <2>1. Stepped(ps, one, j) \in V
    OBVIOUS
  <2>2. ASSUME NEW y \in V PROVE Stepped(ps, one, j) >= y
    <3>1. PICK k \in B : y = Stepped(ps, one, k)
      OBVIOUS
    <3> QED
      BY <1>1, <1>4, <1>6, <1>7, <3>1
  <2>3. \E x \in V : \A y \in V : x >= y
    BY <2>1, <2>2
  <2> QED
    BY <2>3 DEF Max
<1>9. Max(V) <= level <=> \A k \in B : Stepped(ps, one, k) <= level
  <2>1. \A k \in B : Stepped(ps, one, k) \in V /\ Stepped(ps, one, k) \in Int
    BY <1>1, <1>4
  <2>2. PICK k \in B : Max(V) = Stepped(ps, one, k)
    BY <1>8
  <2>3. \A y \in B : Max(V) >= Stepped(ps, one, y)
    BY <1>8, <2>1
  <2> HIDE DEF V
  <2> QED
    BY <2>1, <2>2, <2>3
<1>10. Max(V) <= level <=> \A k \in B : Product(k) <= level
  BY <1>1, <1>4, <1>9
<1> QED
  BY <1>2, <1>10 DEF Product, m, B

\* Of tests that tie with one, the first.
LEMMA FirstOfTies ==
  ASSUME NEW n \in Nat, NEW one \in Nat, NEW ps \in [1 .. n -> (0 .. one) \cup {Null}],
         NEW j \in Tested(ps)
  PROVE  \E k \in Tested(ps) : /\ ps[k] = ps[j] /\ k <= j
                               /\ \A o \in Tested(ps) : ps[o] = ps[k] => k <= o
<1> DEFINE L == {k \in Tested(ps) : ps[k] = ps[j]}
           f == [k \in 1 .. n |-> k]
<1>1. L \in SUBSET (1 .. n) /\ L # {} /\ f \in [1 .. n -> Int]
  BY TestsAre
<1>2. \A k \in L : f[k] = k
  BY <1>1
<1> HIDE DEF f
<1>3. PICK k \in L : \A o \in L : f[k] <= f[o]
  <2> HIDE DEF L
  <2> QED
    BY <1>1, LeastOf
<1>4. \A o \in L : k <= o
  BY <1>2, <1>3
<1> QED
  BY <1>4

\* Holm's adjustment is the step-down test (stats.ts, holm), whatever the p-values,
\* how many there are, which tie and which are no number: a test is rejected at a
\* level exactly when no p-value up to its own, times the tests whose p-value is no
\* less, is above the level.
THEOREM HolmStepsDown ==
  ASSUME NEW n \in Nat, NEW one \in Nat, NEW ps \in [1 .. n -> (0 .. one) \cup {Null}]
  PROVE  StepsDown(ps, one)
<1> DEFINE m == Cardinality(Tested(ps))
           Times(j) == (m - RankOf(ps, j)) + 1
           Others(j) == Cardinality(NoLess(ps, ps[j]))
           Bounded(v, level) == Cardinality({k \in Tested(ps) : ps[k] >= v}) * v <= level
<1>1. \A j \in Tested(ps) : /\ Times(j) \in Nat \ {0} /\ Others(j) \in Nat /\ Times(j) <= Others(j)
                            /\ ps[j] \in 0 .. one /\ j \in Int
  BY TimesAre, TestsAre
<1>2. ASSUME NEW i \in 1 .. n, ps[i] = Null PROVE Holm(ps, one)[i] = Null
  BY <1>2 DEF Holm
<1>3. ASSUME NEW i \in 1 .. n, ps[i] # Null, NEW level \in 0 .. one - 1
      PROVE  Holm(ps, one)[i] <= level <=>
               (\A j \in Tested(ps) : ps[j] <= ps[i] => Bounded(ps[j], level))
  <2>1. i \in Tested(ps)
    BY <1>3, TestsAre
  <2>2. Holm(ps, one)[i] <= level <=> \A j \in Before(ps, i) : Times(j) * ps[j] <= level
    BY <2>1, HolmWithin
  <2>3. \A j : Bounded(ps[j], level) <=> Others(j) * ps[j] <= level
    BY DEF NoLess
  <2>4. ASSUME \A j \in Tested(ps) : ps[j] <= ps[i] => Others(j) * ps[j] <= level,
               NEW j \in Before(ps, i)
        PROVE  Times(j) * ps[j] <= level
    <3>1. j \in Tested(ps) /\ (ps[j] < ps[i] \/ ps[j] = ps[i])
      BY DEF Before
    <3>2. ps[j] <= ps[i]
      BY <1>1, <2>1, <3>1
    <3> HIDE DEF Times, Others
    <3>3. Others(j) * ps[j] <= level
      BY <2>4, <3>1, <3>2
    <3>4. ps[j] * Times(j) <= ps[j] * Others(j)
      BY <1>1, <3>1, ScaledOrder
    <3>5. ps[j] \in Int /\ Times(j) \in Int /\ Others(j) \in Int
      BY <1>1, <3>1
    <3>6. ps[j] * Times(j) = Times(j) * ps[j] /\ ps[j] * Others(j) = Others(j) * ps[j]
      BY <3>5
    <3>7. Times(j) * ps[j] \in Int /\ Others(j) * ps[j] \in Int
      BY <3>5
    <3> QED
      BY <3>3, <3>4, <3>6, <3>7
  <2>5. ASSUME \A j \in Before(ps, i) : Times(j) * ps[j] <= level,
               NEW j \in Tested(ps), ps[j] <= ps[i]
        PROVE  Others(j) * ps[j] <= level
    <3>1. PICK k \in Tested(ps) : /\ ps[k] = ps[j] /\ k <= j
                                  /\ \A o \in Tested(ps) : ps[o] = ps[k] => k <= o
      BY FirstOfTies
    <3>2. Times(k) = Others(k) /\ Others(k) = Others(j)
      BY <3>1, TimesAre
    <3>3. ps[k] < ps[i] \/ (ps[k] = ps[i] /\ k <= i)
      <4> HIDE DEF Times, Others
      <4> QED
        BY <1>1, <2>1, <2>5, <3>1
    <3>4. k \in Before(ps, i)
      BY <3>3 DEF Before
    <3> HIDE DEF Times, Others
    <3> QED
      BY <2>5, <3>1, <3>2, <3>4
  <2> HIDE DEF Bounded, Times, Others
  <2>6. (\A j \in Before(ps, i) : Times(j) * ps[j] <= level) <=>
          (\A j \in Tested(ps) : ps[j] <= ps[i] => Others(j) * ps[j] <= level)
    BY ONLY <2>4, <2>5
  <2> QED
    BY ONLY <2>2, <2>3, <2>6
<1>4. DOMAIN ps = 1 .. n
  OBVIOUS
<1>5. ASSUME NEW i \in DOMAIN ps
      PROVE  IF ps[i] = Null THEN Holm(ps, one)[i] = Null
             ELSE \A level \in 0 .. one - 1 :
                    Holm(ps, one)[i] <= level <=>
                      (\A j \in Tested(ps) : ps[j] <= ps[i] => Bounded(ps[j], level))
  <2>1. i \in 1 .. n
    BY <1>4
  <2> HIDE DEF Bounded
  <2>2. CASE ps[i] = Null
    BY <1>2, <2>1, <2>2
  <2>3. CASE ps[i] # Null
    BY <1>3, <2>1, <2>3
  <2> QED
    BY <2>2, <2>3
<1> QED
  BY ONLY <1>5 DEF StepsDown

-----------------------------------------------------------------------------
(* An interval and a p-value of the same resamples *)

LEMMA KthIncreases ==
  ASSUME NEW n \in Nat, NEW f \in [1 .. n -> Int], NEW k \in 1 .. n, k + 1 \in 1 .. n,
         NEW v \in Int, NEW w \in Int, IsKth(f, k, v), IsKth(f, k + 1, w)
  PROVE  v <= w
<1>1. SUFFICES ASSUME w < v PROVE FALSE
  OBVIOUS
<1>2. Upto(f, w) \in SUBSET Under(f, v) /\ Under(f, v) \in SUBSET (1 .. n)
  BY <1>1 DEF Upto, Under
<1>3. Cardinality(Upto(f, w)) <= Cardinality(Under(f, v))
  BY <1>2, FewerOfSubset
<1>4. Cardinality(Upto(f, w)) \in 0 .. n /\ Cardinality(Under(f, v)) \in 0 .. n
  <2>1. Upto(f, w) \in SUBSET (1 .. n)
    BY <1>2
  <2> QED
    BY <1>2, <2>1, CountsAre
<1>5. Cardinality(Under(f, v)) < k
  BY DEF IsKth, Under
<1>6. k + 1 <= Cardinality(Upto(f, w))
  BY DEF IsKth, Upto
<1> QED
  BY <1>3, <1>4, <1>5, <1>6

\* The k-th least of some numbers is above zero exactly when fewer than k are not.
LEMMA KthAboveZero ==
  ASSUME NEW n \in Nat, NEW f \in [1 .. n -> Int], NEW k \in 1 .. n, NEW v \in Int, IsKth(f, k, v)
  PROVE  v > 0 <=> Cardinality(Upto(f, 0)) < k
<1>1. /\ Upto(f, 0) \in SUBSET (1 .. n) /\ Upto(f, v) \in SUBSET (1 .. n)
      /\ Under(f, v) \in SUBSET (1 .. n)
  BY DEF Upto, Under
<1>2. /\ Cardinality(Upto(f, 0)) \in 0 .. n /\ Cardinality(Upto(f, v)) \in 0 .. n
      /\ Cardinality(Under(f, v)) \in 0 .. n
  BY <1>1, CountsAre
<1>3. Cardinality(Under(f, v)) < k
  BY DEF IsKth, Under
<1>4. k <= Cardinality(Upto(f, v))
  BY DEF IsKth, Upto
<1>5. CASE v > 0
  <2>1. Upto(f, 0) \in SUBSET Under(f, v)
    BY <1>5 DEF Upto, Under
  <2>2. Cardinality(Upto(f, 0)) <= Cardinality(Under(f, v))
    BY <1>1, <2>1, FewerOfSubset
  <2> QED
    BY <1>2, <1>3, <1>5, <2>2
<1>6. CASE ~(v > 0)
  <2>1. Upto(f, v) \in SUBSET Upto(f, 0)
    BY <1>6 DEF Upto
  <2>2. Cardinality(Upto(f, v)) <= Cardinality(Upto(f, 0))
    BY <1>1, <2>1, FewerOfSubset
  <2> QED
    BY <1>2, <1>4, <1>6, <2>2
<1> QED
  BY <1>5, <1>6

\* Between two numbers, the first no more than the second.
LEMMA BetweenIs ==
  ASSUME NEW d \in Nat \ {0}, NEW r \in 0 .. d - 1, NEW a \in Int, NEW b \in Int, a <= b
  PROVE  /\ d * a + r * (b - a) \in Int
         /\ a > 0 => d * a + r * (b - a) > 0
         /\ b <= 0 => d * a + r * (b - a) <= 0
<1>1. b - a \in Nat /\ d \in Nat /\ r \in Nat /\ r <= d
  OBVIOUS
<1>2. d * a \in Int /\ r * (b - a) \in Int /\ d * a + r * (b - a) \in Int
  BY <1>1
<1>3. r * (b - a) >= 0
  <2>1. r * 0 <= r * (b - a)
    BY <1>1, ScaledOrder
  <2> QED
    BY <1>1, <1>2, <2>1
<1>4. ASSUME a > 0 PROVE d * a > 0
  <2>1. d * 1 <= d * a
    BY <1>4, ScaledOrder
  <2> QED
    BY <1>2, <2>1
<1>5. ASSUME b <= 0 PROVE d * a + r * (b - a) <= 0
  <2>1. (b - a) * r <= (b - a) * d
    BY <1>1, ScaledOrder
  <2>2. (b - a) * r = r * (b - a) /\ (b - a) * d = d * b - d * a
    BY <1>1
  <2>3. d * b <= d * 0
    BY <1>1, <1>5, ScaledOrder
  <2>4. d * b \in Int /\ d * 0 = 0
    OBVIOUS
  <2> QED
    BY <1>2, <2>1, <2>2, <2>3, <2>4
<1> QED
  BY <1>2, <1>3, <1>4, <1>5

\* Where few enough of the numbers are not above zero their interval is above it, and
\* where it is, no more than one number too many is not.
LEMMA LowerEndIs ==
  ASSUME NEW n \in Nat \ {0}, NEW f \in [1 .. n -> Int]
  PROVE  LET le == Cardinality(Upto(f, 0))
             q == (n - 1) \div Cut IN
         /\ le \in 0 .. n /\ q \in Nat /\ IntervalOf(f)[1] \in Int
         /\ le <= q => IntervalOf(f)[1] > 0
         /\ IntervalOf(f)[1] > 0 => le <= q + 1
<1> DEFINE le == Cardinality(Upto(f, 0))
           pos == 1 * (n - 1)
           q == pos \div Cut
           r == pos % Cut
           s == Ascending(f)
           lower == IntervalOf(f)[1]
<1>1. Cut \in Nat \ {0} /\ 1 \in 0 .. Cut /\ pos = n - 1
  BY DrawsAssumption
<1>2. /\ q \in Nat /\ r \in 0 .. Cut - 1 /\ 1 + q \in 1 .. n
      /\ r # 0 => (1 + q) + 1 \in 1 .. n
  BY <1>1, PlacesAre
<1>3. le \in 0 .. n
  <2>1. Upto(f, 0) \in SUBSET (1 .. n)
    BY DEF Upto
  <2> QED
    BY <2>1, CountsAre
<1>4. s \in [1 .. n -> Int] /\ Len(s) = n /\ \A k \in 1 .. n : IsKth(f, k, s[k])
  BY AscendingIs
<1>5. lower = Cut * s[1 + q] + (IF r = 0 THEN 0 ELSE r * (s[(1 + q) + 1] - s[1 + q]))
  <2>1. lower = Quantile(s, 1, Cut)
    BY DEF IntervalOf
  <2> HIDE DEF s
  <2> QED
    BY <1>4, <2>1 DEF Quantile
<1> HIDE DEF le, q, r, s, lower, pos
<1>6. s[1 + q] \in Int /\ (s[1 + q] > 0 <=> le < 1 + q)
  <2>1. s[1 + q] \in Int /\ IsKth(f, 1 + q, s[1 + q])
    BY <1>2, <1>4
  <2> QED
    BY <1>2, <2>1, KthAboveZero DEF le
<1>7. lower \in Int /\ (le <= q => lower > 0) /\ (lower > 0 => le <= q + 1)
  <2>1. CASE r = 0
    <3>1. lower = Cut * s[1 + q] + 0
      BY <1>5, <2>1
    <3>2. 0 \in 0 .. Cut - 1 /\ s[1 + q] <= s[1 + q]
      BY <1>1, <1>6
    <3>3. Cut * s[1 + q] + 0 * (s[1 + q] - s[1 + q]) = Cut * s[1 + q] + 0
      BY <1>1, <1>6
    <3>4. /\ lower \in Int /\ (s[1 + q] > 0 => lower > 0) /\ (s[1 + q] <= 0 => lower <= 0)
      BY <1>1, <1>6, <3>1, <3>2, <3>3, BetweenIs
    <3> QED
      BY <1>2, <1>3, <1>6, <3>4
  <2>2. CASE r # 0
    <3>1. (1 + q) + 1 \in 1 .. n
      BY <1>2, <2>2
    <3>2. s[(1 + q) + 1] \in Int /\ IsKth(f, (1 + q) + 1, s[(1 + q) + 1])
      BY <1>4, <3>1
    <3>3. s[(1 + q) + 1] > 0 <=> le < (1 + q) + 1
      BY <3>1, <3>2, KthAboveZero DEF le
    <3>4. s[1 + q] <= s[(1 + q) + 1]
      BY <1>2, <1>4, <1>6, <3>1, <3>2, KthIncreases
    <3>5. lower = Cut * s[1 + q] + r * (s[(1 + q) + 1] - s[1 + q])
      BY <1>5, <2>2
    <3>6. /\ lower \in Int /\ (s[1 + q] > 0 => lower > 0) /\ (s[(1 + q) + 1] <= 0 => lower <= 0)
      BY <1>1, <1>2, <1>6, <3>2, <3>4, <3>5, BetweenIs
    <3> QED
      BY <1>2, <1>3, <1>6, <3>2, <3>3, <3>6
  <2> QED
    BY <2>1, <2>2
<1>8. q = (n - 1) \div Cut
  BY <1>1 DEF q
<1> QED
  BY <1>2, <1>3, <1>7, <1>8 DEF le, lower

\* A p-value that is within alpha counts few enough.
LEMMA FewAre ==
  ASSUME NEW n \in Nat \ {0}, NEW d \in Nat \ {0, 1, 2}, NEW c \in 0 .. n,
         Least(n + 1, 2 * (c + 1)) * d <= 2 * (n + 1)
  PROVE  c <= (n - 1) \div d
<1> DEFINE q == (n - 1) \div d
           r == (n - 1) % d
<1>1. q \in Nat /\ r \in 0 .. d - 1 /\ n - 1 = d * q + r
  <2>1. n - 1 \in Nat /\ d \in Nat \ {0}
    OBVIOUS
  <2> QED
    BY ONLY <2>1, Divides DEF q, r
<1>2. (c + 1) * d <= n + 1
  <2>1. CASE n + 1 < 2 * (c + 1)
    <3>1. Least(n + 1, 2 * (c + 1)) = n + 1
      BY <2>1 DEF Least
    <3>2. (n + 1) * 3 <= (n + 1) * d
      BY ScaledOrder
    <3>3. (n + 1) * d \in Int /\ (n + 1) * d <= 2 * (n + 1)
      BY <3>1
    <3>4. (n + 1) * 3 <= 2 * (n + 1)
      BY <3>2, <3>3
    <3> QED
      BY <3>4
  <2>2. CASE ~(n + 1 < 2 * (c + 1))
    <3>1. Least(n + 1, 2 * (c + 1)) = 2 * (c + 1)
      BY <2>2 DEF Least
    <3>2. (2 * (c + 1)) * d <= 2 * (n + 1)
      BY <3>1
    <3>3. (2 * (c + 1)) * d = 2 * ((c + 1) * d) /\ (c + 1) * d \in Int
      OBVIOUS
    <3> QED
      BY <3>2, <3>3
  <2> QED
    BY <2>1, <2>2
<1>3. (c + 1) * d = d * c + d /\ d * c \in Int
  OBVIOUS
<1>4. d * c <= d * q + r
  BY <1>1, <1>2, <1>3
<1>5. SUFFICES ASSUME c >= q + 1 PROVE FALSE
  BY <1>1
<1>6. d * (q + 1) <= d * c
  BY <1>1, <1>5, ScaledOrder
<1>7. d * (q + 1) = d * q + d /\ d * q \in Int
  BY <1>1
<1> QED
  BY <1>1, <1>3, <1>4, <1>6, <1>7

\* The p-value and the interval of a sample are one test, whatever the differences
\* and the draws (stats.ts, bootstrapP and bootstrapCI): where the p-value is within
\* alpha the interval leaves zero out, and where the interval does the p-value is at
\* most one resample more. Alpha is less than one.
THEOREM IntervalAndPAgree ==
  ASSUME NEW seed \in Seeds, NEW m \in 1 .. ImageCount, NEW values \in [1 .. m -> Int], Cut > 2
  PROVE  OneTest(values, seed)
<1> DEFINE n == Resamples
           f == ResampledStatistics(values, n, seed)
           g == [r \in 1 .. n |-> 0 - f[r]]
           le == Cardinality(Upto(f, 0))
           ge == Cardinality(Upto(g, 0))
           q == (n - 1) \div Cut
           p == BootstrapP(values, n, seed)
           ci == BootstrapCI(values, seed)
<1>1. n \in Nat \ {0} /\ n \in SampleSizes /\ Cut \in Nat \ {0, 1, 2}
  BY DrawsAssumption DEF SampleSizes
<1>2. f \in [1 .. n -> Int]
  <2> HIDE DEF n
  <2> QED
    BY <1>1, ResampledIs
<1>3. g \in [1 .. n -> Int] /\ Opposite(f, g, n)
  <2> HIDE DEF f, n
  <2> QED
    BY <1>2 DEF Opposite
<1>4. ci = IntervalOf(f)
  BY DEF BootstrapCI
<1>5. p = Least(n + 1, 2 * (Least(le, ge) + 1))
  <2>1. Upto(f, 0) = {r \in 1 .. n : f[r] <= 0}
    <3> HIDE DEF f, n
    <3> QED
      BY <1>2 DEF Upto
  <2>2. Upto(g, 0) = {r \in 1 .. n : f[r] >= 0}
    <3> HIDE DEF f, n
    <3> QED
      BY <1>2 DEF Upto
  <2> QED
    BY <2>1, <2>2 DEF BootstrapP
<1> HIDE DEF f, g, n, p, ci
<1>6. /\ le \in 0 .. n /\ q \in Nat /\ IntervalOf(f)[1] \in Int
      /\ le <= q => IntervalOf(f)[1] > 0
      /\ IntervalOf(f)[1] > 0 => le <= q + 1
  BY <1>1, <1>2, LowerEndIs
<1>7. /\ ge \in 0 .. n /\ IntervalOf(g)[1] \in Int
      /\ ge <= q => IntervalOf(g)[1] > 0
      /\ IntervalOf(g)[1] > 0 => ge <= q + 1
  BY <1>1, <1>3, LowerEndIs
<1>8. IntervalOf(f)[2] \in Int /\ (IntervalOf(g)[1] > 0 <=> IntervalOf(f)[2] < 0)
  <2>1. /\ IntervalOf(f) \in Int \X Int
        /\ IntervalOf(g) = <<0 - IntervalOf(f)[2], 0 - IntervalOf(f)[1]>>
    BY <1>1, <1>2, <1>3, IntervalMirrored
  <2>2. IntervalOf(f)[2] \in Int /\ IntervalOf(g)[1] = 0 - IntervalOf(f)[2]
    BY ONLY <2>1
  <2> QED
    BY <2>2
<1>9. ExcludesZero(ci) <=> IntervalOf(f)[1] > 0 \/ IntervalOf(g)[1] > 0
  BY <1>4, <1>8 DEF ExcludesZero
<1> HIDE DEF le, ge, q
<1>10. ASSUME p * Cut <= 2 * (n + 1) PROVE ExcludesZero(ci)
  <2> DEFINE c == Least(le, ge)
  <2>1. c \in 0 .. n /\ (c = le \/ c = ge)
    BY <1>6, <1>7 DEF Least
  <2> HIDE DEF c
  <2>2. Least(n + 1, 2 * (c + 1)) * Cut <= 2 * (n + 1)
    BY <1>5, <1>10 DEF c
  <2>3. c <= q
    BY <1>1, <2>1, <2>2, FewAre DEF q
  <2> QED
    BY <1>6, <1>7, <1>9, <2>1, <2>3
<1>11. ASSUME ExcludesZero(ci) PROVE p <= 2 * (q + 2)
  <2>1. Least(le, ge) \in Int /\ Least(le, ge) <= q + 1
    BY <1>6, <1>7, <1>9, <1>11 DEF Least
  <2> DEFINE c == Least(le, ge)
  <2> HIDE DEF c
  <2>2. c \in Int /\ c <= q + 1 /\ n + 1 \in Int /\ q \in Int
    BY <1>1, <1>6, <2>1 DEF c
  <2>3. p = Least(n + 1, 2 * (c + 1))
    BY <1>5 DEF c
  <2>4. p <= 2 * (c + 1)
    BY <2>2, <2>3 DEF Least
  <2>5. p \in Int
    BY <2>2, <2>3 DEF Least
  <2> QED
    BY <2>2, <2>4, <2>5
<1> QED
  BY <1>10, <1>11 DEF OneTest, p, ci, n, q

-----------------------------------------------------------------------------
(* The sliding extremes of a line *)

\* The deque after an index, by the one before it.
Slid(deque, line, r, extreme, j) == {k \in Pushed(deque, line, j, extreme) : k >= j - 2 * r}

\* What a deque is for: of the window that ends at j, nothing beats all that is in it,
\* and what comes later in it does not beat what comes before.
Leading(deque, line, r, extreme, n, j) ==
  /\ deque \in SUBSET (1 .. n)
  /\ \A k \in deque : j - 2 * r <= k /\ k <= j
  /\ \A k, l \in deque : k < l => ~Beats(line[l], line[k], extreme)
  /\ \A i \in 1 .. n : (j - 2 * r <= i /\ i <= j) =>
       \E k \in deque : i <= k /\ Beats(line[k], line[i], extreme)

LEMMA BeatsOrder ==
  ASSUME NEW extreme, NEW a \in Int, NEW b \in Int, NEW c \in Int
  PROVE  /\ Beats(a, a, extreme)
         /\ Beats(a, b, extreme) /\ Beats(b, c, extreme) => Beats(a, c, extreme)
         /\ ~Beats(a, b, extreme) => Beats(b, a, extreme)
<1>1. CASE extreme = "min"
  <2>1. \A x, y \in Int : Beats(x, y, extreme) <=> x <= y
    BY <1>1 DEF Beats
  <2> QED
    BY <2>1
<1>2. CASE extreme # "min"
  <2>1. \A x, y \in Int : Beats(x, y, extreme) <=> x >= y
    BY <1>2 DEF Beats
  <2> QED
    BY <2>1
<1> QED
  BY <1>1, <1>2

LEMMA LeadingKept ==
  ASSUME NEW n \in Nat, NEW line \in [1 .. n -> Int], NEW r \in Nat, NEW extreme,
         NEW j \in 1 .. n + r, NEW deque, Leading(deque, line, r, extreme, n, j - 1)
  PROVE  Leading(Slid(deque, line, r, extreme, j), line, r, extreme, n, j)
<1> DEFINE pushed == Pushed(deque, line, j, extreme)
           slid == Slid(deque, line, r, extreme, j)
<1>1. /\ deque \in SUBSET (1 .. n)
      /\ \A k \in deque : (j - 1) - 2 * r <= k /\ k <= j - 1
      /\ \A k, l \in deque : k < l => ~Beats(line[l], line[k], extreme)
      /\ \A i \in 1 .. n : ((j - 1) - 2 * r <= i /\ i <= j - 1) =>
           \E k \in deque : i <= k /\ Beats(line[k], line[i], extreme)
  BY DEF Leading
<1>2. Len(line) = n /\ j \in Int /\ r \in Int /\ n \in Int
  BY ListedIs
<1>3. \A i \in 1 .. n : line[i] \in Int /\ i \in Int
  OBVIOUS
<1>4. slid = {k \in pushed : k >= j - 2 * r}
  BY DEF Slid
<1>5. CASE j > n
  <2>1. pushed = deque
    BY <1>2, <1>5 DEF Pushed
  <2> HIDE DEF pushed, slid
  <2>2. slid \in SUBSET (1 .. n) /\ \A k \in slid : j - 2 * r <= k /\ k <= j
    <3>1. ASSUME NEW k \in slid PROVE k \in 1 .. n /\ j - 2 * r <= k /\ k <= j
      <4>1. k \in deque /\ k >= j - 2 * r
        BY <1>4, <2>1
      <4>2. k \in 1 .. n /\ k <= j - 1
        BY <1>1, <4>1
      <4> QED
        BY <1>2, <4>1, <4>2
    <3> QED
      BY <3>1
  <2>3. \A k, l \in slid : k < l => ~Beats(line[l], line[k], extreme)
    BY <1>1, <1>4, <2>1
  <2>4. ASSUME NEW i \in 1 .. n, j - 2 * r <= i, i <= j
        PROVE  \E k \in slid : i <= k /\ Beats(line[k], line[i], extreme)
    <3>1. (j - 1) - 2 * r <= i /\ i <= j - 1
      BY <1>2, <1>5, <2>4
    <3>2. PICK k \in deque : i <= k /\ Beats(line[k], line[i], extreme)
      BY <1>1, <3>1
    <3>3. k >= j - 2 * r
      BY <1>1, <1>2, <2>4, <3>2
    <3> QED
      BY <1>4, <2>1, <3>2, <3>3
  <2> QED
    BY <2>2, <2>3, <2>4 DEF Leading, slid
<1>6. CASE j <= n
  <2>1. pushed = {k \in deque : \E l \in deque : l >= k /\ ~Beats(line[j], line[l], extreme)} \cup {j}
    BY <1>2, <1>6 DEF Pushed
  <2>2. j \in 1 .. n /\ j >= j - 2 * r
    BY <1>2, <1>6
  <2> HIDE DEF pushed, slid
  <2>3. slid \in SUBSET (1 .. n) /\ \A k \in slid : j - 2 * r <= k /\ k <= j
    <3>1. ASSUME NEW k \in slid PROVE k \in 1 .. n /\ j - 2 * r <= k /\ k <= j
      <4>1. (k \in deque \/ k = j) /\ k >= j - 2 * r
        BY <1>4, <2>1
      <4>2. k \in 1 .. n /\ k <= j
        <5>1. CASE k = j
          BY <1>2, <2>2, <5>1
        <5>2. CASE k \in deque
          <6>1. k \in 1 .. n /\ k <= j - 1
            BY <1>1, <5>2
          <6> QED
            BY <1>2, <6>1
        <5> QED
          BY <4>1, <5>1, <5>2
      <4> QED
        BY <1>2, <4>1, <4>2
    <3> QED
      BY <3>1
  <2>4. j \in slid
    BY <1>4, <2>1, <2>2
  <2>5. ASSUME NEW k \in slid, NEW l \in slid, k < l
        PROVE  ~Beats(line[l], line[k], extreme)
    <3>1. k \in 1 .. n /\ l \in 1 .. n /\ l <= j
      BY <2>3
    <3>2. k \in deque /\ \E o \in deque : o >= k /\ ~Beats(line[j], line[o], extreme)
      BY <1>2, <1>4, <2>1, <2>5, <3>1
    <3>3. CASE l \in deque
      BY <1>1, <2>5, <3>2, <3>3
    <3>4. CASE l = j
      <4>1. PICK o \in deque : o >= k /\ ~Beats(line[j], line[o], extreme)
        BY <3>2
      <4>2. o \in 1 .. n
        BY <1>1
      <4>3. CASE o = k
        BY <3>4, <4>1, <4>3
      <4>4. CASE o # k
        <5>1. k < o
          BY <3>1, <4>1, <4>2, <4>4
        <5>2. ~Beats(line[o], line[k], extreme)
          BY <1>1, <3>2, <5>1
        <5>3. SUFFICES ASSUME Beats(line[j], line[k], extreme) PROVE FALSE
          BY <3>4
        <5>4. line[j] \in Int /\ line[k] \in Int /\ line[o] \in Int
          BY <1>3, <2>2, <3>1, <4>2
        <5>5. Beats(line[k], line[o], extreme)
          BY <5>2, <5>4, BeatsOrder
        <5>6. Beats(line[j], line[o], extreme)
          BY <5>3, <5>4, <5>5, BeatsOrder
        <5> QED
          BY <4>1, <5>6
      <4> QED
        BY <4>3, <4>4
    <3>5. l \in deque \/ l = j
      BY <1>4, <2>1
    <3> QED
      BY <3>3, <3>4, <3>5
  <2>6. ASSUME NEW i \in 1 .. n, j - 2 * r <= i, i <= j
        PROVE  \E k \in slid : i <= k /\ Beats(line[k], line[i], extreme)
    <3>1. CASE i = j
      BY <1>3, <2>2, <2>4, <3>1, BeatsOrder
    <3>2. CASE i # j
      <4>1. (j - 1) - 2 * r <= i /\ i <= j - 1
        BY <1>2, <2>6, <3>2
      <4>2. PICK k \in deque : i <= k /\ Beats(line[k], line[i], extreme)
        BY <1>1, <4>1
      <4>3. k \in 1 .. n /\ k >= j - 2 * r
        BY <1>1, <1>2, <2>6, <4>2
      <4>4. CASE k \in pushed
        BY <1>4, <4>2, <4>3, <4>4
      <4>5. CASE k \notin pushed
        <5>1. \A l \in deque : l >= k => Beats(line[j], line[l], extreme)
          BY <2>1, <4>5
        <5>2. Beats(line[j], line[k], extreme)
          BY <4>3, <5>1
        <5>3. Beats(line[j], line[i], extreme)
          <6>1. line[j] \in Int /\ line[k] \in Int /\ line[i] \in Int
            BY <1>3, <2>2, <4>3
          <6> QED
            BY <4>2, <5>2, <6>1, BeatsOrder
        <5> QED
          BY <2>4, <2>6, <5>3
      <4> QED
        BY <4>4, <4>5
    <3> QED
      BY <3>1, <3>2
  <2> QED
    BY <2>3, <2>5, <2>6 DEF Leading, slid
<1> QED
  BY <1>2, <1>5, <1>6

\* The deques of a line, up to an index.
Deques(s, line, r, extreme, m) ==
  /\ s \in [0 .. m -> SUBSET Nat] /\ s[0] = {}
  /\ \A j \in 1 .. m : s[j] = Slid(s[j - 1], line, r, extreme, j)

LEMMA DequesExist ==
  ASSUME NEW n \in Nat, NEW line \in [1 .. n -> Int], NEW r \in Nat, NEW extreme, NEW m \in Nat
  PROVE  \E s : Deques(s, line, r, extreme, m)
<1> DEFINE T == {k \in 0 .. m : ~ \E s : Deques(s, line, r, extreme, k)}
<1>1. SUFFICES ASSUME T # {} PROVE FALSE
  <2>1. m \in 0 .. m
    OBVIOUS
  <2> QED
    BY <2>1
<1>2. PICK o \in T : \A k \in T : o <= k
  BY <1>1, LeastNumber, T \in SUBSET Nat
<1>3. CASE o = 0
  <2>1. Deques([k \in 0 .. 0 |-> {}], line, r, extreme, 0)
    BY DEF Deques
  <2> QED
    BY <1>2, <1>3, <2>1
<1>4. CASE o # 0
  <2>1. o - 1 \in 0 .. m /\ o - 1 \notin T
    BY <1>2, <1>4
  <2>2. PICK s : Deques(s, line, r, extreme, o - 1)
    BY <2>1
  <2> DEFINE last == Slid(s[o - 1], line, r, extreme, o)
             t == [k \in 0 .. o |-> IF k < o THEN s[k] ELSE last]
  <2>3. o \in 1 .. m /\ o - 1 \in 0 .. o - 1
    BY <1>4
  <2>4. last \in SUBSET Nat
    <3>1. s[o - 1] \in SUBSET Nat
      BY <2>2, <2>3 DEF Deques
    <3>2. Pushed(s[o - 1], line, o, extreme) \in SUBSET Nat
      BY <2>3, <3>1 DEF Pushed
    <3> QED
      BY <3>2 DEF Slid
  <2> HIDE DEF last
  <2>5. t \in [0 .. o -> SUBSET Nat] /\ t[0] = {}
    BY <2>2, <2>3, <2>4 DEF Deques
  <2>6. \A k \in 1 .. o : t[k] = Slid(t[k - 1], line, r, extreme, k)
    <3>1. ASSUME NEW k \in 1 .. o PROVE t[k] = Slid(t[k - 1], line, r, extreme, k)
      <4>1. t[k - 1] = s[k - 1]
        BY <2>3
      <4>2. CASE k = o
        BY <2>3, <4>1, <4>2 DEF last
      <4>3. CASE k # o
        <5>1. k \in 1 .. o - 1 /\ t[k] = s[k]
          BY <2>3, <4>3
        <5> QED
          BY <2>2, <4>1, <5>1 DEF Deques
      <4> QED
        BY <4>2, <4>3
    <3> QED
      BY <3>1
  <2>7. Deques(t, line, r, extreme, o)
    BY <2>5, <2>6 DEF Deques
  <2> QED
    BY <1>2, <2>7
<1> QED
  BY <1>3, <1>4

\* What is read for an index is of its window, and nothing in the window beats it.
Bounds(out, line, r, extreme, n) ==
  /\ out \in [1 .. n -> Int]
  /\ \A i \in 1 .. n :
       /\ \E k \in 1 .. n : out[i] = line[k]
       /\ \A k \in 1 .. n : (i - r <= k /\ k <= i + r) => Beats(out[i], line[k], extreme)

LEMMA SlidingIs ==
  ASSUME NEW n \in Nat, NEW line \in [1 .. n -> Int], NEW r \in Nat, NEW extreme
  PROVE  Bounds(Sliding(line, r, extreme), line, r, extreme, n)
<1> DEFINE Body(s) == [j \in 0 .. n + r |-> IF j = 0 THEN {}
                         ELSE {k \in Pushed(s[j - 1], line, j, extreme) : k >= j - 2 * r}]
           u == CHOOSE s : s = Body(s)
<1>1. Len(line) = n
  BY ListedIs
<1>2. Sliding(line, r, extreme) = [i \in 1 .. n |-> line[Min(u[i + r])]]
  BY <1>1 DEF Sliding
<1>3. PICK s : Deques(s, line, r, extreme, n + r)
  <2>1. n + r \in Nat
    OBVIOUS
  <2> QED
    BY <2>1, DequesExist
<1>4. s = Body(s)
  <2>1. s \in [0 .. n + r -> SUBSET Nat] /\ s[0] = {}
    BY <1>3 DEF Deques
  <2>2. \A j \in 0 .. n + r : s[j] = Body(s)[j]
    <3>1. ASSUME NEW j \in 0 .. n + r PROVE s[j] = Body(s)[j]
      <4>1. CASE j = 0
        BY <2>1, <4>1
      <4>2. CASE j # 0
        <5>1. j \in 1 .. n + r
          BY <4>2
        <5>2. s[j] = Slid(s[j - 1], line, r, extreme, j)
          BY <1>3, <5>1 DEF Deques
        <5> QED
          BY <4>2, <5>2 DEF Slid
      <4> QED
        BY <4>1, <4>2
    <3> QED
      BY <3>1
  <2> QED
    BY <2>1, <2>2
<1>5. u = Body(u)
  BY <1>4
<1> HIDE DEF u
<1>6. Leading({}, line, r, extreme, n, 0)
  BY DEF Leading
<1> DEFINE T == {j \in 0 .. n + r : ~Leading(u[j], line, r, extreme, n, j)}
<1>7. T = {}
  <2>1. SUFFICES ASSUME T # {} PROVE FALSE
    OBVIOUS
  <2>2. PICK o \in T : \A k \in T : o <= k
    BY <2>1, LeastNumber, T \in SUBSET Nat
  <2>3. o # 0
    <3>1. u[0] = {}
      BY <1>5
    <3> QED
      BY <1>6, <2>2, <3>1
  <2>4. o \in 1 .. n + r /\ o - 1 \in 0 .. n + r /\ o - 1 \notin T
    BY <2>2, <2>3
  <2>5. u[o] = Slid(u[o - 1], line, r, extreme, o)
    <3>1. o \in 0 .. n + r /\ o # 0
      BY <2>3
    <3> QED
      BY <1>5, <3>1 DEF Slid
  <2>6. Leading(u[o - 1], line, r, extreme, n, o - 1)
    BY <2>4
  <2>7. Leading(u[o], line, r, extreme, n, o)
    BY <2>4, <2>5, <2>6, LeadingKept
  <2> QED
    BY <2>2, <2>7
<1>8. ASSUME NEW i \in 1 .. n
      PROVE  /\ Sliding(line, r, extreme)[i] \in Int
             /\ \E k \in 1 .. n : Sliding(line, r, extreme)[i] = line[k]
             /\ \A k \in 1 .. n : (i - r <= k /\ k <= i + r) =>
                  Beats(Sliding(line, r, extreme)[i], line[k], extreme)
  <2> DEFINE D == u[i + r]
             head == Min(D)
  <2>1. i + r \in 0 .. n + r
    OBVIOUS
  <2>2. Leading(D, line, r, extreme, n, i + r)
    BY <1>7, <2>1
  <2> HIDE DEF D
  <2>3. /\ D \in SUBSET (1 .. n)
        /\ \A k, l \in D : k < l => ~Beats(line[l], line[k], extreme)
        /\ \A k \in 1 .. n : ((i + r) - 2 * r <= k /\ k <= i + r) =>
             \E l \in D : k <= l /\ Beats(line[l], line[k], extreme)
    BY <2>2 DEF Leading
  <2>4. (i + r) - 2 * r = i - r /\ i - r <= i /\ i <= i + r
    OBVIOUS
  <2>5. D # {}
    BY <2>3, <2>4
  <2>6. head \in D /\ \A k \in D : head <= k
    <3>1. \E k \in D : \A l \in D : k <= l
      BY <2>3, <2>5, LeastNumber, D \in SUBSET Nat
    <3> QED
      BY <3>1 DEF Min
  <2> HIDE DEF head
  <2>7. Sliding(line, r, extreme)[i] = line[head]
    BY <1>2 DEF head, D
  <2>8. head \in 1 .. n /\ line[head] \in Int
    BY <2>3, <2>6
  <2>9. ASSUME NEW k \in 1 .. n, i - r <= k, k <= i + r
        PROVE  Beats(line[head], line[k], extreme)
    <3>1. PICK l \in D : k <= l /\ Beats(line[l], line[k], extreme)
      BY <2>3, <2>4, <2>9
    <3>2. l \in 1 .. n /\ line[l] \in Int /\ line[k] \in Int
      BY <2>3
    <3>3. Beats(line[head], line[l], extreme)
      <4>1. CASE l = head
        BY <2>8, <4>1, BeatsOrder
      <4>2. CASE l # head
        <5>1. head < l
          BY <2>6, <2>8, <3>2, <4>2
        <5>2. ~Beats(line[l], line[head], extreme)
          BY <2>3, <2>6, <5>1
        <5> QED
          BY <2>8, <3>2, <5>2, BeatsOrder
      <4> QED
        BY <4>1, <4>2
    <3> QED
      BY <2>8, <3>1, <3>2, <3>3, BeatsOrder
  <2> QED
    BY <2>7, <2>8, <2>9
<1> QED
  BY <1>2, <1>8 DEF Bounds

-----------------------------------------------------------------------------
(* The envelope of a plane *)

\* The planes of w by h pixels.
Rasters(w, h) == [1 .. h -> [1 .. w -> Int]]

LEMMA PlaneIs ==
  ASSUME NEW w \in Nat \ {0}, NEW h \in Nat \ {0}, NEW plane \in Rasters(w, h)
  PROVE  /\ Height(plane) = h /\ Width(plane) = w
         /\ DOMAIN plane = 1 .. h
         /\ \A y \in 1 .. h : plane[y] \in [1 .. w -> Int] /\ Len(plane[y]) = w /\ DOMAIN plane[y] = 1 .. w
         /\ \A y \in 1 .. h, x \in 1 .. w : plane[y][x] \in Int
         /\ Transposed(plane) = [x \in 1 .. w |-> [y \in 1 .. h |-> plane[y][x]]]
<1>1. Len(plane) = h
  <2>1. plane \in [1 .. h -> [1 .. w -> Int]]
    BY DEF Rasters
  <2> QED
    BY <2>1, ListedIs
<1>2. \A y \in 1 .. h : plane[y] \in [1 .. w -> Int]
  BY DEF Rasters
<1>3. \A y \in 1 .. h : Len(plane[y]) = w
  BY <1>2, ListedIs
<1>4. 1 \in 1 .. h
  OBVIOUS
<1>5. DOMAIN plane = 1 .. h
  BY DEF Rasters
<1> QED
  BY <1>1, <1>2, <1>3, <1>4, <1>5 DEF Height, Width, Transposed

LEMMA TransposedIs ==
  ASSUME NEW w \in Nat \ {0}, NEW h \in Nat \ {0}, NEW plane \in Rasters(w, h)
  PROVE  Transposed(plane) = [x \in 1 .. w |-> [y \in 1 .. h |-> plane[y][x]]]
BY PlaneIs

\* The extremes along the rows, and of those along the columns.
ByRows(plane, r, extreme) == [y \in 1 .. Height(plane) |-> Sliding(plane[y], r, extreme)]
Extremes(plane, r, extreme) ==
  LET lines == ByRows(plane, r, extreme) IN
  Transposed([x \in 1 .. Width(plane) |-> Sliding(Transposed(lines)[x], r, extreme)])

LEMMA EnvelopeIs ==
  ASSUME NEW plane, NEW r
  PROVE  Envelope(plane, r) = [min |-> Extremes(plane, r, "min"), max |-> Extremes(plane, r, "max")]
BY DEF Envelope, Extremes, ByRows

\* The extreme about a pixel is a value of the plane, and no pixel that is no more than
\* the radius away along either axis beats it.
Encloses(found, plane, w, h, r, extreme) ==
  \A y \in 1 .. h, x \in 1 .. w :
    /\ \E j \in 1 .. h, i \in 1 .. w : found[y][x] = plane[j][i]
    /\ \A j \in 1 .. h, i \in 1 .. w :
         (y - r <= j /\ j <= y + r /\ x - r <= i /\ i <= x + r) =>
           Beats(found[y][x], plane[j][i], extreme)

LEMMA ExtremesAre ==
  ASSUME NEW w \in Nat \ {0}, NEW h \in Nat \ {0}, NEW plane \in Rasters(w, h),
         NEW r \in Nat, NEW extreme
  PROVE  /\ Extremes(plane, r, extreme) \in Rasters(w, h)
         /\ Encloses(Extremes(plane, r, extreme), plane, w, h, r, extreme)
<1> DEFINE lines == ByRows(plane, r, extreme)
           columns == [x \in 1 .. w |-> [y \in 1 .. h |-> lines[y][x]]]
           slid == [x \in 1 .. w |-> Sliding(columns[x], r, extreme)]
           found == Extremes(plane, r, extreme)
<1>1. lines = [y \in 1 .. h |-> Sliding(plane[y], r, extreme)]
  <2>1. Height(plane) = h
    BY PlaneIs
  <2> QED
    BY <2>1 DEF ByRows
<1> HIDE DEF lines
<1>2. \A y \in 1 .. h : Bounds(lines[y], plane[y], r, extreme, w)
  <2>1. ASSUME NEW y \in 1 .. h PROVE Bounds(lines[y], plane[y], r, extreme, w)
    <3>1. plane[y] \in [1 .. w -> Int] /\ w \in Nat
      BY PlaneIs
    <3>2. lines[y] = Sliding(plane[y], r, extreme)
      BY <1>1
    <3> QED
      BY <3>1, <3>2, SlidingIs
  <2> QED
    BY <2>1
<1>3. lines \in Rasters(w, h)
  <2>1. DOMAIN lines = 1 .. h /\ lines = [y \in 1 .. h |-> lines[y]]
    BY <1>1
  <2>2. \A y \in 1 .. h : lines[y] \in [1 .. w -> Int]
    BY <1>2 DEF Bounds
  <2> QED
    BY <2>1, <2>2 DEF Rasters
<1>4. Transposed(lines) = columns
  BY <1>3, TransposedIs
<1>5. \A x \in 1 .. w : /\ columns[x] \in [1 .. h -> Int]
                        /\ \A y \in 1 .. h : columns[x][y] = lines[y][x]
  BY <1>3 DEF Rasters
<1> HIDE DEF columns
<1>6. \A x \in 1 .. w : Bounds(slid[x], columns[x], r, extreme, h)
  <2>1. ASSUME NEW x \in 1 .. w PROVE Bounds(slid[x], columns[x], r, extreme, h)
    <3>1. columns[x] \in [1 .. h -> Int] /\ h \in Nat
      BY <1>5
    <3>2. slid[x] = Sliding(columns[x], r, extreme)
      OBVIOUS
    <3> QED
      BY <3>1, <3>2, SlidingIs
  <2> QED
    BY <2>1
<1>7. slid \in Rasters(h, w)
  BY <1>6 DEF Bounds, Rasters
<1>8. found = Transposed(slid)
  <2>1. Width(plane) = w
    BY PlaneIs
  <2>2. found = Transposed([x \in 1 .. Width(plane) |-> Sliding(Transposed(lines)[x], r, extreme)])
    BY DEF Extremes, lines
  <2> QED
    BY <1>4, <2>1, <2>2
<1> HIDE DEF slid, found
<1>9. found = [y \in 1 .. h |-> [x \in 1 .. w |-> slid[x][y]]]
  <2>1. slid \in Rasters(h, w) /\ h \in Nat \ {0} /\ w \in Nat \ {0}
    BY <1>7
  <2>2. Transposed(slid) = [y \in 1 .. h |-> [x \in 1 .. w |-> slid[x][y]]]
    BY ONLY <2>1, TransposedIs
  <2> QED
    BY <1>8, <2>2
<1>10. found \in Rasters(w, h)
  BY <1>7, <1>9 DEF Rasters
<1>11. ASSUME NEW y \in 1 .. h, NEW x \in 1 .. w
       PROVE  /\ \E j \in 1 .. h, i \in 1 .. w : found[y][x] = plane[j][i]
              /\ \A j \in 1 .. h, i \in 1 .. w :
                   (y - r <= j /\ j <= y + r /\ x - r <= i /\ i <= x + r) =>
                     Beats(found[y][x], plane[j][i], extreme)
  <2>1. found[y][x] = slid[x][y] /\ slid[x][y] \in Int
    BY <1>7, <1>9 DEF Rasters
  <2>2. Bounds(slid[x], columns[x], r, extreme, h)
    BY <1>6
  <2>3. \E j \in 1 .. h, i \in 1 .. w : found[y][x] = plane[j][i]
    <3>1. PICK j \in 1 .. h : slid[x][y] = columns[x][j]
      BY <2>2 DEF Bounds
    <3>2. columns[x][j] = lines[j][x] /\ Bounds(lines[j], plane[j], r, extreme, w)
      BY <1>2, <1>5
    <3>3. PICK i \in 1 .. w : lines[j][x] = plane[j][i]
      BY <3>2 DEF Bounds
    <3> QED
      BY <2>1, <3>1, <3>2, <3>3
  <2>4. ASSUME NEW j \in 1 .. h, NEW i \in 1 .. w,
               y - r <= j, j <= y + r, x - r <= i, i <= x + r
        PROVE  Beats(found[y][x], plane[j][i], extreme)
    <3>1. columns[x][j] = lines[j][x] /\ Bounds(lines[j], plane[j], r, extreme, w)
      BY <1>2, <1>5
    <3>2. Beats(slid[x][y], lines[j][x], extreme)
      BY <2>2, <2>4, <3>1 DEF Bounds
    <3>3. Beats(lines[j][x], plane[j][i], extreme)
      BY <2>4, <3>1 DEF Bounds
    <3>4. lines[j][x] \in Int /\ plane[j][i] \in Int
      BY <1>3 DEF Rasters
    <3> QED
      BY <2>1, <3>2, <3>3, <3>4, BeatsOrder
  <2> QED
    BY <2>3, <2>4
<1> QED
  BY <1>10, <1>11 DEF found, Encloses

-----------------------------------------------------------------------------
(* What a window holds *)

\* The decoded sample that a pixel shows, and how far a window reaches, of m pixels
\* shown by n samples.
ShownAt(i, n, m) == 1 + Least(n - 1, ((2 * i - 1) * n) \div (2 * m))
WindowReach(m, n) == (WindowSamples * m + n - 1) \div n

LEMMA ShownIs ==
  ASSUME NEW m \in Nat \ {0}, NEW n \in Nat \ {0}, NEW i \in 1 .. m
  PROVE  LET s == ShownAt(i, n, m) IN
         /\ s \in 1 .. n
         /\ 2 * (m * (s - 1)) <= 2 * (n * i) - n
         /\ 2 * (n * i) - n < 2 * (m * (s - 1)) + 2 * m
<1> DEFINE x == (2 * i - 1) * n
           d == 2 * m
           q == x \div d
<1>1. x \in Nat /\ d \in Nat \ {0} /\ x = 2 * (n * i) - n
  OBVIOUS
<1>2. q \in Nat /\ x % d \in 0 .. d - 1 /\ x = d * q + (x % d)
  <2> HIDE DEF x, d
  <2> QED
    BY <1>1, Divides
<1>3. d * q = 2 * (m * q) /\ m * q \in Int /\ n * i \in Int
  <2> HIDE DEF q, x
  <2> QED
    BY <1>2
<1> HIDE DEF q, x
<1>4. 2 * (m * q) <= x /\ x < 2 * (m * q) + 2 * m
  BY <1>1, <1>2, <1>3
<1>5. q <= n - 1
  <2>1. SUFFICES ASSUME q >= n PROVE FALSE
    BY <1>2
  <2>2. m * n <= m * q
    BY <1>2, <2>1, ScaledOrder
  <2>3. n * i <= n * m
    BY ScaledOrder
  <2>4. m * n = n * m /\ n * m \in Int
    OBVIOUS
  <2> QED
    BY <1>1, <1>3, <1>4, <2>2, <2>3, <2>4
<1>6. ShownAt(i, n, m) = 1 + Least(n - 1, q)
  BY DEF ShownAt, q, x
<1>7. ShownAt(i, n, m) = 1 + q
  <2>1. Least(n - 1, q) = q
    BY <1>2, <1>5 DEF Least
  <2> QED
    BY <1>6, <2>1
<1>8. (1 + q) - 1 = q
  BY <1>2
<1> QED
  BY <1>1, <1>2, <1>4, <1>5, <1>7, <1>8

\* The pixels that a sample averages are no further from one that shows it than a
\* window reaches.
LEMMA BoxReached ==
  ASSUME NEW m \in Nat \ {0}, NEW n \in Nat \ {0}, NEW i \in 1 .. m,
         NEW k \in Box(ShownAt(i, n, m), n, m)
  PROVE  /\ k \in 1 .. m /\ WindowReach(m, n) \in Nat
         /\ i - WindowReach(m, n) <= k /\ k <= i + WindowReach(m, n)
<1> DEFINE s == ShownAt(i, n, m)
           a == (s - 1) * m
           b == s * m
           lo == a \div n
           hi == b \div n
           c == WindowSamples * m + n - 1
           R == c \div n
<1>1. /\ s \in 1 .. n /\ 2 * (m * (s - 1)) <= 2 * (n * i) - n
      /\ 2 * (n * i) - n < 2 * (m * (s - 1)) + 2 * m
  BY ShownIs
<1> HIDE DEF s
<1>2. /\ a \in Nat /\ a = m * (s - 1) /\ b \in Nat /\ b = a + m
      /\ c \in Nat /\ c = (2 * m + n) - 1
  BY <1>1 DEF WindowSamples
<1> HIDE DEF a, b, c
<1>3. lo \in Nat /\ a % n \in 0 .. n - 1 /\ a = n * lo + (a % n)
  BY <1>2, Divides
<1>4. hi \in Nat /\ b % n \in 0 .. n - 1 /\ b = n * hi + (b % n)
  BY <1>2, Divides
<1>5. R \in Nat /\ c % n \in 0 .. n - 1 /\ c = n * R + (c % n)
  BY <1>2, Divides
<1> HIDE DEF lo, hi, R
<1>6. k \in Int /\ lo + 1 <= k /\ (k <= lo + 1 \/ k <= hi)
  <2>1. k \in lo + 1 .. Greatest(lo + 1, hi)
    BY DEF Box, lo, hi, a, b, s
  <2> QED
    BY <1>3, <1>4, <2>1 DEF Greatest
<1>7. n * lo \in Int /\ n * hi \in Int /\ n * R \in Int /\ n * k \in Int /\ n * i \in Int
  BY <1>3, <1>4, <1>5, <1>6
<1>8. n * k >= n * lo + n /\ (n * k <= n * lo + n \/ n * k <= n * hi)
  <2>1. n * (lo + 1) <= n * k
    BY <1>3, <1>6, ScaledOrder
  <2>2. n * (lo + 1) = n * lo + n
    BY <1>3
  <2>3. CASE k <= lo + 1
    <3>1. n * k <= n * (lo + 1)
      BY <1>3, <1>6, <2>3, ScaledOrder
    <3> QED
      BY <2>1, <2>2, <3>1
  <2>4. CASE k <= hi
    <3>1. n * k <= n * hi
      BY <1>4, <1>6, <2>4, ScaledOrder
    <3> QED
      BY <2>1, <2>2, <3>1
  <2> QED
    BY <1>6, <2>3, <2>4
<1>9. n * R >= 2 * m
  BY <1>2, <1>5, <1>7
<1>10. n * k > a /\ (n * k <= a + n \/ n * k <= a + m)
  BY <1>2, <1>3, <1>4, <1>7, <1>8
<1>11. 2 * a <= 2 * (n * i) - n /\ 2 * (n * i) - n < 2 * a + 2 * m
  BY <1>1, <1>2
<1>12. i - R <= k
  <2>1. SUFFICES ASSUME k + R + 1 <= i PROVE FALSE
    BY <1>5, <1>6
  <2>2. n * (k + R + 1) <= n * i
    BY <1>5, <1>6, <2>1, ScaledOrder
  <2>3. n * (k + R + 1) = n * k + n * R + n
    BY <1>5, <1>6
  <2> QED
    BY <1>2, <1>7, <1>9, <1>10, <1>11, <2>2, <2>3
<1>13. k <= i + R
  <2>1. SUFFICES ASSUME i + R + 1 <= k PROVE FALSE
    BY <1>5, <1>6
  <2>2. n * (i + R + 1) <= n * k
    BY <1>5, <1>6, <2>1, ScaledOrder
  <2>3. n * (i + R + 1) = n * i + n * R + n
    BY <1>5
  <2> QED
    BY <1>2, <1>7, <1>9, <1>10, <1>11, <2>2, <2>3
<1>14. k \in 1 .. m
  <2>1. k >= 1
    BY <1>3, <1>6
  <2>2. SUFFICES ASSUME m + 1 <= k PROVE FALSE
    BY <1>6, <2>1
  <2>3. n * (m + 1) <= n * k
    BY <1>6, <2>2, ScaledOrder
  <2>4. n * (m + 1) = n * m + n /\ n * m \in Int
    OBVIOUS
  <2>5. m * (s - 1) <= m * (n - 1)
    BY <1>1, ScaledOrder
  <2>6. m * (n - 1) = n * m - m
    OBVIOUS
  <2> QED
    BY <1>2, <1>7, <1>10, <2>3, <2>4, <2>5, <2>6
<1>15. R = WindowReach(m, n)
  BY DEF R, c, WindowReach
<1> QED
  BY <1>5, <1>12, <1>13, <1>14, <1>15

-----------------------------------------------------------------------------
(* The error that is smooth about a pixel *)

LEMMA SumOfSame ==
  ASSUME NEW n \in Nat, NEW d \in Int, NEW f \in [1 .. n -> Int], \A i \in 1 .. n : f[i] = d
  PROVE  Sum(f) = n * d
<1> DEFINE s == [k \in 0 .. n |-> k * d]
<1>1. Partial(s, f, n)
  <2>1. s \in [0 .. n -> Int] /\ s[0] = 0
    OBVIOUS
  <2>2. ASSUME NEW k \in 1 .. n PROVE s[k] = f[k] + s[k - 1]
    <3>1. k - 1 \in 0 .. n /\ k \in 0 .. n /\ f[k] = d
      OBVIOUS
    <3>2. s[k] = k * d /\ s[k - 1] = (k - 1) * d
      BY <3>1
    <3>3. k * d = d + (k - 1) * d
      OBVIOUS
    <3> QED
      BY <3>1, <3>2, <3>3
  <2> QED
    BY <2>1, <2>2 DEF Partial
<1>2. Sum(f) = s[n]
  <2> HIDE DEF s
  <2> QED
    BY <1>1, SumIs
<1> QED
  BY <1>2

\* The pixels of an axis that are no more than the radius away.
Near(i, r) == Greatest(1, i - r)
Far(i, r, n) == Least(n, i + r)

LEMMA CutIs ==
  ASSUME NEW line \in Seq(Int), NEW a \in Int, NEW b \in Int
  PROVE  SubSeq(line, a, b) = [i \in 1 .. b - a + 1 |-> line[a + i - 1]]
<1>1. \A i \in 1 .. b - a + 1 : i + a - 1 = a + i - 1
  OBVIOUS
<1>2. SubSeq(line, a, b) = [i \in 1 .. b - a + 1 |-> line[i + a - 1]]
  OBVIOUS
<1> QED
  BY <1>1, <1>2

LEMMA NearIs ==
  ASSUME NEW n \in Nat \ {0}, NEW i \in 1 .. n, NEW r \in Nat
  PROVE  /\ Near(i, r) \in 1 .. n /\ Far(i, r, n) \in 1 .. n
         /\ (Far(i, r, n) - Near(i, r)) + 1 \in Nat \ {0}
BY DEF Near, Far, Greatest, Least

\* The sum over the window, and its size.
WindowSum(plane, x, y, r, w, h) ==
  Sum([j \in 1 .. Far(y, r, h) - Near(y, r) + 1 |->
         Sum(SubSeq(plane[Near(y, r) + j - 1], Near(x, r), Far(x, r, w)))])
WindowSize(x, y, r, w, h) ==
  (Far(y, r, h) - Near(y, r) + 1) * (Far(x, r, w) - Near(x, r) + 1)

\* The plane that is off by one amount everywhere.
OffBy(plane, w, h, d) == \A y \in 1 .. h, x \in 1 .. w : plane[y][x] = d

LEMMA WindowsAre ==
  ASSUME NEW w \in Nat \ {0}, NEW h \in Nat \ {0}, NEW plane \in Rasters(w, h),
         NEW r \in Nat, NEW x \in 1 .. w, NEW y \in 1 .. h
  PROVE  /\ WindowSize(x, y, r, w, h) \in Nat \ {0}
         /\ WindowSum(plane, x, y, r, w, h) \in Int
         /\ \A d \in Int : OffBy(plane, w, h, d) =>
              WindowSum(plane, x, y, r, w, h) = WindowSize(x, y, r, w, h) * d
<1> DEFINE a == Near(x, r)
           b == Far(x, r, w)
           c == Near(y, r)
           n == b - a + 1
           m == Far(y, r, h) - c + 1
           Part(j) == SubSeq(plane[c + j - 1], a, b)
           sums == [j \in 1 .. m |-> Sum(Part(j))]
<1>1. /\ a \in 1 .. w /\ b \in 1 .. w /\ n \in Nat \ {0}
      /\ c \in 1 .. h /\ Far(y, r, h) \in 1 .. h /\ m \in Nat \ {0}
  BY NearIs
<1>2. \A j \in 1 .. m : c + j - 1 \in 1 .. h
  <2>1. ASSUME NEW j \in 1 .. m PROVE c + j - 1 \in 1 .. h
    <3> DEFINE f == Far(y, r, h)
    <3>1. f \in 1 .. h /\ c \in 1 .. h /\ j \in Int /\ 1 <= j /\ j <= f - c + 1
      BY <1>1
    <3> HIDE DEF c, f, m
    <3> QED
      BY ONLY h \in Nat \ {0}, <3>1
  <2> QED
    BY <2>1
<1>3. WindowSize(x, y, r, w, h) = m * n
  BY DEF WindowSize
<1>4. WindowSum(plane, x, y, r, w, h) = Sum(sums)
  BY DEF WindowSum
<1> HIDE DEF a, b, c, m
<1>5. ASSUME NEW j \in 1 .. m
      PROVE  /\ Part(j) \in [1 .. n -> Int]
             /\ \A i \in 1 .. n : \E k \in 1 .. w : Part(j)[i] = plane[c + j - 1][k]
  <2> DEFINE line == plane[c + j - 1]
  <2>1. line \in [1 .. w -> Int] /\ line \in Seq(Int)
    <3>1. line \in [1 .. w -> Int]
      BY <1>2, PlaneIs
    <3> HIDE DEF line
    <3> QED
      BY <3>1, ListedIs
  <2> HIDE DEF line
  <2>2. Part(j) = [i \in 1 .. n |-> line[a + i - 1]]
    <3>1. Part(j) = SubSeq(line, a, b)
      BY DEF line
    <3>2. SubSeq(line, a, b) = [i \in 1 .. b - a + 1 |-> line[a + i - 1]]
      <4>1. line \in Seq(Int) /\ a \in Int /\ b \in Int
        BY <1>1, <2>1
      <4> QED
        BY ONLY <4>1, CutIs
    <3> QED
      BY <3>1, <3>2
  <2>3. \A i \in 1 .. n : a + i - 1 \in 1 .. w
    BY <1>1
  <2> HIDE DEF Part, n
  <2>4. \A i \in 1 .. n : line[a + i - 1] \in Int
    BY <2>1, <2>3
  <2> QED
    BY <2>2, <2>3, <2>4 DEF line
<1> HIDE DEF Part, n
<1>6. sums \in [1 .. m -> Int]
  BY <1>1, <1>5, SumType
<1>7. Sum(sums) \in Int
  <2> HIDE DEF sums
  <2> QED
    BY <1>1, <1>6, SumType
<1>8. ASSUME NEW d \in Int, OffBy(plane, w, h, d)
      PROVE  Sum(sums) = (m * n) * d
  <2>1. ASSUME NEW j \in 1 .. m PROVE sums[j] = n * d
    <3>1. \A i \in 1 .. n : Part(j)[i] = d
      BY <1>2, <1>5, <1>8 DEF OffBy
    <3>2. Part(j) \in [1 .. n -> Int] /\ n \in Nat
      BY <1>1, <1>5
    <3>3. Sum(Part(j)) = n * d
      BY <3>1, <3>2, SumOfSame
    <3> QED
      BY <3>3
  <2>2. n * d \in Int /\ m \in Nat
    BY <1>1
  <2> HIDE DEF sums
  <2>3. Sum(sums) = m * (n * d)
    BY <1>6, <2>1, <2>2, SumOfSame
  <2>4. m * (n * d) = (m * n) * d
    BY <1>1
  <2> QED
    BY <2>3, <2>4
<1>9. m * n \in Nat \ {0}
  <2>1. n * 1 <= n * m
    BY <1>1, ScaledOrder
  <2>2. n * m = m * n /\ m * n \in Int
    BY <1>1
  <2> QED
    BY <1>1, <2>1, <2>2
<1> QED
  BY <1>3, <1>4, <1>7, <1>8, <1>9

LEMMA BoxMeanIs ==
  ASSUME NEW w \in Nat \ {0}, NEW h \in Nat \ {0}, NEW plane \in Rasters(w, h),
         NEW r \in Nat, NEW x \in 1 .. w, NEW y \in 1 .. h
  PROVE  BoxMean(plane, r)[y][x] =
           [sum |-> WindowSum(plane, x, y, r, w, h), size |-> WindowSize(x, y, r, w, h)]
<1>1. Height(plane) = h /\ Width(plane) = w
  BY PlaneIs
<1> QED
  BY <1>1 DEF BoxMean, WindowSum, WindowSize, Near, Far

-----------------------------------------------------------------------------
(* Ringing *)

\* What a pixel is charged with.
Charged(v, least, most, smooth, size) ==
  LET over == size * (v - most - DeadZone)
      under == size * (least - v - DeadZone) IN
  IF Least(over, over - smooth) > 0 THEN Least(over, over - smooth)
  ELSE Greatest(0, Least(under, under + smooth))

LEMMA ChargedNothing ==
  ASSUME NEW v \in Int, NEW least \in Int, NEW most \in Int, NEW smooth \in Int, NEW size \in Nat \ {0},
         \/ least <= v /\ v <= most
         \/ least = most /\ smooth = size * (v - most)
  PROVE  Charged(v, least, most, smooth, size) = 0
<1> DEFINE over == size * (v - most - DeadZone)
           under == size * (least - v - DeadZone)
<1>1. over \in Int /\ under \in Int
  BY DEF DeadZone
<1>2. CASE least <= v /\ v <= most
  <2>1. over <= 0 /\ under <= 0
    <3>1. size * (v - most - DeadZone) <= size * 0 /\ size * (least - v - DeadZone) <= size * 0
      BY <1>2, ScaledOrder DEF DeadZone
    <3> QED
      BY <1>1, <3>1
  <2>2. Charged(v, least, most, smooth, size) =
          IF Least(over, over - smooth) > 0 THEN Least(over, over - smooth)
          ELSE Greatest(0, Least(under, under + smooth))
    BY DEF Charged
  <2> HIDE DEF over, under
  <2> QED
    BY <1>1, <2>1, <2>2 DEF Least, Greatest
<1>3. CASE least = most /\ smooth = size * (v - most)
  <2>1. over - smooth = 0 - size /\ under + smooth = 0 - size
    BY <1>3 DEF DeadZone
  <2>2. Charged(v, least, most, smooth, size) =
          IF Least(over, over - smooth) > 0 THEN Least(over, over - smooth)
          ELSE Greatest(0, Least(under, under + smooth))
    BY DEF Charged
  <2> HIDE DEF over, under
  <2> QED
    BY <1>1, <2>1, <2>2 DEF Least, Greatest
<1> QED
  BY <1>2, <1>3

\* Each pixel shows the decoded sample that it lies in.
Shows(shown, dec, refW, refH, decW, decH) ==
  \A y \in 1 .. refH, x \in 1 .. refW :
    shown[y][x] = dec[ShownAt(y, decH, refH)][ShownAt(x, decW, refW)]

LEMMA NearestIs ==
  ASSUME NEW refW \in Nat \ {0}, NEW refH \in Nat \ {0}, NEW decW \in Nat \ {0}, NEW decH \in Nat \ {0},
         NEW dec \in Rasters(decW, decH)
  PROVE  /\ NearestPlane(dec, refW, refH) \in Rasters(refW, refH)
         /\ Shows(NearestPlane(dec, refW, refH), dec, refW, refH, decW, decH)
<1>1. Height(dec) = decH /\ Width(dec) = decW
  BY PlaneIs
<1>2. NearestPlane(dec, refW, refH) =
        [y \in 1 .. refH |->
           [x \in 1 .. refW |-> dec[ShownAt(y, decH, refH)][ShownAt(x, decW, refW)]]]
  BY <1>1 DEF NearestPlane, ShownAt
<1>3. \A y \in 1 .. refH : ShownAt(y, decH, refH) \in 1 .. decH
  BY ShownIs
<1>4. \A x \in 1 .. refW : ShownAt(x, decW, refW) \in 1 .. decW
  BY ShownIs
<1>5. \A y \in 1 .. refH, x \in 1 .. refW : dec[ShownAt(y, decH, refH)][ShownAt(x, decW, refW)] \in Int
  BY <1>3, <1>4 DEF Rasters
<1> QED
  BY <1>2, <1>5 DEF Rasters, Shows

\* The radius of a window, and that it reaches along either axis what it has to.
LEMMA RadiusIs ==
  ASSUME NEW refW \in Nat \ {0}, NEW refH \in Nat \ {0}, NEW decW \in Nat \ {0}, NEW decH \in Nat \ {0}
  PROVE  LET r == WindowRadius(refW, refH, decW, decH) IN
         /\ r \in Nat
         /\ WindowReach(refW, decW) <= r \/ refW <= r
         /\ WindowReach(refH, decH) <= r \/ refH <= r
<1> DEFINE a == WindowReach(refW, decW)
           b == WindowReach(refH, decH)
<1>1. \A m, n \in Nat \ {0} : WindowReach(m, n) \in Nat
  <2>1. ASSUME NEW m \in Nat \ {0}, NEW n \in Nat \ {0} PROVE WindowReach(m, n) \in Nat
    <3>1. WindowSamples * m + n - 1 \in Nat
      BY DEF WindowSamples
    <3> QED
      BY <3>1, Divides DEF WindowReach
  <2> QED
    BY <2>1
<1>2. a \in Nat /\ b \in Nat
  BY <1>1
<1>3. WindowRadius(refW, refH, decW, decH) = Greatest(1, Least(Greatest(a, b), Greatest(refW, refH)))
  BY DEF WindowRadius, WindowReach
<1> HIDE DEF a, b
<1>4. LET r == Greatest(1, Least(Greatest(a, b), Greatest(refW, refH))) IN
      r \in Nat /\ (a <= r \/ refW <= r) /\ (b <= r \/ refH <= r)
  BY <1>2 DEF Least, Greatest
<1> QED
  BY <1>3, <1>4 DEF a, b

LEMMA BoxInWindow ==
  ASSUME NEW m \in Nat \ {0}, NEW n \in Nat \ {0}, NEW i \in 1 .. m, NEW r \in Nat,
         WindowReach(m, n) <= r \/ m <= r, NEW k \in Box(ShownAt(i, n, m), n, m)
  PROVE  k \in 1 .. m /\ i - r <= k /\ k <= i + r
<1>1. /\ k \in 1 .. m /\ WindowReach(m, n) \in Nat
      /\ i - WindowReach(m, n) <= k /\ k <= i + WindowReach(m, n)
  BY BoxReached
<1> QED
  BY <1>1

\* The error of what is shown, and an excursion by what its pixel shows.
Errors(ref, shown) == [j \in DOMAIN ref |-> [i \in DOMAIN ref[j] |-> shown[j][i] - ref[j][i]]]
ExcessAt(found, ref, shown, refW, refH, r, y, x) ==
  \E smooth \in Int, size \in Nat \ {0} :
    /\ found[y][x] = Charged(shown[y][x], Extremes(ref, r, "min")[y][x],
                             Extremes(ref, r, "max")[y][x], smooth, size)
    /\ \A d \in Int : OffBy(Errors(ref, shown), refW, refH, d) => smooth = size * d

LEMMA ExcursionIs ==
  ASSUME NEW refW \in Nat \ {0}, NEW refH \in Nat \ {0}, NEW decW \in Nat \ {0}, NEW decH \in Nat \ {0},
         NEW ref \in Rasters(refW, refH), NEW dec \in Rasters(decW, decH),
         NEW y \in 1 .. refH, NEW x \in 1 .. refW
  PROVE  ExcessAt(Excursions(ref, dec), ref, NearestPlane(dec, refW, refH), refW, refH,
                  WindowRadius(refW, refH, decW, decH), y, x)
<1> DEFINE r == WindowRadius(refW, refH, decW, decH)
           R == BiasFactor * r
           shown == NearestPlane(dec, refW, refH)
           error == Errors(ref, shown)
           smooth == WindowSum(error, x, y, R, refW, refH)
           size == WindowSize(x, y, R, refW, refH)
           local == Envelope(ref, r)
<1>1. Height(ref) = refH /\ Width(ref) = refW /\ Height(dec) = decH /\ Width(dec) = decW
  BY PlaneIs
<1>2. shown \in Rasters(refW, refH)
  BY NearestIs
<1>3. r \in Nat
  BY RadiusIs
<1> HIDE DEF r
<1>4. R \in Nat
  BY <1>3 DEF BiasFactor
<1> HIDE DEF R, shown
<1>5. DOMAIN ref = 1 .. refH /\ \A j \in 1 .. refH : DOMAIN ref[j] = 1 .. refW
  BY PlaneIs
<1>6. error = [j \in 1 .. refH |-> [i \in 1 .. refW |-> shown[j][i] - ref[j][i]]]
  BY <1>5 DEF Errors
<1>7. error \in Rasters(refW, refH)
  <2>1. \A j \in 1 .. refH, i \in 1 .. refW : shown[j][i] \in Int /\ ref[j][i] \in Int
    BY <1>2, PlaneIs
  <2>2. \A j \in 1 .. refH, i \in 1 .. refW : shown[j][i] - ref[j][i] \in Int
    BY <2>1
  <2> HIDE DEF error
  <2> QED
    BY <1>6, <2>2 DEF Rasters
<1> HIDE DEF error
<1>8. size \in Nat \ {0} /\ smooth \in Int
  BY <1>4, <1>7, WindowsAre
<1>9. ASSUME NEW d \in Int, OffBy(error, refW, refH, d) PROVE smooth = size * d
  BY <1>4, <1>7, <1>9, WindowsAre
<1>10. BoxMean(error, R)[y][x] = [sum |-> smooth, size |-> size]
  BY <1>4, <1>7, BoxMeanIs
<1> HIDE DEF smooth, size
<1>11. local.min = Extremes(ref, r, "min") /\ local.max = Extremes(ref, r, "max")
  BY EnvelopeIs
<1> HIDE DEF local
<1>12. Excursions(ref, dec)[y][x] =
         Charged(shown[y][x], local.min[y][x], local.max[y][x],
                 BoxMean(error, R)[y][x].sum, BoxMean(error, R)[y][x].size)
  BY <1>1, <1>5 DEF Excursions, Charged, Errors, r, R, shown, error, local
<1>13. BoxMean(error, R)[y][x].sum = smooth /\ BoxMean(error, R)[y][x].size = size
  BY <1>10
<1>14. Excursions(ref, dec)[y][x] =
         Charged(shown[y][x], Extremes(ref, r, "min")[y][x], Extremes(ref, r, "max")[y][x],
                 smooth, size)
  BY <1>11, <1>12, <1>13
<1> QED
  BY <1>8, <1>9, <1>14 DEF ExcessAt, r, shown, error

\* A low-pass: each decoded sample lies between two of the pixels that it stands for.
LowPass(ref, dec, refW, refH, decW, decH) ==
  \A y \in 1 .. decH, x \in 1 .. decW :
    \E a, b \in Box(y, decH, refH) \X Box(x, decW, refW) :
      ref[a[1]][a[2]] <= dec[y][x] /\ dec[y][x] <= ref[b[1]][b[2]]

\* The theorem of local.ts's header, of any raster and any decode of it: a decode that
\* is merely a low-pass of the reference rings nowhere. The window is never too narrow
\* for it (windowRadius), and what slides along it keeps its extremes (slidingMin1D).
THEOREM BlurDoesNotRing ==
  ASSUME NEW refW \in Nat \ {0}, NEW refH \in Nat \ {0}, NEW decW \in Nat \ {0}, NEW decH \in Nat \ {0},
         NEW ref \in Rasters(refW, refH), NEW dec \in Rasters(decW, decH),
         LowPass(ref, dec, refW, refH, decW, decH)
  PROVE  OffBy(Excursions(ref, dec), refW, refH, 0)
<1> SUFFICES ASSUME NEW y \in 1 .. refH, NEW x \in 1 .. refW
             PROVE  Excursions(ref, dec)[y][x] = 0
  BY DEF OffBy
<1> DEFINE r == WindowRadius(refW, refH, decW, decH)
           shown == NearestPlane(dec, refW, refH)
           j == ShownAt(y, decH, refH)
           i == ShownAt(x, decW, refW)
           rows1 == Box(j, decH, refH)
           columns1 == Box(i, decW, refW)
           low == Extremes(ref, r, "min")
           high == Extremes(ref, r, "max")
<1>1. r \in Nat /\ (WindowReach(refW, decW) <= r \/ refW <= r) /\ (WindowReach(refH, decH) <= r \/ refH <= r)
  BY RadiusIs
<1>2. PICK smooth \in Int, size \in Nat \ {0} :
        Excursions(ref, dec)[y][x] = Charged(shown[y][x], low[y][x], high[y][x], smooth, size)
  <2>1. ExcessAt(Excursions(ref, dec), ref, shown, refW, refH, r, y, x)
    BY ExcursionIs
  <2> QED
    BY <2>1 DEF ExcessAt
<1> HIDE DEF r
<1>3. j \in 1 .. decH /\ i \in 1 .. decW
  BY ShownIs
<1>4. shown[y][x] = dec[j][i] /\ dec[j][i] \in Int
  <2>1. shown[y][x] = dec[j][i]
    <3>1. Shows(shown, dec, refW, refH, decW, decH)
      BY NearestIs
    <3> QED
      BY <3>1 DEF Shows
  <2> HIDE DEF j, i
  <2>2. dec[j][i] \in Int
    BY <1>3, PlaneIs
  <2> QED
    BY <2>1, <2>2
<1>5. \A p \in rows1 : p \in 1 .. refH /\ y - r <= p /\ p <= y + r
  BY <1>1, BoxInWindow
<1>6. \A p \in columns1 : p \in 1 .. refW /\ x - r <= p /\ p <= x + r
  BY <1>1, BoxInWindow
<1> HIDE DEF shown, j, i
<1>7. PICK a \in rows1 \X columns1, b \in rows1 \X columns1 :
        ref[a[1]][a[2]] <= dec[j][i] /\ dec[j][i] <= ref[b[1]][b[2]]
  BY <1>3 DEF LowPass
<1> HIDE DEF rows1, columns1
<1>8. /\ a[1] \in rows1 /\ a[2] \in columns1 /\ b[1] \in rows1 /\ b[2] \in columns1
  BY <1>7
<1>9. ref[a[1]][a[2]] \in Int /\ ref[b[1]][b[2]] \in Int
  BY <1>5, <1>6, <1>8, PlaneIs
<1>10. low[y][x] \in Int /\ Beats(low[y][x], ref[a[1]][a[2]], "min")
  <2>1. low \in Rasters(refW, refH) /\ Encloses(low, ref, refW, refH, r, "min")
    BY <1>1, ExtremesAre
  <2> HIDE DEF low
  <2>2. low[y][x] \in Int
    BY <2>1, PlaneIs
  <2> QED
    BY <1>5, <1>6, <1>8, <2>1, <2>2 DEF Encloses
<1>11. high[y][x] \in Int /\ Beats(high[y][x], ref[b[1]][b[2]], "max")
  <2>1. high \in Rasters(refW, refH) /\ Encloses(high, ref, refW, refH, r, "max")
    BY <1>1, ExtremesAre
  <2> HIDE DEF high
  <2>2. high[y][x] \in Int
    BY <2>1, PlaneIs
  <2> QED
    BY <1>5, <1>6, <1>8, <2>1, <2>2 DEF Encloses
<1> HIDE DEF low, high
<1>12. low[y][x] <= ref[a[1]][a[2]] /\ ref[b[1]][b[2]] <= high[y][x]
  BY <1>9, <1>10, <1>11 DEF Beats
<1>13. low[y][x] <= dec[j][i] /\ dec[j][i] <= high[y][x]
  BY <1>4, <1>7, <1>9, <1>10, <1>11, <1>12
<1>14. Charged(dec[j][i], low[y][x], high[y][x], smooth, size) = 0
  BY ONLY <1>4, <1>10, <1>11, <1>13, smooth \in Int, size \in Nat \ {0}, ChargedNothing
<1> QED
  BY <1>2, <1>4, <1>14

\* Nor is a tint charged as ringing: a decode that is all of one level rings nowhere on
\* a reference that is all of another (local.ts, the third of its header's design
\* consequences).
THEOREM TintDoesNotRing ==
  ASSUME NEW refW \in Nat \ {0}, NEW refH \in Nat \ {0}, NEW decW \in Nat \ {0}, NEW decH \in Nat \ {0},
         NEW ref \in Rasters(refW, refH), NEW dec \in Rasters(decW, decH),
         NEW plain \in Int, NEW level \in Int,
         OffBy(ref, refW, refH, plain), OffBy(dec, decW, decH, level)
  PROVE  OffBy(Excursions(ref, dec), refW, refH, 0)
<1> SUFFICES ASSUME NEW y \in 1 .. refH, NEW x \in 1 .. refW
             PROVE  Excursions(ref, dec)[y][x] = 0
  BY DEF OffBy
<1> DEFINE r == WindowRadius(refW, refH, decW, decH)
           shown == NearestPlane(dec, refW, refH)
           error == Errors(ref, shown)
           low == Extremes(ref, r, "min")
           high == Extremes(ref, r, "max")
<1>1. r \in Nat
  BY RadiusIs
<1>2. PICK smooth \in Int, size \in Nat \ {0} :
        /\ Excursions(ref, dec)[y][x] = Charged(shown[y][x], low[y][x], high[y][x], smooth, size)
        /\ \A d \in Int : OffBy(error, refW, refH, d) => smooth = size * d
  <2>1. ExcessAt(Excursions(ref, dec), ref, shown, refW, refH, r, y, x)
    BY ExcursionIs
  <2> QED
    BY <2>1 DEF ExcessAt
<1> HIDE DEF r
<1>3. ASSUME NEW j \in 1 .. refH, NEW i \in 1 .. refW PROVE shown[j][i] = level
  <2>1. ShownAt(j, decH, refH) \in 1 .. decH /\ ShownAt(i, decW, refW) \in 1 .. decW
    BY ShownIs
  <2>2. shown[j][i] = dec[ShownAt(j, decH, refH)][ShownAt(i, decW, refW)]
    <3>1. Shows(shown, dec, refW, refH, decW, decH)
      BY NearestIs
    <3> QED
      BY <3>1 DEF Shows
  <2> QED
    BY <2>1, <2>2 DEF OffBy
<1> HIDE DEF shown
<1>4. OffBy(error, refW, refH, level - plain)
  <2>1. DOMAIN ref = 1 .. refH /\ \A j \in 1 .. refH : DOMAIN ref[j] = 1 .. refW
    BY PlaneIs
  <2>2. \A j \in 1 .. refH, i \in 1 .. refW : error[j][i] = shown[j][i] - ref[j][i]
    BY <2>1 DEF Errors
  <2> HIDE DEF error
  <2> QED
    BY <1>3, <2>2 DEF OffBy
<1> HIDE DEF error
<1>5. low[y][x] = plain
  <2>1. \E j \in 1 .. refH, i \in 1 .. refW : low[y][x] = ref[j][i]
    <3>1. Encloses(low, ref, refW, refH, r, "min")
      BY <1>1, ExtremesAre
    <3> QED
      BY <3>1 DEF Encloses
  <2> QED
    BY <2>1 DEF OffBy
<1>6. high[y][x] = plain
  <2>1. \E j \in 1 .. refH, i \in 1 .. refW : high[y][x] = ref[j][i]
    <3>1. Encloses(high, ref, refW, refH, r, "max")
      BY <1>1, ExtremesAre
    <3> QED
      BY <3>1 DEF Encloses
  <2> QED
    BY <2>1 DEF OffBy
<1>7. smooth = size * (level - plain)
  <2>1. level - plain \in Int
    OBVIOUS
  <2> QED
    BY <1>2, <1>4, <2>1
<1>8. shown[y][x] = level
  BY <1>3
<1> HIDE DEF low, high
<1> QED
  BY <1>2, <1>5, <1>6, <1>7, <1>8, ChargedNothing

-----------------------------------------------------------------------------
(* The grid of an analysis *)

LEMMA Cancelled ==
  ASSUME NEW c \in Nat \ {0}, NEW x \in Int, NEW y \in Int, c * x <= c * y
  PROVE  x <= y
<1> SUFFICES ASSUME y + 1 <= x PROVE FALSE
  OBVIOUS
<1>1. c * (y + 1) <= c * x
  BY ScaledOrder
<1>2. c * (y + 1) = c * y + c /\ c * y \in Int /\ c * x \in Int
  OBVIOUS
<1> QED
  BY <1>1, <1>2

LEMMA CancelledSame ==
  ASSUME NEW c \in Nat \ {0}, NEW x \in Int, NEW y \in Int, c * x = c * y
  PROVE  x = y
<1>1. c * x <= c * y /\ c * y <= c * x
  OBVIOUS
<1>2. x <= y
  BY <1>1, Cancelled
<1>3. y <= x
  BY <1>1, Cancelled
<1> QED
  BY <1>2, <1>3

\* A fraction is a pair of positive numbers, and one is no more than another.
Fractions == (Nat \ {0}) \X (Nat \ {0})
NoMore(f, g) == f[1] * g[2] <= g[1] * f[2]

LEMMA NoMoreOrders ==
  ASSUME NEW f \in Fractions, NEW g \in Fractions, NEW h \in Fractions
  PROVE  /\ NoMore(f, f) /\ (NoMore(f, g) \/ NoMore(g, f))
         /\ NoMore(f, g) /\ NoMore(g, h) => NoMore(f, h)
<1> DEFINE a == f[1]  b == f[2]  c == g[1]  d == g[2]  p == h[1]  q == h[2]
<1>1. /\ a \in Nat \ {0} /\ b \in Nat \ {0} /\ c \in Nat \ {0}
      /\ d \in Nat \ {0} /\ p \in Nat \ {0} /\ q \in Nat \ {0}
  BY DEF Fractions
<1>2. NoMore(f, f) /\ (NoMore(f, g) \/ NoMore(g, f))
  <2>1. a * d \in Int /\ c * b \in Int /\ a * b \in Int
    BY <1>1
  <2> HIDE DEF a, b, c, d
  <2> QED
    BY <2>1 DEF NoMore, a, b, c, d
<1>3. ASSUME NoMore(f, g), NoMore(g, h) PROVE NoMore(f, h)
  <2>1. a * d <= c * b /\ c * q <= p * d
    BY <1>3 DEF NoMore
  <2> HIDE DEF a, b, c, d, p, q
  <2>2. q * (a * d) <= q * (c * b) /\ b * (c * q) <= b * (p * d)
    <3>1. a * d \in Int /\ c * b \in Int /\ c * q \in Int /\ p * d \in Int
      BY <1>1
    <3> QED
      BY <1>1, <2>1, <3>1, ScaledOrder
  <2>3. /\ q * (a * d) = d * (a * q) /\ q * (c * b) = b * (c * q) /\ b * (p * d) = d * (p * b)
        /\ a * q \in Int /\ p * b \in Int /\ b * (c * q) \in Int
        /\ d * (a * q) \in Int /\ d * (p * b) \in Int
    BY <1>1
  <2>4. d * (a * q) <= d * (p * b)
    BY <2>2, <2>3
  <2>5. a * q <= p * b
    BY <1>1, <2>3, <2>4, Cancelled
  <2> QED
    BY <2>5 DEF NoMore, a, b, p, q
<1> QED
  BY <1>2, <1>3

\* The least of three fractions.
LEMMA LeastFraction ==
  ASSUME NEW f \in Fractions, NEW g \in Fractions, NEW h \in Fractions
  PROVE  \E k \in {f, g, h} : \A m \in {f, g, h} : NoMore(k, m)
<1>1. /\ NoMore(f, f) /\ NoMore(g, g) /\ NoMore(h, h)
      /\ (NoMore(f, g) \/ NoMore(g, f)) /\ (NoMore(g, h) \/ NoMore(h, g)) /\ (NoMore(f, h) \/ NoMore(h, f))
      /\ NoMore(f, g) /\ NoMore(g, h) => NoMore(f, h)
      /\ NoMore(h, g) /\ NoMore(g, f) => NoMore(h, f)
      /\ NoMore(g, f) /\ NoMore(f, h) => NoMore(g, h)
      /\ NoMore(h, f) /\ NoMore(f, g) => NoMore(h, g)
  BY NoMoreOrders
<1>2. CASE NoMore(f, g) /\ NoMore(f, h)
  BY <1>1, <1>2
<1>3. CASE NoMore(g, f) /\ NoMore(g, h)
  BY <1>1, <1>3
<1>4. CASE NoMore(h, f) /\ NoMore(h, g)
  BY <1>1, <1>4
<1> QED
  BY <1>1, <1>2, <1>3, <1>4

\* A number divided and rounded, by what it lies between.
LEMMA RoundedIs ==
  ASSUME NEW x \in Nat, NEW y \in Nat \ {0}
  PROVE  /\ RoundedDiv(x, y) \in Nat
         /\ 2 * (y * RoundedDiv(x, y)) <= 2 * x + y
         /\ 2 * x + y < 2 * (y * RoundedDiv(x, y)) + 2 * y
<1> DEFINE n == 2 * x + y
           d == 2 * y
           q == n \div d
<1>1. n \in Nat /\ d \in Nat \ {0}
  OBVIOUS
<1>2. q \in Nat /\ n % d \in 0 .. d - 1 /\ n = d * q + (n % d)
  <2> HIDE DEF n, d
  <2> QED
    BY <1>1, Divides
<1>3. RoundedDiv(x, y) = q
  BY DEF RoundedDiv
<1> HIDE DEF q
<1>4. d * q = 2 * (y * q) /\ y * q \in Int
  BY <1>2
<1> HIDE DEF n
<1>5. 2 * (y * q) <= n /\ n < 2 * (y * q) + d
  BY <1>1, <1>2, <1>4
<1> QED
  BY <1>2, <1>3, <1>5 DEF n

LEMMA RoundedTo ==
  ASSUME NEW x \in Nat, NEW y \in Nat \ {0}, NEW z \in Nat,
         2 * (y * z) <= 2 * x + y, 2 * x + y < 2 * (y * z) + 2 * y
  PROVE  RoundedDiv(x, y) = z
<1> DEFINE n == 2 * x + y
           d == 2 * y
           r == n - d * z
<1>1. n \in Nat /\ d \in Nat \ {0} /\ d * z = 2 * (y * z) /\ y * z \in Int
  OBVIOUS
<1>2. RoundedDiv(x, y) = n \div d
  BY DEF RoundedDiv
<1>3. r \in 0 .. d - 1 /\ n = d * z + r
  <2>1. 2 * (y * z) <= n /\ n < 2 * (y * z) + d
    OBVIOUS
  <2> HIDE DEF n, d
  <2> QED
    BY <1>1, <2>1
<1> HIDE DEF n, d, r
<1>4. (d * z + r) \div d = z
  BY <1>1, <1>3, DividesOnce
<1> QED
  BY <1>2, <1>3, <1>4

\* Equal fractions are rounded alike.
LEMMA RoundedAlike ==
  ASSUME NEW x \in Nat, NEW y \in Nat \ {0}, NEW u \in Nat, NEW v \in Nat \ {0}, x * v = u * y
  PROVE  RoundedDiv(x, y) = RoundedDiv(u, v)
<1> DEFINE z == RoundedDiv(u, v)
<1>1. z \in Nat /\ 2 * (v * z) <= 2 * u + v /\ 2 * u + v < 2 * (v * z) + 2 * v
  BY RoundedIs
<1> HIDE DEF z
<1>2. /\ v * (2 * (y * z)) = y * (2 * (v * z))
      /\ v * (2 * x + y) = y * (2 * u + v)
      /\ v * (2 * (y * z) + 2 * y) = y * (2 * (v * z) + 2 * v)
  <2>1. v * (2 * x + y) = 2 * (x * v) + v * y /\ y * (2 * u + v) = 2 * (u * y) + v * y
    BY <1>1
  <2>2. v * (2 * (y * z)) = y * (2 * (v * z))
    BY <1>1
  <2>3. v * (2 * (y * z) + 2 * y) = y * (2 * (v * z) + 2 * v)
    BY <1>1
  <2> QED
    BY <2>1, <2>2, <2>3
<1> DEFINE l == 2 * (y * z)
           m == 2 * x + y
           h == 2 * (y * z) + 2 * y
           ll == 2 * (v * z)
           mm == 2 * u + v
           hh == 2 * (v * z) + 2 * v
<1>3. /\ l \in Int /\ m \in Int /\ h \in Int /\ ll \in Int /\ mm \in Int /\ hh \in Int
      /\ v * l = y * ll /\ v * m = y * mm /\ v * h = y * hh /\ ll <= mm /\ mm + 1 <= hh
  BY <1>1, <1>2
<1> HIDE DEF l, m, h, ll, mm, hh
<1>4. l <= m
  <2>1. y * ll <= y * mm
    BY <1>3, ScaledOrder
  <2> QED
    BY <1>3, <2>1, Cancelled
<1>5. m < h
  <2> SUFFICES ASSUME h <= m PROVE FALSE
    BY <1>3
  <2>1. v * h <= v * m
    BY <1>3, ScaledOrder
  <2>2. hh <= mm
    BY <1>3, <2>1, Cancelled
  <2> QED
    BY <1>3, <2>2
<1>6. RoundedDiv(x, y) = z
  BY <1>1, <1>4, <1>5, RoundedTo DEF l, m, h
<1> QED
  BY <1>6 DEF z

-----------------------------------------------------------------------------
\* What caps a grid, as fractions of a raster of one level.
Caps(bw, bh, rw, rh, edge) == {<<edge, Greatest(bw, bh)>>, <<rw, bw>>, <<rh, bh>>}
Down(n, k) == Greatest(1, RoundedDiv(n * k[1], k[2]))

MultipleOf(w, h, bw, bh, s) == w = bw * s /\ h = bh * s
LeastShared(k, caps) == k \in caps /\ \A m \in caps : NoMore(k, m)

LEMMA CapsAre ==
  ASSUME NEW bw \in Nat \ {0}, NEW bh \in Nat \ {0}, NEW rw \in Nat \ {0}, NEW rh \in Nat \ {0},
         NEW edge \in Nat \ {0}
  PROVE  /\ Caps(bw, bh, rw, rh, edge) \subseteq Fractions
         /\ \E k \in Fractions : LeastShared(k, Caps(bw, bh, rw, rh, edge))
<1>1. Greatest(bw, bh) \in Nat \ {0}
  BY DEF Greatest
<1>2. <<edge, Greatest(bw, bh)>> \in Fractions /\ <<rw, bw>> \in Fractions /\ <<rh, bh>> \in Fractions
  BY <1>1 DEF Fractions
<1>3. \E k \in Caps(bw, bh, rw, rh, edge) : \A m \in Caps(bw, bh, rw, rh, edge) : NoMore(k, m)
  BY <1>2, LeastFraction DEF Caps
<1> QED
  BY <1>2, <1>3 DEF Caps, LeastShared

\* At a multiple of that raster the same cap is the least, by that much less.
LEMMA CapOf ==
  ASSUME NEW bw \in Nat \ {0}, NEW bh \in Nat \ {0}, NEW rw \in Nat \ {0}, NEW rh \in Nat \ {0},
         NEW edge \in Nat \ {0}, NEW s \in Nat \ {0},
         NEW w, NEW h, MultipleOf(w, h, bw, bh, s),
         NEW k, LeastShared(k, Caps(bw, bh, rw, rh, edge)),
         NEW c, LeastShared(c, Caps(w, h, rw, rh, edge))
  PROVE  /\ c \in Fractions /\ k \in Fractions
         /\ c[1] * (k[2] * s) = k[1] * c[2]
<1> USE DEF MultipleOf
<1> DEFINE S(m) == <<m[1], m[2] * s>>
<1>0. k \in Caps(bw, bh, rw, rh, edge) /\ \A m \in Caps(bw, bh, rw, rh, edge) : NoMore(k, m)
  BY DEF LeastShared
<1>1. k \in Fractions
  BY <1>0, CapsAre
<1>2. bw * s \in Nat \ {0} /\ bh * s \in Nat \ {0}
  <2>1. s * 1 <= s * bw /\ s * 1 <= s * bh
    BY ScaledOrder
  <2>2. s * bw = bw * s /\ s * bh = bh * s /\ bw * s \in Int /\ bh * s \in Int
    OBVIOUS
  <2> QED
    BY <2>1, <2>2
<1>3. c \in Fractions
  BY <1>2, CapsAre DEF LeastShared
<1>4. Greatest(bw * s, bh * s) = Greatest(bw, bh) * s
  <2>1. CASE bw > bh
    <3>1. ~(s * bw <= s * bh)
      BY <2>1, Cancelled
    <3>2. s * bw = bw * s /\ s * bh = bh * s /\ bw * s \in Int /\ bh * s \in Int
      OBVIOUS
    <3> QED
      BY <2>1, <3>1, <3>2 DEF Greatest
  <2>2. CASE ~(bw > bh)
    <3>1. s * bw <= s * bh
      BY <2>2, ScaledOrder
    <3>2. s * bw = bw * s /\ s * bh = bh * s /\ bw * s \in Int /\ bh * s \in Int
      OBVIOUS
    <3> QED
      BY <2>2, <3>1, <3>2 DEF Greatest
  <2> QED
    BY <2>1, <2>2
<1>5. \A m \in Caps(bw, bh, rw, rh, edge) : S(m) \in Caps(bw * s, bh * s, rw, rh, edge)
  BY <1>4 DEF Caps
<1>6. \E m \in Caps(bw, bh, rw, rh, edge) : c = S(m)
  BY <1>4 DEF Caps, LeastShared
<1>7. PICK m \in Caps(bw, bh, rw, rh, edge) : c = S(m)
  BY <1>6
<1>8. m \in Fractions
  BY CapsAre
<1>9. NoMore(c, S(k)) /\ NoMore(k, m)
  BY <1>0, <1>5 DEF LeastShared
<1>10. c[1] * (k[2] * s) <= k[1] * c[2]
  BY <1>9 DEF NoMore
<1>11. k[1] * c[2] <= c[1] * (k[2] * s)
  <2> DEFINE a == k[1]  b == k[2]  x == m[1]  y == m[2]
  <2>1. a \in Nat \ {0} /\ b \in Nat \ {0} /\ x \in Nat \ {0} /\ y \in Nat \ {0}
    BY <1>1, <1>8 DEF Fractions
  <2>2. a * y <= x * b
    BY <1>9 DEF NoMore
  <2>3. c[1] = x /\ c[2] = y * s
    BY <1>7
  <2> HIDE DEF a, b, x, y
  <2>4. a * y \in Int /\ x * b \in Int
    BY <2>1
  <2>5. s * (a * y) <= s * (x * b)
    BY <2>2, <2>4, ScaledOrder
  <2>6. s * (a * y) = a * (y * s) /\ s * (x * b) = x * (b * s)
    BY <2>1
  <2>7. a * (y * s) <= x * (b * s)
    BY <2>5, <2>6
  <2> QED
    BY <2>3, <2>7 DEF a, b
<1>12. c[1] * (k[2] * s) \in Int /\ k[1] * c[2] \in Int
  <2>1. c[1] \in Int /\ c[2] \in Int /\ k[1] \in Int /\ k[2] \in Int
    BY <1>1, <1>3 DEF Fractions
  <2> QED
    BY <2>1
<1> QED
  BY <1>1, <1>3, <1>10, <1>11, <1>12

\* So its grid is the raster, or one that has nothing to do with the level.
LEMMA GridAt ==
  ASSUME NEW bw \in Nat \ {0}, NEW bh \in Nat \ {0}, NEW rw \in Nat \ {0}, NEW rh \in Nat \ {0},
         NEW edge \in Nat \ {0}, NEW s \in Nat \ {0},
         NEW w, NEW h, MultipleOf(w, h, bw, bh, s),
         NEW k, LeastShared(k, Caps(bw, bh, rw, rh, edge))
  PROVE  /\ k[2] * s <= k[1] => AnalysisGrid(w, h, rw, rh, edge) = [w |-> w, h |-> h]
         /\ ~(k[2] * s <= k[1]) =>
              AnalysisGrid(w, h, rw, rh, edge) = [w |-> Down(bw, k), h |-> Down(bh, k)]
<1> DEFINE caps == Caps(w, h, rw, rh, edge)
           c == CHOOSE f \in caps : \A g \in caps : f[1] * g[2] <= g[1] * f[2]
<1>0. w = bw * s /\ h = bh * s
  BY DEF MultipleOf
<1>1. w \in Nat \ {0} /\ h \in Nat \ {0}
  <2>1. s * 1 <= s * bw /\ s * 1 <= s * bh
    BY ScaledOrder
  <2>2. s * bw = bw * s /\ s * bh = bh * s /\ bw * s \in Int /\ bh * s \in Int
    OBVIOUS
  <2> QED
    BY <1>0, <2>1, <2>2
<1>2. \E f \in caps : \A g \in caps : f[1] * g[2] <= g[1] * f[2]
  BY <1>1, CapsAre DEF LeastShared, NoMore
<1>3. AnalysisGrid(w, h, rw, rh, edge) =
        IF c[1] >= c[2] THEN [w |-> w, h |-> h]
        ELSE [w |-> Greatest(1, RoundedDiv(w * c[1], c[2])),
              h |-> Greatest(1, RoundedDiv(h * c[1], c[2]))]
  BY DEF AnalysisGrid, Caps
<1> HIDE DEF caps
<1>4. c \in caps /\ \A g \in caps : c[1] * g[2] <= g[1] * c[2]
  BY <1>2
<1> HIDE DEF c
<1>5. c \in Fractions /\ k \in Fractions /\ c[1] * (k[2] * s) = k[1] * c[2]
  <2>1. LeastShared(c, caps)
    BY <1>4 DEF LeastShared, NoMore
  <2> QED
    BY <2>1, CapOf DEF caps
<1> DEFINE a == c[1]  b == c[2]  p == k[1]  q == k[2]
<1>6. a \in Nat \ {0} /\ b \in Nat \ {0} /\ p \in Nat \ {0} /\ q \in Nat \ {0} /\ a * (q * s) = p * b
  BY <1>5 DEF Fractions
<1>7. c[1] = a /\ c[2] = b /\ k[1] = p /\ k[2] = q
  OBVIOUS
<1> HIDE DEF a, b, p, q
<1>8. q * s \in Nat \ {0}
  <2>1. s * 1 <= s * q
    BY <1>6, ScaledOrder
  <2>2. s * q = q * s /\ q * s \in Int
    BY <1>6
  <2> QED
    BY <2>1, <2>2
<1>9. a >= b <=> q * s <= p
  <2> DEFINE u == q * s
  <2>1. u \in Nat \ {0} /\ a * u = p * b
    BY <1>6, <1>8
  <2> HIDE DEF u
  <2>2. ASSUME b <= a PROVE u <= p
    <3>1. u * b <= u * a
      BY <1>6, <2>1, <2>2, ScaledOrder
    <3>2. b * u <= b * p
      <4>1. u * b = b * u /\ u * a = a * u /\ p * b = b * p
        BY <1>6, <2>1
      <4> QED
        BY <2>1, <3>1, <4>1
    <3> QED
      BY <1>6, <2>1, <3>2, Cancelled
  <2>3. ASSUME u <= p PROVE b <= a
    <3>1. b * u <= b * p
      BY <1>6, <2>1, <2>3, ScaledOrder
    <3>2. u * b <= u * a
      <4>1. u * b = b * u /\ u * a = a * u /\ p * b = b * p
        BY <1>6, <2>1
      <4> QED
        BY <2>1, <3>1, <4>1
    <3> QED
      BY <1>6, <2>1, <3>2, Cancelled
  <2> QED
    BY <1>6, <2>1, <2>2, <2>3 DEF u
<1>10. ASSUME NEW n \in Nat \ {0} PROVE RoundedDiv((n * s) * a, b) = RoundedDiv(n * p, q)
  <2>1. (n * s) * a \in Nat /\ n * p \in Nat
    <3>1. n * s \in Nat
      OBVIOUS
    <3> QED
      BY <1>6, <3>1
  <2>2. ((n * s) * a) * q = (n * p) * b
    <3>1. ((n * s) * a) * q = n * (a * (q * s)) /\ (n * p) * b = n * (p * b)
      BY <1>6
    <3> QED
      BY <1>6, <3>1
  <2> QED
    BY <1>6, <2>1, <2>2, RoundedAlike
<1>11. /\ RoundedDiv(w * a, b) = RoundedDiv(bw * p, q)
       /\ RoundedDiv(h * a, b) = RoundedDiv(bh * p, q)
  BY <1>0, <1>10
<1>12. AnalysisGrid(w, h, rw, rh, edge) =
        IF q * s <= p THEN [w |-> w, h |-> h]
        ELSE [w |-> Greatest(1, RoundedDiv(bw * p, q)), h |-> Greatest(1, RoundedDiv(bh * p, q))]
  BY <1>0, <1>3, <1>7, <1>9, <1>11
<1> QED
  BY <1>7, <1>12 DEF Down

\* A grid that is not the raster is no shorter than as much of it as the cap leaves.
LEMMA DownIs ==
  ASSUME NEW k \in Fractions, NEW n \in Nat \ {0}, NEW s \in Nat \ {0}, k[2] * s <= k[1]
  PROVE  /\ Down(n, k) = RoundedDiv(n * k[1], k[2]) /\ Down(n, k) \in Nat \ {0}
         /\ n * s <= Down(n, k)
         /\ Down(n, k) = n * s <=> 2 * (n * (k[1] - k[2] * s)) < k[2]
<1> DEFINE p == k[1]
           q == k[2]
           z == RoundedDiv(n * p, q)
           gap == p - q * s
<1>1. p \in Nat \ {0} /\ q \in Nat \ {0} /\ n * p \in Nat
  <2>1. p \in Nat \ {0} /\ q \in Nat \ {0}
    BY DEF Fractions
  <2> QED
    BY <2>1
<1> HIDE DEF p, q
<1>2. /\ z \in Nat /\ 2 * (q * z) <= 2 * (n * p) + q /\ 2 * (n * p) + q < 2 * (q * z) + 2 * q
  BY <1>1, RoundedIs
<1> HIDE DEF z
<1>3. q * s \in Nat /\ gap \in Nat
  <2>1. q * s \in Nat /\ q * s <= p
    BY <1>1 DEF p, q
  <2> QED
    BY <1>1, <2>1
<1>4. n * p = n * gap + q * (n * s) /\ n * gap \in Nat /\ q * (n * s) \in Nat /\ n * s \in Nat \ {0}
  <2>1. n * p = n * gap + n * (q * s)
    BY <1>1, <1>3
  <2>2. n * (q * s) = q * (n * s)
    BY <1>1
  <2>3. n * gap \in Nat
    <3> HIDE DEF gap
    <3> QED
      BY <1>3
  <2>4. n * s \in Nat \ {0}
    <3>1. n * 1 <= n * s
      BY ScaledOrder
    <3> QED
      BY <3>1
  <2>5. q * (n * s) \in Nat
    <3> DEFINE u == n * s
    <3>1. u \in Nat
      BY <2>4
    <3> HIDE DEF u
    <3>2. q * u \in Nat
      BY <1>1, <3>1
    <3> QED
      BY <3>2 DEF u
  <2> QED
    BY <2>1, <2>2, <2>3, <2>4, <2>5
<1> DEFINE u == n * s
           g == n * gap
<1>5. /\ u \in Nat \ {0} /\ g \in Nat /\ q * u \in Nat /\ n * p = g + q * u
  BY <1>4
<1>6. gap = k[1] - k[2] * s
  BY DEF p, q
<1> HIDE DEF u, g, gap
<1>7. u <= z
  <2> SUFFICES ASSUME z + 1 <= u PROVE FALSE
    BY <1>2, <1>5
  <2>1. q * (z + 1) <= q * u
    BY <1>1, <1>2, <1>5, ScaledOrder
  <2>2. q * (z + 1) = q * z + q /\ q * z \in Int
    BY <1>1, <1>2
  <2> QED
    BY <1>1, <1>2, <1>5, <2>1, <2>2
<1>8. z = u => 2 * g < q
  BY <1>1, <1>2, <1>5
<1>9. 2 * g < q => z = u
  <2> SUFFICES ASSUME 2 * g < q, u + 1 <= z PROVE FALSE
    BY <1>2, <1>5, <1>7
  <2>1. q * (u + 1) <= q * z
    BY <1>1, <1>2, <1>5, ScaledOrder
  <2>2. q * (u + 1) = q * u + q /\ q * z \in Int
    BY <1>1, <1>2, <1>5
  <2> QED
    BY <1>1, <1>2, <1>5, <2>1, <2>2
<1>10. Down(n, k) = z
  <2>1. Down(n, k) = Greatest(1, z)
    BY DEF Down, z, p, q
  <2> QED
    BY <1>2, <1>5, <1>7, <2>1 DEF Greatest
<1>11. Down(n, k) \in Nat \ {0} /\ u <= Down(n, k) /\ (Down(n, k) = u <=> 2 * g < q)
  BY <1>2, <1>5, <1>7, <1>8, <1>9, <1>10
<1> QED
  BY <1>6, <1>10, <1>11 DEF u, g, z, p, q

\* The one number that is recorded of an analysis, the longest edge of its grid, tells
\* the grid: of a raster at two multiples, under any caps, grids whose longest edges
\* agree are one grid (spurious.ts, analysisGrid; sweep.ts, gridDisagreements).
Longest(grid) == Greatest(grid.w, grid.h)

LEMMA OneIsPlain ==
  ASSUME NEW bw \in Nat \ {0}, NEW bh \in Nat \ {0}, NEW s \in Nat \ {0}, NEW k \in Fractions,
         k[2] * s <= k[1],
         Greatest(bw * s, bh * s) = Greatest(Down(bw, k), Down(bh, k))
  PROVE  Down(bw, k) = bw * s /\ Down(bh, k) = bh * s
<1> DEFINE gap == k[1] - k[2] * s
<1>1. k[2] \in Nat \ {0} /\ gap \in Nat
  <2>1. k[1] \in Nat \ {0} /\ k[2] \in Nat \ {0}
    BY DEF Fractions
  <2>2. k[2] * s \in Int
    BY <2>1
  <2> QED
    BY <2>1, <2>2
<1>2. /\ Down(bw, k) \in Nat \ {0} /\ bw * s <= Down(bw, k)
      /\ Down(bw, k) = bw * s <=> 2 * (bw * gap) < k[2]
      /\ Down(bh, k) \in Nat \ {0} /\ bh * s <= Down(bh, k)
      /\ Down(bh, k) = bh * s <=> 2 * (bh * gap) < k[2]
  BY DownIs
<1> HIDE DEF gap
<1> DEFINE x == bw * s
           y == bh * s
<1>3. x \in Nat /\ y \in Nat
  OBVIOUS
<1>4. bw * gap \in Nat /\ bh * gap \in Nat
  BY <1>1
<1>5. CASE bh <= bw
  <2>1. y <= x
    <3>1. s * bh <= s * bw
      BY <1>5, ScaledOrder
    <3> QED
      BY <3>1
  <2>2. bh * gap <= bw * gap
    <3>1. gap * bh <= gap * bw
      BY <1>1, <1>5, ScaledOrder
    <3>2. gap * bh = bh * gap /\ gap * bw = bw * gap
      BY <1>1
    <3> QED
      BY <3>1, <3>2
  <2> HIDE DEF x, y
  <2>3. Greatest(x, y) = Greatest(Down(bw, k), Down(bh, k)) /\ x <= Down(bw, k) /\ y <= Down(bh, k)
    BY <1>2 DEF x, y
  <2>4. Down(bw, k) = x
    BY <1>2, <1>3, <2>1, <2>3 DEF Greatest
  <2>5. 2 * (bw * gap) < k[2]
    BY <1>2, <2>4 DEF x
  <2>6. 2 * (bh * gap) < k[2]
    BY <1>1, <1>4, <2>2, <2>5
  <2> QED
    BY <1>2, <2>5, <2>6
<1>6. CASE bw <= bh
  <2>1. x <= y
    <3>1. s * bw <= s * bh
      BY <1>6, ScaledOrder
    <3> QED
      BY <3>1
  <2>2. bw * gap <= bh * gap
    <3>1. gap * bw <= gap * bh
      BY <1>1, <1>6, ScaledOrder
    <3>2. gap * bh = bh * gap /\ gap * bw = bw * gap
      BY <1>1
    <3> QED
      BY <3>1, <3>2
  <2> HIDE DEF x, y
  <2>3. Greatest(x, y) = Greatest(Down(bw, k), Down(bh, k)) /\ x <= Down(bw, k) /\ y <= Down(bh, k)
    BY <1>2 DEF x, y
  <2>4. Down(bh, k) = y
    BY <1>2, <1>3, <2>1, <2>3 DEF Greatest
  <2>5. 2 * (bh * gap) < k[2]
    BY <1>2, <2>4 DEF y
  <2>6. 2 * (bw * gap) < k[2]
    BY <1>1, <1>4, <2>2, <2>5
  <2> QED
    BY <1>2, <2>5, <2>6
<1> QED
  BY <1>5, <1>6

\* Decodes of one image are multiples of one raster. Two of them whose analysis
\* grids have the same longest edge have the same grid, so that comparing the edge
\* compares the grid: for any sizes of decodes and reference, any multiples and any
\* longest edge allowed (spurious.ts, analysisGrid; sweep.ts, gridDisagreements).
THEOREM LongestEdgeTells ==
  ASSUME NEW bw \in Nat \ {0}, NEW bh \in Nat \ {0}, NEW rw \in Nat \ {0}, NEW rh \in Nat \ {0},
         NEW edge \in Nat \ {0}, NEW s \in Nat \ {0}, NEW t \in Nat \ {0},
         Longest(AnalysisGrid(bw * s, bh * s, rw, rh, edge)) = Longest(AnalysisGrid(bw * t, bh * t, rw, rh, edge))
  PROVE  AnalysisGrid(bw * s, bh * s, rw, rh, edge) = AnalysisGrid(bw * t, bh * t, rw, rh, edge)
<1>1. PICK k \in Fractions : LeastShared(k, Caps(bw, bh, rw, rh, edge))
  BY CapsAre
<1>2. k \in Fractions
  OBVIOUS
<1> DEFINE Grid(n) == AnalysisGrid(bw * n, bh * n, rw, rh, edge)
           plain(n) == [w |-> bw * n, h |-> bh * n]
           down == [w |-> Down(bw, k), h |-> Down(bh, k)]
<1>3. ASSUME NEW n \in Nat \ {0} PROVE Grid(n) = IF k[2] * n <= k[1] THEN plain(n) ELSE down
  <2> DEFINE w == bw * n
             h == bh * n
  <2>1. MultipleOf(w, h, bw, bh, n)
    BY DEF MultipleOf
  <2> HIDE DEF w, h
  <2>2. LeastShared(k, Caps(bw, bh, rw, rh, edge))
    BY <1>1
  <2>3. /\ k[2] * n <= k[1] => AnalysisGrid(w, h, rw, rh, edge) = [w |-> w, h |-> h]
        /\ ~(k[2] * n <= k[1]) =>
             AnalysisGrid(w, h, rw, rh, edge) = [w |-> Down(bw, k), h |-> Down(bh, k)]
    BY ONLY bw \in Nat \ {0}, bh \in Nat \ {0}, rw \in Nat \ {0}, rh \in Nat \ {0}, edge \in Nat \ {0},
            n \in Nat \ {0}, <2>1, <2>2, GridAt
  <2> QED
    BY <2>3 DEF w, h
<1>4. Longest(Grid(s)) = Longest(Grid(t))
  OBVIOUS
<1>5. \A n : Longest(plain(n)) = Greatest(bw * n, bh * n)
  BY DEF Longest
<1>6. Longest(down) = Greatest(Down(bw, k), Down(bh, k))
  BY DEF Longest
<1> HIDE DEF Grid
<1>7. CASE k[2] * s <= k[1] /\ k[2] * t <= k[1]
  <2>1. Greatest(bw * s, bh * s) = Greatest(bw * t, bh * t)
    BY <1>3, <1>4, <1>5, <1>7
  <2>2. s = t
    <3> DEFINE Scaled(n) == \/ bh <= bw /\ Greatest(bw * n, bh * n) = bw * n
                            \/ bw < bh /\ Greatest(bw * n, bh * n) = bh * n
    <3>1. ASSUME NEW n \in Nat \ {0} PROVE Scaled(n)
      <4>1. /\ bw * n \in Int /\ bh * n \in Int /\ n * bh = bh * n /\ n * bw = bw * n
        OBVIOUS
      <4>2. CASE bh <= bw
        <5>1. n * bh <= n * bw
          BY <4>2, ScaledOrder
        <5> QED
          BY <4>1, <4>2, <5>1 DEF Greatest
      <4>3. CASE bw < bh
        <5>1. n * bw <= n * bh
          BY <4>3, ScaledOrder
        <5> QED
          BY <4>1, <4>3, <5>1 DEF Greatest
      <4> QED
        BY <4>2, <4>3
    <3>2. Scaled(s) /\ Scaled(t)
      BY <3>1
    <3>3. bw * s = bw * t \/ bh * s = bh * t
      BY <2>1, <3>2
    <3> QED
      BY <3>3, CancelledSame
  <2> QED
    BY <2>2 DEF Grid
<1>8. CASE k[2] * s <= k[1] /\ ~(k[2] * t <= k[1])
  <2>1. Greatest(bw * s, bh * s) = Greatest(Down(bw, k), Down(bh, k))
    BY <1>3, <1>4, <1>5, <1>6, <1>8
  <2>2. Down(bw, k) = bw * s /\ Down(bh, k) = bh * s
    BY <1>2, <1>8, <2>1, OneIsPlain
  <2> QED
    BY <1>3, <1>8, <2>2 DEF Grid
<1>9. CASE ~(k[2] * s <= k[1]) /\ k[2] * t <= k[1]
  <2>1. Greatest(bw * t, bh * t) = Greatest(Down(bw, k), Down(bh, k))
    BY <1>3, <1>4, <1>5, <1>6, <1>9
  <2>2. Down(bw, k) = bw * t /\ Down(bh, k) = bh * t
    BY <1>2, <1>9, <2>1, OneIsPlain
  <2> QED
    BY <1>3, <1>9, <2>2 DEF Grid
<1>10. CASE ~(k[2] * s <= k[1]) /\ ~(k[2] * t <= k[1])
  BY <1>3, <1>10 DEF Grid
<1> QED
  BY <1>7, <1>8, <1>9, <1>10

-----------------------------------------------------------------------------
(* Labels *)

\* A pair of a tune string has as many parts as its key writes places.
Tunes(Keys, Values) ==
  {tune \in Seq([key : Keys, value : Seq(Values)]) :
     \A i \in DOMAIN tune : Len(tune[i].value) = Len(Written(tune[i].key))}

\* Every place that it writes is one that the encoder has.
Ships(default, tune) == \A i \in DOMAIN tune : Range(Written(tune[i].key)) \subseteq DOMAIN default

Writes(tune, i, place) == \E p \in DOMAIN Written(tune[i].key) : Written(tune[i].key)[p] = place

\* A key writes one, two or no more places, each once.
LEMMA WrittenIs ==
  ASSUME NEW key
  PROVE  /\ Len(Written(key)) \in {1, 2} /\ DOMAIN Written(key) = 1 .. Len(Written(key))
         /\ \A p, q \in DOMAIN Written(key) : Written(key)[p] = Written(key)[q] => p = q
<1>1. CASE key \in LayoutKeys
  <2>1. Written(key) = <<<<key, "count">>, <<key, "bits">>>>
    <3>1. key # "alpha_ac_count" /\ key # "alpha_ac_bits"
      BY <1>1 DEF LayoutKeys
    <3> QED
      BY <1>1, <3>1 DEF Written
  <2>2. <<key, "count">> # <<key, "bits">>
    OBVIOUS
  <2> QED
    BY <2>1, <2>2
<1>2. CASE key \notin LayoutKeys
  <2>1. \E place : Written(key) = <<place>>
    <3>1. CASE key = "alpha_ac_count"
      BY <1>2, <3>1 DEF Written
    <3>2. CASE key = "alpha_ac_bits"
      BY <1>2, <3>2 DEF Written
    <3>3. CASE key # "alpha_ac_count" /\ key # "alpha_ac_bits"
      BY <1>2, <3>3 DEF Written
    <3> QED
      BY <3>1, <3>2, <3>3
  <2> QED
    BY <2>1
<1> QED
  BY <1>1, <1>2

\* What a pair leaves, and what it sets.
LEMMA PairWrites ==
  ASSUME NEW t, NEW given, NEW place \in DOMAIN t
  PROVE  /\ DOMAIN WithPair(t, given) = DOMAIN t
         /\ (\A p \in DOMAIN Written(given.key) : Written(given.key)[p] # place) => WithPair(t, given)[place] = t[place]
         /\ \A p \in DOMAIN Written(given.key) :
              Written(given.key)[p] = place => WithPair(t, given)[place] = given.value[p]
<1> DEFINE Parts == {i \in DOMAIN Written(given.key) : Written(given.key)[i] = place}
<1>1. /\ DOMAIN WithPair(t, given) = DOMAIN t
      /\ WithPair(t, given)[place] = IF Parts = {} THEN t[place] ELSE given.value[CHOOSE i \in Parts : TRUE]
  BY DEF WithPair
<1>2. ASSUME NEW p \in DOMAIN Written(given.key), Written(given.key)[p] = place
      PROVE  Parts # {} /\ (CHOOSE i \in Parts : TRUE) = p
  <2>1. p \in Parts
    BY <1>2
  <2>2. \A q \in Parts : q = p
    BY <1>2, WrittenIs
  <2> HIDE DEF Parts
  <2>3. (CHOOSE i \in Parts : TRUE) \in Parts
    BY <2>1
  <2> QED
    BY <2>1, <2>2, <2>3
<1> QED
  BY <1>1, <1>2

\* The tunables after each of the first pairs.
EnvSteps(s, default, tune, m) ==
  /\ s = [n \in 0 .. m |-> s[n]] /\ s[0] = default
  /\ \A n \in 1 .. m : s[n] = WithPair(s[n - 1], tune[n])

LEMMA EnvStepsExist ==
  ASSUME NEW default, NEW tune, NEW m \in Nat
  PROVE  \E s : EnvSteps(s, default, tune, m)
<1> DEFINE T == {k \in 0 .. m : ~ \E s : EnvSteps(s, default, tune, k)}
<1>1. SUFFICES ASSUME T # {} PROVE FALSE
  <2>1. m \in 0 .. m
    OBVIOUS
  <2> QED
    BY <2>1
<1>2. PICK o \in T : \A k \in T : o <= k
  BY <1>1, LeastNumber, T \in SUBSET Nat
<1>3. CASE o = 0
  <2> DEFINE t == [n \in 0 .. 0 |-> default]
  <2>1. t[0] = default /\ t = [n \in 0 .. 0 |-> t[n]]
    OBVIOUS
  <2> HIDE DEF t
  <2>2. EnvSteps(t, default, tune, 0)
    BY <2>1 DEF EnvSteps
  <2> QED
    BY <1>2, <1>3, <2>2
<1>4. CASE o # 0
  <2>1. o - 1 \in 0 .. m /\ o - 1 \notin T
    BY <1>2, <1>4
  <2>2. PICK s : EnvSteps(s, default, tune, o - 1)
    BY <2>1
  <2> DEFINE last == WithPair(s[o - 1], tune[o])
             t == [k \in 0 .. o |-> IF k < o THEN s[k] ELSE last]
  <2>3. o \in 1 .. m /\ o - 1 \in 0 .. o - 1
    BY <1>4
  <2> HIDE DEF last
  <2>4. t = [k \in 0 .. o |-> t[k]] /\ t[0] = default
    BY <2>2, <2>3 DEF EnvSteps
  <2>5. \A k \in 1 .. o : t[k] = WithPair(t[k - 1], tune[k])
    <3>1. ASSUME NEW k \in 1 .. o PROVE t[k] = WithPair(t[k - 1], tune[k])
      <4>1. t[k - 1] = s[k - 1]
        BY <2>3
      <4>2. CASE k = o
        BY <2>3, <4>1, <4>2 DEF last
      <4>3. CASE k # o
        <5>1. k \in 1 .. o - 1 /\ t[k] = s[k]
          BY <2>3, <4>3
        <5> QED
          BY <2>2, <4>1, <5>1 DEF EnvSteps
      <4> QED
        BY <4>2, <4>3
    <3> QED
      BY <3>1
  <2> HIDE DEF t
  <2>6. EnvSteps(t, default, tune, o)
    BY <2>4, <2>5 DEF EnvSteps
  <2> QED
    BY <1>2, <2>6
<1> QED
  BY <1>3, <1>4

LEMMA EnvIs ==
  ASSUME NEW default, NEW tune, NEW m \in Nat, Len(tune) = m
  PROVE  \E s : EnvSteps(s, default, tune, m) /\ TunablesFromEnv(default, tune) = s[m]
<1> DEFINE Body(s) == [n \in 0 .. m |-> IF n = 0 THEN default ELSE WithPair(s[n - 1], tune[n])]
           u == CHOOSE s : s = Body(s)
<1>1. TunablesFromEnv(default, tune) = u[m]
  BY DEF TunablesFromEnv
<1>2. PICK s : EnvSteps(s, default, tune, m)
  BY EnvStepsExist
<1>3. s = Body(s)
  <2>1. \A n \in 0 .. m : s[n] = Body(s)[n]
    <3>1. ASSUME NEW n \in 0 .. m PROVE s[n] = Body(s)[n]
      <4>1. CASE n = 0
        BY <1>2, <4>1 DEF EnvSteps
      <4>2. CASE n # 0
        <5>1. n \in 1 .. m
          BY <4>2
        <5> QED
          BY <1>2, <4>2, <5>1 DEF EnvSteps
      <4> QED
        BY <4>1, <4>2
    <3> QED
      BY <3>1
  <2>2. s = [n \in 0 .. m |-> s[n]]
    BY <1>2 DEF EnvSteps
  <2> QED
    BY <2>1, <2>2
<1>4. u = Body(u)
  BY <1>3
<1> HIDE DEF u
<1>5. EnvSteps(u, default, tune, m)
  <2>1. u = [n \in 0 .. m |-> u[n]] /\ u[0] = default
    BY <1>4
  <2>2. \A n \in 1 .. m : u[n] = WithPair(u[n - 1], tune[n])
    BY <1>4
  <2> QED
    BY <2>1, <2>2 DEF EnvSteps
<1> QED
  BY <1>1, <1>5

\* What the last pair that writes a place has put there stays there.
LEMMA LastPairStays ==
  ASSUME NEW m \in Nat, NEW default, NEW tune, Len(tune) = m,
         NEW i \in 1 .. m, NEW p \in DOMAIN Written(tune[i].key),
         Written(tune[i].key)[p] \in DOMAIN default,
         \A j \in i + 1 .. m : ~Writes(tune, j, Written(tune[i].key)[p])
  PROVE  TunablesFromEnv(default, tune)[Written(tune[i].key)[p]] = tune[i].value[p]
<1> DEFINE place == Written(tune[i].key)[p]
<1>1. PICK s : EnvSteps(s, default, tune, m) /\ TunablesFromEnv(default, tune) = s[m]
  BY EnvIs
<1>2. s[0] = default /\ \A n \in 1 .. m : s[n] = WithPair(s[n - 1], tune[n])
  BY <1>1 DEF EnvSteps
<1>3. place \in DOMAIN default /\ \A j \in i + 1 .. m : ~Writes(tune, j, place)
  OBVIOUS
<1>4. Written(tune[i].key)[p] = place
  OBVIOUS
<1> HIDE DEF place
<1>5. \A n \in 0 .. m : place \in DOMAIN s[n]
  <2> DEFINE T == {n \in 0 .. m : place \notin DOMAIN s[n]}
  <2> SUFFICES ASSUME T # {} PROVE FALSE
    OBVIOUS
  <2>1. PICK o \in T : \A n \in T : o <= n
    BY LeastNumber, T \in SUBSET Nat
  <2>2. o # 0
    BY <1>2, <1>3, <2>1
  <2>3. o \in 1 .. m /\ o - 1 \in 0 .. m /\ o - 1 \notin T
    BY <2>1, <2>2
  <2>4. place \in DOMAIN s[o - 1]
    BY <2>3
  <2>5. DOMAIN s[o] = DOMAIN s[o - 1]
    BY <1>2, <2>3, <2>4, PairWrites
  <2> QED
    BY <2>1, <2>4, <2>5
<1> DEFINE T == {n \in i .. m : s[n][place] # tune[i].value[p]}
<1>6. T = {}
  <2> SUFFICES ASSUME T # {} PROVE FALSE
    OBVIOUS
  <2>1. PICK o \in T : \A n \in T : o <= n
    BY LeastNumber, T \in SUBSET Nat
  <2>2. o \in 1 .. m /\ o - 1 \in 0 .. m
    BY <2>1
  <2>3. s[o] = WithPair(s[o - 1], tune[o]) /\ place \in DOMAIN s[o - 1]
    BY <1>2, <1>5, <2>2
  <2>4. CASE o = i
    BY <1>4, <2>1, <2>3, <2>4, PairWrites
  <2>5. CASE o # i
    <3>1. o - 1 \in i .. m /\ o - 1 \notin T /\ o \in i + 1 .. m
      BY <2>1, <2>5
    <3>2. s[o - 1][place] = tune[i].value[p]
      BY <3>1
    <3>3. \A q \in DOMAIN Written(tune[o].key) : Written(tune[o].key)[q] # place
      BY <1>3, <3>1 DEF Writes
    <3>4. s[o][place] = s[o - 1][place]
      BY <2>3, <3>3, PairWrites
    <3> QED
      BY <2>1, <3>2, <3>4
  <2> QED
    BY <2>4, <2>5
<1>7. s[m][place] = tune[i].value[p]
  <2>1. m \in i .. m
    OBVIOUS
  <2> QED
    BY <1>6, <2>1
<1> QED
  BY <1>1, <1>4, <1>7

\* What a tune string sets is what the encoder runs with, of each key in it.
LEMMA SetIsRun ==
  ASSUME NEW Keys, NEW Values, NEW tune \in Tunes(Keys, Values), ~Overwritten(tune),
         NEW default, Ships(default, tune),
         NEW key \in DOMAIN TuneKeys(tune)
  PROVE  /\ TuneKeys(tune)[key] \in Seq(Values) /\ Len(TuneKeys(tune)[key]) = Len(Written(key))
         /\ \A p \in DOMAIN Written(key) :
              TunablesFromEnv(default, tune)[Written(key)[p]] = TuneKeys(tune)[key][p]
<1> DEFINE m == Len(tune)
           Of == {i \in DOMAIN tune : tune[i].key = key}
           last == CHOOSE i \in DOMAIN tune : tune[i].key = key /\ \A j \in i + 1 .. Len(tune) : tune[j].key # key
<1>1. /\ tune \in Seq([key : Keys, value : Seq(Values)]) /\ m \in Nat /\ DOMAIN tune = 1 .. m
      /\ \A i \in DOMAIN tune : tune[i].value \in Seq(Values) /\ Len(tune[i].value) = Len(Written(tune[i].key))
  <2>1. tune \in Seq([key : Keys, value : Seq(Values)]) /\ \A i \in DOMAIN tune : Len(tune[i].value) = Len(Written(tune[i].key))
    BY DEF Tunes
  <2>2. m \in Nat /\ DOMAIN tune = 1 .. m
    BY <2>1
  <2>3. \A i \in DOMAIN tune : tune[i] \in [key : Keys, value : Seq(Values)]
    <3> DEFINE PairSet == [key : Keys, value : Seq(Values)]
    <3>1. tune \in Seq(PairSet) /\ DOMAIN tune = 1 .. Len(tune)
      BY <2>1, <2>2
    <3> HIDE DEF PairSet
    <3>2. \A i \in DOMAIN tune : tune[i] \in PairSet
      BY <3>1, ElementOfSeq
    <3> QED
      BY <3>2 DEF PairSet
  <2> QED
    BY <2>1, <2>2, <2>3
<1>2. key \in {tune[i].key : i \in DOMAIN tune} /\ TuneKeys(tune)[key] = tune[last].value
  BY DEF TuneKeys
<1>3. \E i \in DOMAIN tune : tune[i].key = key /\ \A j \in i + 1 .. m : tune[j].key # key
  <2> DEFINE Left == {m - i : i \in Of}
  <2>1. Left \in SUBSET Nat /\ Left # {}
    BY <1>1, <1>2
  <2>2. PICK n \in Left : \A k \in Left : n <= k
    BY <2>1, LeastNumber
  <2>3. PICK i \in Of : n = m - i
    BY <2>2
  <2>4. \A j \in i + 1 .. m : tune[j].key # key
    <3>1. ASSUME NEW j \in i + 1 .. m, tune[j].key = key PROVE FALSE
      <4>1. i \in 1 .. m /\ j \in 1 .. m
        BY <1>1, <2>3
      <4>2. j \in Of /\ m - j \in Left
        BY <1>1, <3>1, <4>1
      <4>3. n <= m - j
        BY <2>2, <4>2
      <4> QED
        BY <1>1, <2>3, <3>1, <4>1, <4>3
    <3> QED
      BY <3>1
  <2> QED
    BY <2>3, <2>4
<1>4. last \in 1 .. m /\ tune[last].key = key /\ \A j \in last + 1 .. m : tune[j].key # key
  <2>1. last \in DOMAIN tune /\ tune[last].key = key /\ \A j \in last + 1 .. m : tune[j].key # key
    BY <1>3
  <2> QED
    BY <1>1, <2>1
<1> HIDE DEF last, Of
<1>5. ASSUME NEW p \in DOMAIN Written(key)
      PROVE  TunablesFromEnv(default, tune)[Written(key)[p]] = tune[last].value[p]
  <2>1. \A j \in last + 1 .. m : ~Writes(tune, j, Written(key)[p])
    <3>1. ASSUME NEW j \in last + 1 .. m, Writes(tune, j, Written(key)[p]) PROVE FALSE
      <4>1. j \in DOMAIN tune /\ last \in DOMAIN tune /\ last < j /\ tune[j].key # key
        BY <1>1, <1>4
      <4>2. Written(key)[p] \in Range(Written(tune[last].key))
        BY <1>4 DEF Range
      <4>3. Written(key)[p] \in Range(Written(tune[j].key))
        BY <3>1 DEF Writes, Range
      <4> QED
        BY <1>4, <4>1, <4>2, <4>3 DEF Overwritten
    <3> QED
      BY <3>1
  <2>2. Written(key)[p] \in DOMAIN default
    <3>1. Written(key)[p] \in Range(Written(tune[last].key)) /\ last \in DOMAIN tune
      BY <1>1, <1>4 DEF Range
    <3> QED
      BY <3>1 DEF Ships
  <2> HIDE DEF m
  <2>3. TunablesFromEnv(default, tune)[Written(tune[last].key)[p]] = tune[last].value[p]
    <3>1. m \in Nat /\ Len(tune) = m
      BY <1>1 DEF m
    <3> QED
      BY <1>4, <2>1, <2>2, <3>1, LastPairStays
  <2> QED
    BY <1>4, <2>3
<1> QED
  BY <1>1, <1>2, <1>4, <1>5

LEMMA PairRuns ==
  ASSUME NEW Keys, NEW Values, NEW tune \in Tunes(Keys, Values), ~Overwritten(tune),
         NEW default, Ships(default, tune), NEW key \in DOMAIN TuneKeys(tune), NEW half \in BOOLEAN,
         half => key \in LayoutKeys
  PROVE  RunsWith(TunablesFromEnv(default, tune), key, half) =
           IF half THEN <<TuneKeys(tune)[key][1]>> ELSE TuneKeys(tune)[key]
<1> DEFINE got == TuneKeys(tune)[key]
           t == TunablesFromEnv(default, tune)
<1>1. /\ got \in Seq(Values) /\ Len(got) = Len(Written(key))
      /\ \A p \in DOMAIN Written(key) : t[Written(key)[p]] = got[p]
  BY SetIsRun
<1> HIDE DEF got, t
<1>2. CASE half
  <2>1. Written(key) = <<<<key, "count">>, <<key, "bits">>>>
    <3>1. key \in LayoutKeys /\ key # "alpha_ac_count" /\ key # "alpha_ac_bits"
      BY <1>2 DEF LayoutKeys
    <3> QED
      BY <3>1 DEF Written
  <2>2. t[<<key, "count">>] = got[1]
    <3>1. 1 \in DOMAIN Written(key) /\ Written(key)[1] = <<key, "count">>
      BY <2>1
    <3> QED
      BY <1>1, <3>1
  <2>3. RunsWith(t, key, half) = <<t[<<key, "count">>]>>
    BY <1>2 DEF RunsWith
  <2> QED
    BY <1>2, <2>2, <2>3 DEF got, t
<1>3. CASE ~half
  <2>1. RunsWith(t, key, half) = [p \in DOMAIN Written(key) |-> t[Written(key)[p]]]
    BY <1>3 DEF RunsWith
  <2>2. DOMAIN Written(key) = 1 .. Len(Written(key)) /\ Len(Written(key)) \in Nat
    BY WrittenIs
  <2>3. DOMAIN got = DOMAIN Written(key) /\ got = [p \in DOMAIN got |-> got[p]]
    BY <1>1, <2>2
  <2>4. RunsWith(t, key, half) = got
    BY <1>1, <2>1, <2>3
  <2> QED
    BY <1>3, <2>4 DEF got, t
<1> QED
  BY <1>2, <1>3

\* What a naming of a token says.
Forms == {"L@", "C@", "A@", "LC", "key", "unread"}
Names(named, token) ==
  /\ named.half \in BOOLEAN /\ named.split \in BOOLEAN
  /\ named.split =>
       token.form = "A@" /\ named.keys = <<"a">> /\ named.value = token.value /\ named.half = FALSE
  /\ named.half => /\ \A i \in DOMAIN named.keys : named.keys[i] \in LayoutKeys
                   /\ named.value = <<named.value[1]>>

LEMMA NamingFields ==
  ASSUME NEW token, NEW keys, NEW value, NEW half \in BOOLEAN, NEW split \in BOOLEAN,
         split => token.form = "A@" /\ keys = <<"a">> /\ value = token.value /\ half = FALSE,
         half => (\A i \in DOMAIN keys : keys[i] \in LayoutKeys) /\ value = <<value[1]>>
  PROVE  Names(Naming(keys, value, half, split), token)
<1> DEFINE named == Naming(keys, value, half, split)
<1>1. named.keys = keys /\ named.value = value /\ named.half = half /\ named.split = split
  BY DEF Naming
<1> HIDE DEF named
<1>2. Names(named, token)
  BY <1>1, Zenon DEF Names
<1> QED
  BY <1>2 DEF named

LEMMA NamingIs ==
  ASSUME NEW token, token.form \in Forms, NEW named \in NamedBy(token)
  PROVE  Names(named, token)
<1>1. CASE token.form = "L@"
  <2>1. named = Naming(<<"l1", "la1">>, token.value, FALSE, FALSE)
    BY <1>1 DEF NamedBy
  <2> QED
    BY <1>1, <2>1, NamingFields
<1>2. CASE token.form = "C@"
  <2>1. named = Naming(<<"c", "ca">>, token.value, FALSE, FALSE)
    BY <1>2 DEF NamedBy
  <2> QED
    BY <1>2, <2>1, NamingFields
<1>3. CASE token.form = "A@"
  <2>1. named = Naming(<<"a">>, token.value, FALSE, TRUE)
    BY <1>3 DEF NamedBy
  <2> QED
    BY <1>3, <2>1, NamingFields
<1>4. CASE token.form = "LC"
  <2>1. \/ named = Naming(<<"l1", "la1">>, <<token.value[1]>>, TRUE, FALSE)
        \/ named = Naming(<<"c", "ca">>, <<token.value[2]>>, TRUE, FALSE)
    BY <1>4 DEF NamedBy
  <2> DEFINE luma == <<"l1", "la1">>
             chroma == <<"c", "ca">>
             first == <<token.value[1]>>
             second == <<token.value[2]>>
  <2>2. (\A i \in DOMAIN luma : luma[i] \in LayoutKeys) /\ \A i \in DOMAIN chroma : chroma[i] \in LayoutKeys
    BY DEF LayoutKeys
  <2>3. first = <<first[1]>> /\ second = <<second[1]>>
    OBVIOUS
  <2>4. named = Naming(luma, first, TRUE, FALSE) \/ named = Naming(chroma, second, TRUE, FALSE)
    BY <2>1
  <2> HIDE DEF luma, chroma, first, second
  <2> QED
    BY <2>2, <2>3, <2>4, NamingFields
<1>5. CASE token.form = "key"
  <2>1. named = Naming(<<KeyNamed(token.key)>>, token.value, FALSE, FALSE)
    BY <1>5 DEF NamedBy
  <2> QED
    BY <1>5, <2>1, NamingFields
<1>6. CASE token.form = "unread"
  BY <1>6 DEF NamedBy
<1> QED
  BY <1>1, <1>2, <1>3, <1>4, <1>5, <1>6 DEF Forms

\* An arm that holds to its label runs with what the label names.
LEMMA HoldsRuns ==
  ASSUME NEW Keys, NEW Values, NEW tune \in Tunes(Keys, Values), ~Overwritten(tune),
         NEW default, Ships(default, tune), NEW token, NEW named, Names(named, token),
         NEW i \in DOMAIN named.keys, named.keys[i] \in DOMAIN TuneKeys(tune),
         IF named.half THEN TuneKeys(tune)[named.keys[i]][1] = named.value[1]
         ELSE TuneKeys(tune)[named.keys[i]] = named.value
  PROVE  RunsWith(TunablesFromEnv(default, tune), named.keys[i], named.half) = named.value
<1> DEFINE key == named.keys[i]
           half == named.half
<1>1. key \in DOMAIN TuneKeys(tune) /\ half \in BOOLEAN /\ (half => key \in LayoutKeys)
  BY DEF Names
<1>2. IF half THEN named.value = <<TuneKeys(tune)[key][1]>> ELSE TuneKeys(tune)[key] = named.value
  BY DEF Names
<1> HIDE DEF key, half
<1>3. RunsWith(TunablesFromEnv(default, tune), key, half) =
        IF half THEN <<TuneKeys(tune)[key][1]>> ELSE TuneKeys(tune)[key]
  BY <1>1, PairRuns
<1> QED
  BY <1>2, <1>3 DEF key, half

\* So does one whose alpha layout is written in two keys.
LEMMA SplitRuns ==
  ASSUME NEW Keys, NEW Values, NEW tune \in Tunes(Keys, Values), ~Overwritten(tune),
         NEW default, Ships(default, tune), NEW named, named.half = FALSE,
         named.value \in Seq(Values), Len(named.value) = 2,
         SplitHolds(named, TuneKeys(tune))
  PROVE  RunsWith(TunablesFromEnv(default, tune), "a", named.half) = named.value
<1> DEFINE t == TunablesFromEnv(default, tune)
           count == TuneKeys(tune)["alpha_ac_count"]
           bits == TuneKeys(tune)["alpha_ac_bits"]
<1>1. /\ "alpha_ac_count" \in DOMAIN TuneKeys(tune) /\ count = <<named.value[1]>>
      /\ "alpha_ac_bits" \in DOMAIN TuneKeys(tune) /\ bits = <<named.value[2]>>
  BY DEF SplitHolds
<1>2. /\ Written("alpha_ac_count") = <<<<"a", "count">>>> /\ Written("alpha_ac_bits") = <<<<"a", "bits">>>>
      /\ Written("a") = <<<<"a", "count">>, <<"a", "bits">>>>
  BY DEF Written, LayoutKeys
<1>3. \A p \in DOMAIN Written("alpha_ac_count") : t[Written("alpha_ac_count")[p]] = count[p]
  BY <1>1, SetIsRun
<1>4. \A p \in DOMAIN Written("alpha_ac_bits") : t[Written("alpha_ac_bits")[p]] = bits[p]
  BY <1>1, SetIsRun
<1> HIDE DEF t, count, bits
<1>5. t[<<"a", "count">>] = named.value[1] /\ t[<<"a", "bits">>] = named.value[2]
  <2>1. 1 \in DOMAIN Written("alpha_ac_count") /\ Written("alpha_ac_count")[1] = <<"a", "count">>
    BY <1>2
  <2>2. 1 \in DOMAIN Written("alpha_ac_bits") /\ Written("alpha_ac_bits")[1] = <<"a", "bits">>
    BY <1>2
  <2>3. count[1] = named.value[1] /\ bits[1] = named.value[2]
    BY <1>1
  <2>4. t[Written("alpha_ac_count")[1]] = count[1] /\ t[Written("alpha_ac_bits")[1]] = bits[1]
    BY <1>3, <1>4, <2>1, <2>2
  <2> QED
    BY <2>1, <2>2, <2>3, <2>4
<1>6. RunsWith(t, "a", FALSE) = <<t[<<"a", "count">>], t[<<"a", "bits">>]>>
  <2>1. RunsWith(t, "a", FALSE) = [p \in DOMAIN Written("a") |-> t[Written("a")[p]]]
    BY DEF RunsWith
  <2>2. DOMAIN Written("a") = 1 .. 2 /\ Written("a")[1] = <<"a", "count">> /\ Written("a")[2] = <<"a", "bits">>
    BY <1>2
  <2> DEFINE one == <<"a", "count">>
             two == <<"a", "bits">>
             W == Written("a")
  <2>3. RunsWith(t, "a", FALSE) = [p \in 1 .. 2 |-> t[W[p]]] /\ W[1] = one /\ W[2] = two
    BY <2>1, <2>2
  <2> HIDE DEF one, two, W
  <2> DEFINE parts == [p \in 1 .. 2 |-> t[W[p]]]
             both == <<t[one], t[two]>>
  <2>4. parts = both
    <3>1. parts[1] = both[1] /\ parts[2] = both[2]
      BY <2>3
    <3>2. DOMAIN parts = 1 .. 2 /\ DOMAIN both = 1 .. 2 /\ parts = [p \in 1 .. 2 |-> parts[p]]
          /\ both = [p \in 1 .. 2 |-> both[p]]
      OBVIOUS
    <3>3. 1 .. 2 = {1, 2}
      OBVIOUS
    <3> HIDE DEF parts, both
    <3> QED
      BY <3>1, <3>2, <3>3
  <2> QED
    BY <2>3, <2>4 DEF one, two
<1>7. named.value = <<named.value[1], named.value[2]>>
  OBVIOUS
<1> QED
  BY <1>5, <1>6, <1>7 DEF t

\* An arm whose tune string writes no place by two keys, and whose label can be read.
ArmOf(arm, Keys, Values) ==
  /\ arm.tune \in Tunes(Keys, Values) /\ ~Overwritten(arm.tune)
  /\ \A token \in arm.label :
       /\ token.form \in Forms
       /\ token.form = "A@" => token.value \in Seq(Values) /\ Len(token.value) = 2

LEMMA NoProblemNoLie ==
  ASSUME NEW Keys, NEW Values, NEW arm, ArmOf(arm, Keys, Values), Problems(arm) = {},
         NEW defaults, \A default \in defaults : Ships(default, arm.tune)
  PROVE  ~Lies(arm, defaults)
<1> SUFFICES ASSUME Lies(arm, defaults) PROVE FALSE
  OBVIOUS
<1> DEFINE tune == arm.tune
<1>1. PICK named \in NamedConstants(arm.label) :
        \A key \in Range(named.keys) :
          \E default \in defaults :
            RunsWith(TunablesFromEnv(default, tune), key, named.half) # named.value
  BY DEF Lies
<1>2. Holds(named, TuneKeys(tune))
  BY <1>1 DEF Problems
<1>3. PICK token \in arm.label : named \in NamedBy(token)
  BY <1>1 DEF NamedConstants
<1>4. /\ tune \in Tunes(Keys, Values) /\ ~Overwritten(tune) /\ token.form \in Forms
      /\ token.form = "A@" => token.value \in Seq(Values) /\ Len(token.value) = 2
  BY <1>3 DEF ArmOf
<1>5. Names(named, token)
  BY <1>3, <1>4, NamingIs
<1>6. \A default \in defaults : Ships(default, tune)
  OBVIOUS
<1> HIDE DEF tune
<1>7. CASE named.split /\ "a" \notin DOMAIN TuneKeys(tune)
  <2>1. SplitHolds(named, TuneKeys(tune))
    BY <1>2, <1>7 DEF Holds
  <2>2. named.keys = <<"a">> /\ named.half = FALSE /\ named.value \in Seq(Values) /\ Len(named.value) = 2
    BY <1>4, <1>5, <1>7 DEF Names
  <2>3. "a" \in Range(named.keys)
    BY <2>2 DEF Range
  <2>4. PICK default \in defaults : RunsWith(TunablesFromEnv(default, tune), "a", named.half) # named.value
    BY <1>1, <2>3
  <2>5. Ships(default, tune)
    BY <1>6
  <2> QED
    BY <1>4, <2>1, <2>2, <2>4, <2>5, SplitRuns
<1>8. CASE ~(named.split /\ "a" \notin DOMAIN TuneKeys(tune))
  <2>1. PairHolds(named, TuneKeys(tune))
    BY <1>2, <1>8 DEF Holds
  <2>2. PICK i \in DOMAIN named.keys :
          /\ named.keys[i] \in DOMAIN TuneKeys(tune)
          /\ IF named.half THEN TuneKeys(tune)[named.keys[i]][1] = named.value[1]
             ELSE TuneKeys(tune)[named.keys[i]] = named.value
    BY <2>1 DEF PairHolds
  <2>3. named.keys[i] \in Range(named.keys)
    BY DEF Range
  <2>4. PICK default \in defaults :
          RunsWith(TunablesFromEnv(default, tune), named.keys[i], named.half) # named.value
    BY <1>1, <2>3
  <2>5. Ships(default, tune)
    BY <1>6
  <2> QED
    BY <1>4, <1>5, <2>2, <2>4, <2>5, HoldsRuns
<1> QED
  BY <1>7, <1>8

\* Where the check of the labels is green, no arm of a config runs with anything but
\* what its label names, or as few as the config has declared: of any number of arms,
\* whatever keys, values and labels they have, and whatever ships as the defaults,
\* where no tune string writes one place by two keys (verify-sweep-labels.ts).
THEOREM GreenLabelsHold ==
  ASSUME NEW Keys, NEW Values, NEW n \in Nat, NEW declared, DOMAIN declared.arms = 1 .. n,
         declared.optOut \in Nat \cup {NoOptOut},
         \A i \in 1 .. n : ArmOf(declared.arms[i], Keys, Values),
         NEW defaults,
         \A default \in defaults : \A i \in 1 .. n : Ships(default, declared.arms[i].tune)
  PROVE  NoMoreLies(declared, defaults)
<1> SUFFICES ASSUME LabelsGreen({declared})
             PROVE  Cardinality({i \in DOMAIN declared.arms : Lies(declared.arms[i], defaults)})
                      <= (IF declared.optOut = NoOptOut THEN 0 ELSE declared.optOut)
  BY DEF NoMoreLies
<1> DEFINE lying == {i \in DOMAIN declared.arms : Lies(declared.arms[i], defaults)}
           hits == Hits(declared)
<1>1. lying \subseteq hits
  <2>1. ASSUME NEW i \in 1 .. n, Problems(declared.arms[i]) = {} PROVE ~Lies(declared.arms[i], defaults)
    BY <2>1, NoProblemNoLie
  <2> QED
    BY <2>1 DEF Hits
<1>2. hits \subseteq 1 .. n
  BY DEF Hits
<1>3. declared.optOut = NoOptOut => hits = {}
  BY DEF LabelsGreen
<1>4. declared.optOut # NoOptOut => Cardinality(hits) = declared.optOut
  BY DEF LabelsGreen, OptOutEarned
<1> HIDE DEF lying, hits
<1>5. IsFiniteSet(hits)
  <2>1. 1 \in Int /\ n \in Int
    OBVIOUS
  <2>2. IsFiniteSet(1 .. n)
    BY <2>1, FS_Interval
  <2> QED
    BY <1>2, <2>2, FS_Subset
<1>6. Cardinality(lying) <= Cardinality(hits)
  BY <1>1, <1>5, FS_Subset
<1>7. Cardinality(lying) <= (IF declared.optOut = NoOptOut THEN 0 ELSE declared.optOut)
  <2>1. CASE declared.optOut = NoOptOut
    <3>1. lying = {}
      BY <1>1, <1>3, <2>1
    <3> QED
      BY <2>1, <3>1, FS_EmptySet
  <2>2. CASE declared.optOut # NoOptOut
    BY <1>4, <1>6, <2>2
  <2> QED
    BY <2>1, <2>2
<1> QED
  BY <1>7 DEF lying
=============================================================================
