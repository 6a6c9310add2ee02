---------------------------- MODULE MetricCache -----------------------------
(***************************************************************************)
(* tools/comparison/src/metrics/iqa.ts: scoring a pair of images with the  *)
(* iqa-cli binary, and the cache of scores on disk that all processes of   *)
(* the harness share.                                                      *)
(*                                                                         *)
(* A process scores many pairs at a time. Between two awaits nothing else  *)
(* of that process runs, but other processes do, and it may be killed      *)
(* there: file operations are steps of their own, and a process that is in *)
(* the middle of them is "at" one task. Scores are a function of the       *)
(* binary, the pixels and the metric, so that a stale or mixed-up score    *)
(* shows.                                                                  *)
(***************************************************************************)
EXTENDS Naturals, FiniteSets

CONSTANTS
  Procs,      \* runs of the harness
  Tasks,      \* calls of computeIqaMetrics
  Owner,      \* the process each task belongs to
  Pairs,      \* the pixels and dimensions of two images
  Metrics,    \* the fields of IqaMetrics
  Always,     \* the metrics that are valid for every image
  Requests,   \* what metricsForDims returns
  LastBinary, \* bound: binaries 1, 2, ... are installed one after the other
  Modes,      \* the values of --allow-missing-iqa
  Score,      \* what a binary says of a pair and a metric: a number or NotComputed
  NotComputed,  \* a metric that was not computed
  Torn        \* a file written in part

ASSUME OwnerAssumption == Owner \in [Tasks -> Procs]
ASSUME MetricsAssumption ==
  Always \subseteq Metrics /\ Requests \subseteq SUBSET Metrics /\ Modes \subseteq BOOLEAN
ASSUME BinaryAssumption == LastBinary \in Nat \ {0}
ASSUME ScoreAssumption == DOMAIN Score = (1 .. LastBinary) \X Pairs \X Metrics

VARIABLES
  installed,  \* the binary that IQA_CLI is now
  proc,       \* "off", "up" or "over", for each process
  allow,      \* allowMissingIqa
  binary,     \* the binary that was installed when the process started
  at,         \* tasks whose files their process is writing, it does nothing else
  pc,         \* where each task is, or how it ended
  pair, want, \* what it was asked: the images and the requested metrics
  produced,   \* the metrics that were computed
  answer,     \* what it returned, or is about to
  files,      \* the entries of the cache, by key
  temps,      \* temporary files, by the task that writes them
  dirs        \* tasks whose working directory exists

procVars == <<proc, allow, binary>>
taskVars == <<pair, want>>
vars == <<installed, procVars, at, pc, taskVars, produced, answer, files, temps, dirs>>

\* The banner "unknown".
Unknown == 0

\* iqaVersion: the banner is captured only by a run that insists on iqa-cli.
iqaVersion(p) == IF allow[p] THEN Unknown ELSE binary[p]

cacheKey(v, x, set) == <<v, x, set>>

\* The seven fields, from a run of binary v on pair x for a set of metrics.
IqaMetricsOf(v, x, set) == [m \in Metrics |-> IF m \in set THEN Score[<<v, x, m>>] ELSE NotComputed]
NullMetrics == [m \in Metrics |-> NotComputed]

Ended == {"hit", "scored", "reduced", "degraded", "failed"}

\* The event loop of t's process is free to run t.
Turn(t) == proc[Owner[t]] = "up" /\ (\A s \in at : Owner[s] # Owner[t])

Init ==
  /\ installed = 1
  /\ proc = [p \in Procs |-> "off"]
  /\ allow = [p \in Procs |-> FALSE] /\ binary = [p \in Procs |-> 1]
  /\ at = {}
  /\ pc = [t \in Tasks |-> "new"]
  /\ pair \in [Tasks -> Pairs] /\ want \in [Tasks -> Requests]
  /\ produced = [t \in Tasks |-> {}]
  /\ answer = [t \in Tasks |-> NullMetrics]
  /\ files = <<>> /\ temps = <<>> /\ dirs = {}

-----------------------------------------------------------------------------
(* Processes *)

\* ensureIqaAvailable
Start(p) ==
  /\ proc[p] = "off"
  /\ proc' = [proc EXCEPT ![p] = "up"]
  /\ \E a \in Modes : allow' = [allow EXCEPT ![p] = a]
  /\ binary' = [binary EXCEPT ![p] = installed]
  /\ UNCHANGED <<installed, at, pc, taskVars, produced, answer, files, temps, dirs>>

\* The process ends: with its last task, with an IqaError that aborts the run
\* while other tasks are under way, or because it was killed at any point.
Stop(p) ==
  /\ proc[p] = "up"
  /\ proc' = [proc EXCEPT ![p] = "over"]
  /\ at' = {t \in at : Owner[t] # p}
  /\ pc' = [t \in Tasks |-> IF Owner[t] = p /\ pc[t] \notin Ended THEN "lost" ELSE pc[t]]
  /\ UNCHANGED <<installed, allow, binary, taskVars, produced, answer, files, temps, dirs>>

\* External: iqa-cli is upgraded between runs.
Upgrade ==
  /\ installed < LastBinary /\ \A p \in Procs : proc[p] # "up"
  /\ installed' = installed + 1
  /\ UNCHANGED <<procVars, at, pc, taskVars, produced, answer, files, temps, dirs>>

-----------------------------------------------------------------------------
(* computeIqaMetrics *)

\* Nothing to compute is an error of the caller.
Empty(t) ==
  /\ Turn(t) /\ pc[t] = "new" /\ want[t] = {}
  /\ pc' = [pc EXCEPT ![t] = "failed"]
  /\ UNCHANGED <<installed, procVars, at, taskVars, produced, answer, files, temps, dirs>>

KeyOf(t, set) == cacheKey(iqaVersion(Owner[t]), pair[t], set)

\* A file that does not parse, or lacks a field, is a miss.
Cached(k) == k \in DOMAIN files /\ files[k] # Torn

Hit(t) ==
  /\ Turn(t) /\ pc[t] = "new" /\ want[t] # {}
  /\ Cached(KeyOf(t, want[t]))
  /\ answer' = [answer EXCEPT ![t] = files[KeyOf(t, want[t])]]
  /\ pc' = [pc EXCEPT ![t] = "hit"]
  /\ UNCHANGED <<installed, procVars, at, taskVars, produced, files, temps, dirs>>

\* mkdtemp, the two images, and on to the first run of iqa-cli.
Miss(t) ==
  /\ Turn(t) /\ pc[t] = "new" /\ want[t] # {}
  /\ ~ Cached(KeyOf(t, want[t]))
  /\ dirs' = dirs \cup {t}
  /\ pc' = [pc EXCEPT ![t] = "full run"]
  /\ UNCHANGED <<installed, procVars, at, taskVars, produced, answer, files, temps>>

\* The images cannot be written: no IqaError, and no fallback.
Unencoded(t) ==
  /\ Turn(t) /\ pc[t] = "full run"
  /\ pc' = [pc EXCEPT ![t] = "failed"]
  /\ dirs' = dirs \ {t}
  /\ UNCHANGED <<installed, procVars, at, taskVars, produced, answer, files, temps>>

\* A run of iqa-cli succeeds; what follows, up to the return, is one turn.
Run(t) ==
  /\ Turn(t) /\ pc[t] \in {"full run", "reduced run"}
  /\ produced' = [produced EXCEPT ![t] = IF pc[t] = "full run" THEN want[t]
                                                               ELSE want[t] \cap Always]
  /\ answer' = [answer EXCEPT ![t] = IqaMetricsOf(installed, pair[t], produced'[t])]
  /\ at' = at \cup {t}
  /\ pc' = [pc EXCEPT ![t] = "open"]
  /\ UNCHANGED <<installed, procVars, taskVars, files, temps, dirs>>

\* It fails, and there are metrics left that are valid for every image.
FallBack(t) ==
  /\ Turn(t) /\ pc[t] = "full run"
  /\ want[t] \cap Always \notin {{}, want[t]}
  /\ pc' = [pc EXCEPT ![t] = "reduced run"]
  /\ UNCHANGED <<installed, procVars, at, taskVars, produced, answer, files, temps, dirs>>

\* It fails and nothing is left to try; finally cleans up.
GiveUp(t) ==
  /\ Turn(t)
  /\ \/ pc[t] = "full run" /\ want[t] \cap Always \in {{}, want[t]}
     \/ pc[t] = "reduced run"
  /\ pc' = [pc EXCEPT ![t] = IF allow[Owner[t]] THEN "degraded" ELSE "failed"]
  /\ dirs' = dirs \ {t}
  /\ UNCHANGED <<installed, procVars, at, taskVars, produced, answer, files, temps>>

-----------------------------------------------------------------------------
(* cacheWrite, in the turn of the run that produced the entry *)

\* Mutant: the entry is written in place.
OpenInPlace(t) ==
  /\ pc[t] = "open"
  /\ files' = [k \in DOMAIN files \cup {KeyOf(t, produced[t])} |->
                 IF k = KeyOf(t, produced[t]) THEN Torn ELSE files[k]]
  /\ temps' = [s \in DOMAIN temps \cup {t} |-> IF s = t THEN Torn ELSE temps[s]]
  /\ pc' = [pc EXCEPT ![t] = "write"]
  /\ UNCHANGED <<installed, procVars, at, taskVars, produced, answer, dirs>>

\* writeFileSync begins with a file that has nothing in it.
Open(t) ==
  /\ pc[t] = "open"
  /\ temps' = [s \in DOMAIN temps \cup {t} |-> IF s = t THEN Torn ELSE temps[s]]
  /\ pc' = [pc EXCEPT ![t] = "write"]
  /\ UNCHANGED <<installed, procVars, at, taskVars, produced, answer, files, dirs>>

Write(t) ==
  /\ pc[t] = "write"
  /\ temps' = [temps EXCEPT ![t] = answer[t]]
  /\ pc' = [pc EXCEPT ![t] = "rename"]
  /\ UNCHANGED <<installed, procVars, at, taskVars, produced, answer, files, dirs>>

\* The entry goes under the key of what was produced.
Rename(t) ==
  /\ pc[t] = "rename"
  /\ LET new == KeyOf(t, produced[t])
     IN  files' = [k \in DOMAIN files \cup {new} |-> IF k = new THEN temps[t] ELSE files[k]]
  /\ temps' = [s \in DOMAIN temps \ {t} |-> temps[s]]
  /\ pc' = [pc EXCEPT ![t] = "cleanup"]
  /\ UNCHANGED <<installed, procVars, at, taskVars, produced, answer, dirs>>

\* A file operation fails; that is caught, and the entry goes without.
Unwritten(t) ==
  /\ pc[t] \in {"open", "write", "rename"}
  /\ pc' = [pc EXCEPT ![t] = "cleanup"]
  /\ UNCHANGED <<installed, procVars, at, taskVars, produced, answer, files, temps, dirs>>

\* finally, and return.
Return(t) ==
  /\ pc[t] = "cleanup"
  /\ dirs' = dirs \ {t}
  /\ at' = at \ {t}
  /\ pc' = [pc EXCEPT ![t] = IF produced[t] = want[t] THEN "scored" ELSE "reduced"]
  /\ UNCHANGED <<installed, procVars, taskVars, produced, answer, files, temps>>

-----------------------------------------------------------------------------
Task(t) ==
  \/ Empty(t) \/ Hit(t) \/ Miss(t) \/ Unencoded(t) \/ Run(t) \/ FallBack(t) \/ GiveUp(t)
  \/ Open(t) \/ Write(t) \/ Rename(t) \/ Unwritten(t) \/ Return(t)

Over == (\A p \in Procs : proc[p] = "over") /\ UNCHANGED vars

Next ==
  \/ Upgrade
  \/ \E p \in Procs : Start(p) \/ Stop(p)
  \/ \E t \in Tasks : Task(t)
  \/ Over

Spec == Init /\ [][Next]_vars

-----------------------------------------------------------------------------
(* Properties *)

Entries == [Metrics -> {Score[x] : x \in DOMAIN Score} \cup {NotComputed}]

\* Every variable has its type.
TypeOK ==
  /\ installed \in 1 .. LastBinary
  /\ proc \in [Procs -> {"off", "up", "over"}]
  /\ allow \in [Procs -> BOOLEAN] /\ binary \in [Procs -> 1 .. LastBinary]
  /\ at \subseteq Tasks
  /\ pc \in [Tasks -> {"new", "full run", "reduced run", "open", "write", "rename",
                       "cleanup", "lost"} \cup Ended]
  /\ pair \in [Tasks -> Pairs] /\ want \in [Tasks -> Requests]
  /\ produced \in [Tasks -> SUBSET Metrics] /\ answer \in [Tasks -> Entries]
  /\ DOMAIN files \subseteq (0 .. LastBinary) \X Pairs \X SUBSET Metrics
  /\ \A k \in DOMAIN files : files[k] \in Entries \cup {Torn}
  /\ DOMAIN temps \subseteq Tasks /\ \A s \in DOMAIN temps : temps[s] \in Entries \cup {Torn}
  /\ dirs \subseteq Tasks

\* An entry of the cache is whole and is what its key says, whoever was killed
\* while writing it, wrote it at the same time or got a part of the metrics only.
EntriesFaithful ==
  \A k \in DOMAIN files :
    \E v \in 1 .. LastBinary :
      /\ files[k] = IqaMetricsOf(v, k[2], k[3])
      /\ k[1] # Unknown => v = k[1]

\* No call answers less than it was asked for because an earlier one failed, nor
\* mixes metrics, nor, where iqa-cli is insisted on, serves another binary's
\* scores: "one transient iqa-cli failure permanent" is what went wrong before.
AnswersGenuine ==
  \A t \in Tasks : pc[t] \in {"hit", "scored", "reduced"} =>
    \E v \in 1 .. LastBinary :
      /\ answer[t] = IqaMetricsOf(v, pair[t], IF pc[t] = "reduced" THEN want[t] \cap Always
                                                                  ELSE want[t])
      /\ ~ allow[Owner[t]] => v = binary[Owner[t]]

\* Both at once: what the cache holds, and what is answered from it or past it.
ScoresGenuine == EntriesFaithful /\ AnswersGenuine

=============================================================================
