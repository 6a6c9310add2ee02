------------------------------- MODULE Sweep -------------------------------
(***************************************************************************)
(* tools/comparison/src: the programs that take a measurement (sweep.ts,   *)
(* rd-budget.ts, and main.ts for the report) and the file under results/   *)
(* that one of them leaves behind (results.ts).                            *)
(*                                                                         *)
(* One program runs at a time, on the corpus of module Corpus, while a     *)
(* developer edits, commits and builds the codec, moves decisions through  *)
(* the register, and may kill the program between any two of its steps. A  *)
(* score is the build that the arm was encoded with, which is all that the *)
(* properties tell apart.                                                  *)
(***************************************************************************)
EXTENDS Corpus

CONSTANTS
  Commands,   \* what is run: the tool, the name of its config or --out, the
              \*   split, the corpus, the decision, and whether it is partial
              \*   (--max-images, --formats or --out-dir)
  Arms,       \* how many variants a config declares
  Decisions,  \* headings of the register
  MaxEdits,   \* how often the codec is edited
  MaxRuns     \* how often a tool is started

Tools == {"sweep", "rd-budget", "report"}
Corpora == {"photo", "alpha", "graphic", "all"}
Path(c) == <<c.name, c.split>>
Paths == {Path(c) : c \in Commands}

\* Names are unique to a tool, and no name ends like another's split suffix.
ASSUME CommandsAssumption ==
  /\ Commands # {} /\ IsFiniteSet(Commands)
  /\ \A c \in Commands :
       /\ c.tool \in Tools /\ c.split \in Splits \cup {"all"} /\ c.corpus \in Corpora
       /\ c.decision \in Decisions \cup {"none"} /\ c.partial \in BOOLEAN
       /\ c.tool = "report" => c.split = "all" /\ c.decision = "none"
  /\ \A c, d \in Commands : c.name = d.name => c.tool = d.tool /\ c.corpus = d.corpus
ASSUME EffortAssumption == Arms \in Nat \ {0} /\ MaxEdits \in Nat /\ MaxRuns \in Nat

NoRow == 0 - 1              \* an arm that rd-budget leaves out of its rows
Builds == 0 .. MaxEdits

VARIABLES
  src,        \* the revision of the codec in the working tree
  head,       \* the one that is committed; the tree is dirty if they differ
  bin,        \* the one that the binaries were built from
  register,   \* the status of each decision in spec/V0.8-DECISIONS.md
  run,        \* the program that is running
  results,    \* tools/comparison/results
  runs        \* how many programs were started

sweepVars == <<cache, load, src, head, bin, register, run, results, runs>>

NoOpening == [decision |-> "none", status |-> "none"]
NoProvenance == [rev |-> 0, dirty |-> FALSE, binary |-> 0, off |-> {}]
NoCommand == CHOOSE c \in Commands : TRUE

Idle == [pc |-> "idle", cmd |-> NoCommand, opening |-> NoOpening, inputs |-> {},
         provenance |-> NoProvenance, scores |-> <<>>]

NoResult == [at |-> "absent", cmd |-> NoCommand, opening |-> NoOpening, images |-> {},
             provenance |-> NoProvenance, scores |-> <<>>]

SweepInit ==
  /\ \E c \in {"absent", "pinned"} :
       cache = [i \in Images |-> IF Table[i] = "none" THEN "other" ELSE c]
  /\ load = Off
  /\ src = 0 /\ head = 0 /\ bin = 0
  /\ register = [d \in Decisions |-> "open"]
  /\ run = Idle /\ runs = 0
  /\ results = [p \in Paths |-> NoResult]

-----------------------------------------------------------------------------
(* The developer *)

Edit ==
  /\ src < MaxEdits /\ src' = src + 1
  /\ UNCHANGED <<cache, load, head, bin, register, run, results, runs>>

Commit ==
  /\ head # src /\ head' = src
  /\ UNCHANGED <<cache, load, src, bin, register, run, results, runs>>

\* The task that starts a sweep builds first; a build may also come at any time.
Build ==
  /\ bin # src /\ bin' = src
  /\ UNCHANGED <<cache, load, src, head, register, run, results, runs>>

NextStatus == [open |-> "frozen", frozen |-> "decided"]

Register(d) ==
  /\ register[d] \in DOMAIN NextStatus
  /\ register' = [register EXCEPT ![d] = NextStatus[@]]
  /\ UNCHANGED <<cache, load, src, head, bin, run, results, runs>>

\* What the message of a failed pin asks for.
DeleteFixture(i) ==
  /\ run.pc = "idle" /\ i \in Pinned /\ cache[i] = "other"
  /\ cache' = [cache EXCEPT ![i] = "absent"]
  /\ UNCHANGED <<load, src, head, bin, register, run, results, runs>>

-----------------------------------------------------------------------------
(* The gate *)

Start(c) ==
  /\ run.pc = "idle" /\ runs < MaxRuns /\ runs' = runs + 1
  /\ run' = [Idle EXCEPT !.pc = "gate", !.cmd = c]
  /\ UNCHANGED <<cache, load, src, head, bin, register, results>>

\* A sealed split is read whole, and a decision is only about a sealed split.
DecisionMisplaced(c) ==
  IF c.split = "holdout2" THEN c.partial ELSE c.decision # "none"

SweepRefuses(c) ==
  \/ DecisionMisplaced(c)
  \/ c.split = "all"
  \/ c.split = "holdout" /\ c.corpus \in {"photo", "all"}
  \/ c.split = "holdout2" /\ c.corpus = "all"

RdBudgetRefuses(c) == DecisionMisplaced(c) \/ c.split = "holdout"

\* Refused whatever the register says.
Refused(c) ==
  CASE c.tool = "sweep"     -> SweepRefuses(c)
    [] c.tool = "rd-budget" -> RdBudgetRefuses(c)
    [] OTHER                -> FALSE

\* openHoldout2: one decision, and frozen; what the register said is kept.
Opening(c) == [decision |-> c.decision,
               status   |-> IF c.decision = "none" THEN "none" ELSE register[c.decision]]

HoldoutOpens(c) == Opening(c).status = "frozen"
HoldoutUnread(c) == results[Path(c)].at = "absent"

\* What a tool makes sure of before it looks at the files: a sweep no more than
\* its corpus needs, as any other stage can only fail the run.
If(condition, stage) == IF condition THEN <<stage>> ELSE <<>>

SweepStages(c) ==
  LET photo == c.corpus \in {"photo", "all"} IN
  <<"generated", "natural">>
    \o If(photo /\ c.split = "tune2", "kodak")
    \o If(photo /\ c.split = "holdout2", "sealed")
    \o If(c.corpus \in {"alpha", "all"}, "alpha")
    \o If(c.corpus \in {"graphic", "all"}, "graphic")

RdBudgetStages(c) ==
  <<"generated", "natural">>
    \o If(c.split \in {"tune2", "all"}, "kodak")
    \o If(c.split = "holdout2", "sealed")

ReportStages == <<"generated", "natural", "kodak">>

Stages(c) ==
  CASE c.tool = "sweep"     -> SweepStages(c)
    [] c.tool = "rd-budget" -> RdBudgetStages(c)
    [] OTHER                -> ReportStages

Stop == run' = Idle /\ load' = Off

\* Mutant: a second reading is not refused.
GateOnce ==
  LET c == run.cmd IN
  /\ run.pc = "gate"
  /\ IF Refused(c) \/ (c.split = "holdout2" /\ ~HoldoutOpens(c))
       THEN Stop
       ELSE /\ run' = [run EXCEPT !.pc = "load",
                         !.opening = IF c.split = "holdout2" THEN Opening(c) ELSE NoOpening]
            /\ Begin(Stages(c))
  /\ UNCHANGED <<cache, src, head, bin, register, results, runs>>

Gate ==
  LET c == run.cmd IN
  /\ run.pc = "gate"
  /\ IF Refused(c) \/ (c.split = "holdout2" /\ ~(HoldoutOpens(c) /\ HoldoutUnread(c)))
       THEN Stop
       ELSE /\ run' = [run EXCEPT !.pc = "load",
                         !.opening = IF c.split = "holdout2" THEN Opening(c) ELSE NoOpening]
            /\ Begin(Stages(c))
  /\ UNCHANGED <<cache, src, head, bin, register, results, runs>>

-----------------------------------------------------------------------------
(* The corpus, and what of it is scored *)

Load ==
  /\ run.pc = "load" /\ load.at \notin {"loaded", "failed"}
  /\ LoadStep(run.cmd.split, run.opening # NoOpening)
  /\ UNCHANGED <<src, head, bin, register, run, results, runs>>

LoadFailed ==
  /\ run.pc = "load" /\ load.at = "failed"
  /\ Stop
  /\ UNCHANGED <<cache, src, head, bin, register, results, runs>>

\* Every loader takes the files it finds, whoever fetched them.
Found == {i \in Images : cache[i] # "absent"}

SweepSelects(c) == {i \in Found : SplitFor(i) = c.split /\ InCorpus(i, c.corpus)}
RdBudgetSelects(c) == {i \in Found : InCorpus(i, "photo") /\ InSplit(i, c.split)}

Selected(c) ==
  CASE c.tool = "sweep"     -> SweepSelects(c)
    [] c.tool = "rd-budget" -> RdBudgetSelects(c)
    [] OTHER                -> OpenOnes(Found)

\* A cut file does not decode; nothing selected, or a tag that does not build, ends it.
Select ==
  /\ run.pc = "load" /\ load.at = "loaded"
  /\ \/ /\ \/ Selected(run.cmd) = {}
           \/ \E i \in Selected(run.cmd) : cache[i] = "other"
           \/ run.cmd.tool = "sweep"
        /\ Stop
     \/ /\ load' = Off
        /\ \E S \in IF run.cmd.partial THEN SUBSET Selected(run.cmd) ELSE {Selected(run.cmd)} :
             /\ S # {}
             /\ run' = [run EXCEPT !.pc = "capture", !.inputs = S]
  /\ UNCHANGED <<cache, src, head, bin, register, results, runs>>

\* captureProvenance, and the digests of the files; the report builds here instead.
Capture ==
  /\ run.pc = "capture"
  /\ run' = [run EXCEPT !.pc = "score",
               !.provenance = [rev |-> head, dirty |-> src # head, binary |-> bin,
                               off |-> {i \in run.inputs : cache[i] = "other"}]]
  /\ bin' = IF run.cmd.tool = "report" THEN src ELSE bin
  /\ UNCHANGED <<cache, load, src, head, register, results, runs>>

-----------------------------------------------------------------------------
(* The measurement, and the file it is kept in *)

\* The rows that an arm may have. An adapter that fails on every picture has
\* none; for the codec itself any failure is the end of the run.
VariantRows == {bin}
ChromaHashRows == {bin}
AdapterRows == {bin, NoRow}

Score ==
  /\ run.pc = "score"
  /\ \/ Stop
     \/ /\ UNCHANGED load
        /\ \E s \in IF run.cmd.tool # "rd-budget" THEN VariantRows
                    ELSE IF run.scores = <<>> THEN ChromaHashRows ELSE AdapterRows :
             run' = [run EXCEPT !.scores = Append(@, s),
                                !.pc = IF Len(run.scores) + 1 < Arms THEN "score" ELSE "save"]
  /\ UNCHANGED <<cache, src, head, bin, register, results, runs>>

\* serializeResult: the series, where they come from, and nothing derived.
Result == [at |-> "whole", cmd |-> run.cmd, opening |-> run.opening, images |-> run.inputs,
           provenance |-> run.provenance, scores |-> run.scores]

\* Only a whole run of a sweep is a result; writeFile empties the old one first.
Save ==
  /\ run.pc = "save"
  /\ \/ /\ run.cmd.tool = "report" \/ run.cmd.partial \/ run.cmd.tool = "sweep"
        /\ Stop
        /\ UNCHANGED results
     \/ /\ run.cmd.tool # "report" /\ ~run.cmd.partial
        /\ run' = [run EXCEPT !.pc = "saving"]
        /\ results' = [results EXCEPT ![Path(run.cmd)] = [NoResult EXCEPT !.at = "torn"]]
        /\ UNCHANGED load
  /\ UNCHANGED <<cache, src, head, bin, register, runs>>

Saved ==
  /\ run.pc = "saving"
  /\ Stop
  /\ results' = [results EXCEPT ![Path(run.cmd)] = Result]
  /\ UNCHANGED <<cache, src, head, bin, register, runs>>

Crash ==
  /\ run.pc # "idle"
  /\ Stop
  /\ UNCHANGED <<cache, src, head, bin, register, results, runs>>

-----------------------------------------------------------------------------
RunStep ==
  \/ Gate \/ Load \/ LoadFailed \/ Select \/ Capture \/ Score \/ Save \/ Saved

SweepNext ==
  \/ RunStep
  \/ \E c \in Commands : Start(c)
  \/ Edit \/ Commit \/ Build
  \/ \E d \in Decisions : Register(d)
  \/ \E i \in Images : DeleteFixture(i)
  \/ Crash

-----------------------------------------------------------------------------
Opened(split, partial, opening) ==
  split = "holdout2" /\ ~partial /\ opening.status = "frozen"

\* By its name or by its pin.
Sealed == {i \in Images : Prefix[i] \in SealedPrefixes \/ Declared[i] = "holdout2"}

(* A sealed picture is fetched or scored only by a whole run that the register *)
(* opened for one frozen decision, and whatever of it is committed says so: no *)
(* other split, no report and no part of a run ever reads one, although copies *)
(* of an earlier reading, and files whose pins are gone, lie among the rest.   *)
SealKept ==
  /\ run.inputs \cap Sealed # {} => Opened(run.cmd.split, run.cmd.partial, run.opening)
  /\ load.todo \cap (Holdout2Specs \cup AlphaHoldout2Specs) # {} =>
       Opened(run.cmd.split, run.cmd.partial, run.opening)
  /\ \A p \in Paths :
       results[p].images \cap Sealed # {} =>
         Opened(results[p].cmd.split, results[p].cmd.partial, results[p].opening)

(* A committed reading of the sealed split is never taken again: neither a     *)
(* second run under its name nor one that dies while it saves changes it.      *)
ReadingKept ==
  [][\A p \in Paths : p[2] = "holdout2" /\ results[p].at = "whole" =>
       results'[p] = results[p]]_results

\* What a committed result of a command should have been taken on.
Wanted(c) ==
  {i \in Pinned \ Withdrawn : /\ SplitFor(i) = c.split \/ (c.split = "all" /\ i \notin Sealed)
                              /\ InCorpus(i, IF c.tool = "sweep" THEN c.corpus ELSE "photo")}

SweepSpec == SweepInit /\ [][SweepNext]_sweepVars

(* A committed result is taken on every pinned picture of its split and corpus *)
(* and on the pinned bytes of each, however many fetches failed, were cut off  *)
(* or met another file before it, and whatever is left over from other runs.   *)
PinnedScored ==
  \A p \in Paths : results[p].at = "whole" =>
    /\ Wanted(results[p].cmd) \subseteq results[p].images
    /\ results[p].provenance.off \cap (Pinned \ Withdrawn) = {}

(* Every run ends, whatever the network does, unless it is killed.             *)
RunsEnd == run.pc # "idle" ~> run.pc = "idle"
=============================================================================
