------------------------- MODULE Experiments_proofs -------------------------
(***************************************************************************)
(* What holds of the measuring tools, and of the document that quotes      *)
(* their results, for every corpus, set of commands, register of tables    *)
(* and figures, and any number of runs: the sealed split stays sealed, a   *)
(* committed reading of it is never taken again, a committed result covers *)
(* every pinned picture of its split and corpus, and a green check means   *)
(* what it says.                                                           *)
(***************************************************************************)
EXTENDS Experiments, Integers, SequenceTheorems, FiniteSetTheorems, TLAPS

-----------------------------------------------------------------------------
(* Types *)

StageNames == {"generated", "natural", "kodak", "sealed", "alpha", "graphic"}
Statuses == {"none", "open", "frozen", "decided"}
Openings == [decision : Decisions \cup {"none"}, status : Statuses]
Provenances == [rev : Nat, dirty : BOOLEAN, binary : Nat, off : SUBSET Images]
Rows == Nat \cup {NoRow}
Loads == [at : {"off", "stage", "fetch", "write", "writing", "loaded", "failed"},
          stages : Seq(StageNames), todo : SUBSET Images, image : Images \cup {"none"},
          source : Nat, attempt : Nat]
Runs == [pc : {"idle", "gate", "load", "capture", "score", "save", "saving"},
         cmd : Commands, opening : Openings, inputs : SUBSET Images,
         provenance : Provenances, scores : Seq(Rows)]
Results == [at : {"absent", "torn", "whole"}, cmd : Commands, opening : Openings,
            images : SUBSET Images, provenance : Provenances, scores : Seq(Rows)]

CacheTypeOK == cache \in [Images -> {"absent", "pinned", "other"}]

SweepTypeOK ==
  /\ CacheTypeOK
  /\ load \in Loads
  /\ src \in Nat /\ head \in Nat /\ bin \in Nat
  /\ register \in [Decisions -> Statuses]
  /\ run \in Runs
  /\ results \in [Paths -> Results]
  /\ runs \in Nat

\* A command has a path, and a decision that the register knows or none.
LEMMA CommandTypes ==
  \A c \in Commands : c.decision \in Decisions \cup {"none"} /\ Path(c) \in Paths
BY CommandsAssumption DEF Paths

LEMMA NoCommandIsOne == NoCommand \in Commands
BY CommandsAssumption DEF NoCommand

\* What stands for nothing has the type of what it stands for.
LEMMA BlankTypes ==
  NoOpening \in Openings /\ NoProvenance \in Provenances /\ Idle \in Runs
    /\ NoResult \in Results /\ Off \in Loads
<1>1. NoOpening \in Openings /\ NoProvenance \in Provenances
  BY DEF NoOpening, NoProvenance, Openings, Provenances, Statuses
<1>2. <<>> \in Seq(Rows) /\ <<>> \in Seq(StageNames)
  BY EmptySeq
<1>3. Idle \in Runs
  BY <1>1, <1>2, NoCommandIsOne DEF Idle, Runs
<1>4. NoResult \in Results
  BY <1>1, <1>2, NoCommandIsOne DEF NoResult, Results
<1>5. Off \in Loads
  BY <1>2 DEF Off, Loads
<1> QED
  BY <1>1, <1>3, <1>4, <1>5

-----------------------------------------------------------------------------
(* The sealed pictures *)

\* A picture is sealed exactly if its split is, whichever of its name and its pin
\* says so (corpus.ts, splitFor).
LEMMA SealedSplit ==
  \A i \in Images : i \in Sealed <=> SplitFor(i) = "holdout2"
BY ImagesAssumption DEF Sealed, SplitFor, SealedPrefixes

\* No command but one on the sealed split selects a sealed picture, whatever files
\* it finds.
LEMMA SelectedOpen ==
  ASSUME NEW c \in Commands, NEW i \in Selected(c) \cap Sealed
  PROVE  c.split = "holdout2"
<1>1. i \in Images /\ SplitFor(i) = "holdout2"
  BY SealedSplit DEF Sealed
<1>2. c.tool \in Tools
  BY CommandsAssumption
<1> QED
  BY <1>1, <1>2 DEF Selected, SweepSelects, RdBudgetSelects, OpenOnes, InSplit, IsSealed, Tools

LEMMA SelectedAreImages == \A c \in Commands : Selected(c) \subseteq Images
BY CommandsAssumption DEF Selected, SweepSelects, RdBudgetSelects, OpenOnes, Found, Tools

\* What the gate lets through to the sealed split is whole.
LEMMA GateIsShut ==
  ASSUME NEW c \in Commands, ~Refused(c), c.split = "holdout2"
  PROVE  ~c.partial
<1>1. c.tool \in {"sweep", "rd-budget"}
  BY CommandsAssumption DEF Tools
<1> QED
  BY <1>1 DEF Refused, SweepRefuses, RdBudgetRefuses, DecisionMisplaced

\* The stages that a command may go through.
StagesOf(split) == IF split = "holdout2" THEN StageNames ELSE StageNames \ {"sealed"}

LEMMA IfInSeq ==
  ASSUME NEW S, NEW condition, NEW stage, condition => stage \in S
  PROVE  If(condition, stage) \in Seq(S)
<1>1. CASE condition
  BY <1>1 DEF If
<1>2. CASE ~condition
  BY <1>2, EmptySeq DEF If
<1> QED
  BY <1>1, <1>2

\* Only a command on the sealed split makes sure of the sealed photographs.
LEMMA StagesAreOpen ==
  ASSUME NEW c \in Commands
  PROVE  Stages(c) \in Seq(StagesOf(c.split))
<1> DEFINE S == StagesOf(c.split)
<1>1. "generated" \in S /\ "natural" \in S /\ "kodak" \in S /\ "alpha" \in S /\ "graphic" \in S
  BY DEF StagesOf, StageNames
<1>2. c.split = "holdout2" => "sealed" \in S
  BY DEF StagesOf, StageNames
<1>3. \A s, t \in Seq(S) : s \o t \in Seq(S)
  BY ConcatProperties
<1> HIDE DEF S
<1>4. <<"generated", "natural">> \in Seq(S) /\ <<"generated", "natural", "kodak">> \in Seq(S)
  BY <1>1
<1>5. RdBudgetStages(c) \in Seq(S)
  <2>1. If(c.split \in {"tune2", "all"}, "kodak") \in Seq(S) /\ If(c.split = "holdout2", "sealed") \in Seq(S)
    BY <1>1, <1>2, IfInSeq
  <2> QED
    BY <1>3, <1>4, <2>1 DEF RdBudgetStages
<1>6. SweepStages(c) \in Seq(S)
  <2> DEFINE photo == c.corpus \in {"photo", "all"}
  <2>1. If(photo /\ c.split = "tune2", "kodak") \in Seq(S)
    BY <1>1, IfInSeq
  <2>2. If(photo /\ c.split = "holdout2", "sealed") \in Seq(S)
    BY <1>2, IfInSeq
  <2>3. /\ If(c.corpus \in {"alpha", "all"}, "alpha") \in Seq(S)
        /\ If(c.corpus \in {"graphic", "all"}, "graphic") \in Seq(S)
    BY <1>1, IfInSeq
  <2> QED
    BY <1>3, <1>4, <2>1, <2>2, <2>3 DEF SweepStages
<1>7. Stages(c) \in {SweepStages(c), RdBudgetStages(c), ReportStages}
  BY DEF Stages
<1> QED
  BY <1>4, <1>5, <1>6, <1>7 DEF ReportStages, S
-----------------------------------------------------------------------------
(* The invariant. That no sealed picture is scored outside an opening rests on *)
(* what the gate let through, for as long as the run lasts, and on where a     *)
(* list of sealed pins can come from.                                          *)

Passed == {"load", "capture", "score", "save", "saving"}
SealedPins == Holdout2Specs \cup AlphaHoldout2Specs

\* What got past the gate for the sealed split is whole, opened for a frozen
\* decision, and read for the first time.
GateInv ==
  run.pc \in Passed /\ run.cmd.split = "holdout2" =>
    /\ Opened(run.cmd.split, run.cmd.partial, run.opening)
    /\ results[Path(run.cmd)].at # "whole"

\* Sealed pictures are at hand only past that gate.
InputsInv ==
  run.inputs \cap Sealed # {} => run.pc \in Passed /\ run.cmd.split = "holdout2"

\* The sealed photographs are a stage of no other split, whatever is left of it.
StagesInv ==
  run.pc = "load" => load.stages \in Seq(StagesOf(run.cmd.split))

TodoInv ==
  load.todo \cap SealedPins # {} => run.pc = "load" /\ run.cmd.split = "holdout2"

ResultsInv ==
  \A p \in Paths :
    results[p].images \cap Sealed # {} =>
      Opened(results[p].cmd.split, results[p].cmd.partial, results[p].opening)

SealInv ==
  SweepTypeOK /\ GateInv /\ InputsInv /\ StagesInv /\ TodoInv /\ ResultsInv

-----------------------------------------------------------------------------
(* The corpus: a step of the fetching, whatever the sources answer.            *)

LEMMA HeadAndTail ==
  ASSUME NEW S, NEW s \in Seq(S), s # <<>>
  PROVE  Head(s) \in S /\ Tail(s) \in Seq(S)
BY HeadTailProperties

\* A list of pins that is no stage of the sealed split holds no sealed pin.
LEMMA StageIsOpen ==
  ASSUME NEW split, NEW stage \in StagesOf(split), StageImages(stage, split) \cap SealedPins # {}
  PROVE  split = "holdout2"
<1> SUFFICES ASSUME split # "holdout2" PROVE FALSE
  OBVIOUS
<1>1. PICK i \in StageImages(stage, split) : i \in SealedPins
  OBVIOUS
<1>2. /\ i \in Images /\ Declared[i] = "holdout2" /\ Table[i] \in {"curated", "alpha"}
  BY <1>1 DEF SealedPins, Holdout2Specs, AlphaHoldout2Specs, Of
<1>3. stage \in {"generated", "natural", "kodak", "alpha", "graphic"}
  BY DEF StagesOf, StageNames
<1>4. i \notin Of("generated") /\ i \notin Of("kodak") /\ i \notin Of("graphic")
  BY <1>2 DEF Of
<1>5. i \notin NaturalImagesToFetch /\ i \notin AlphaImagesToFetch(split)
  BY <1>2 DEF NaturalImagesToFetch, AlphaImagesToFetch
<1> QED
  BY <1>1, <1>3, <1>4, <1>5 DEF StageImages

LEMMA StageImagesTypes ==
  ASSUME NEW split, NEW stage \in StageNames
  PROVE  StageImages(stage, split) \subseteq Images
<1>1. Of("generated") \subseteq Images /\ Of("kodak") \subseteq Images /\ Of("graphic") \subseteq Images
  BY DEF Of
<1>2. NaturalImagesToFetch \subseteq Images /\ Holdout2Specs \subseteq Images
  BY DEF NaturalImagesToFetch, Holdout2Specs, Of
<1>3. AlphaImagesToFetch(split) \subseteq Images
  BY DEF AlphaImagesToFetch, AlphaHoldout2Specs, Of
<1> QED
  BY <1>1, <1>2, <1>3 DEF StageImages, StageNames

\* A step of the fetching keeps the types, and takes a stage off the front at most.
LEMMA LoadStepTypes ==
  ASSUME CacheTypeOK, load \in Loads, NEW split, NEW opened, LoadStep(split, opened)
  PROVE  CacheTypeOK' /\ load' \in Loads
<1>1. CASE NextStage(split, opened)
  <2>1. load.stages # <<>> => /\ Head(load.stages) \in StageNames
                             /\ Tail(load.stages) \in Seq(StageNames)
    BY HeadAndTail DEF Loads
  <2>2. load.stages # <<>> => StageImages(Head(load.stages), split) \subseteq Images
    BY <2>1, StageImagesTypes
  <2> QED
    BY <1>1, <2>1, <2>2 DEF NextStage, CacheTypeOK, Loads
<1>2. CASE \E i \in load.todo : EnsurePinnedFixture(i)
  <2>1. PICK i \in load.todo : EnsurePinnedFixture(i)
    BY <1>2
  <2>2. i \in Images /\ load.todo \ {i} \in SUBSET Images
    BY <2>1 DEF Loads
  <2>3. /\ [load EXCEPT !.todo = @ \ {i}] \in Loads
        /\ [load EXCEPT !.at = "failed"] \in Loads
        /\ [load EXCEPT !.at = "write", !.image = i] \in Loads
        /\ [load EXCEPT !.at = "fetch", !.image = i, !.source = 1, !.attempt = 0] \in Loads
    BY <2>2 DEF Loads
  <2> QED
    BY <2>1, <2>3 DEF EnsurePinnedFixture, CacheTypeOK
<1>3. CASE FetchWithRetry
  <2>1. /\ [load EXCEPT !.at = "write"] \in Loads
        /\ [load EXCEPT !.at = "failed"] \in Loads
        /\ [load EXCEPT !.attempt = @ + 1] \in Loads
        /\ [load EXCEPT !.source = @ + 1, !.attempt = 0] \in Loads
    <3>1. load.source + 1 \in Nat /\ load.attempt + 1 \in Nat /\ 0 \in Nat
      BY DEF Loads
    <3>2. \A n \in Nat : [load EXCEPT !.attempt = n] \in Loads
      BY DEF Loads
    <3>3. \A n, m \in Nat : [load EXCEPT !.source = n, !.attempt = m] \in Loads
      BY DEF Loads
    <3>4. [load EXCEPT !.at = "write"] \in Loads /\ [load EXCEPT !.at = "failed"] \in Loads
      BY DEF Loads
    <3> QED
      BY <3>1, <3>2, <3>3, <3>4
  <2>2. NextSource \in Loads
    BY <2>1 DEF NextSource
  <2> QED
    BY <1>3, <2>1, <2>2 DEF FetchWithRetry, CacheTypeOK
<1>4. CASE OpenFixture
  BY <1>4 DEF OpenFixture, CacheTypeOK, Loads
<1>5. CASE WriteFixture
  BY <1>5 DEF WriteFixture, CacheTypeOK, Loads
<1> QED
  BY <1>1, <1>2, <1>3, <1>4, <1>5 DEF LoadStep

LEMMA LoadStepStages ==
  ASSUME load \in Loads, NEW split, NEW opened, LoadStep(split, opened),
         load.stages \in Seq(StagesOf(split))
  PROVE  /\ load'.stages \in Seq(StagesOf(split))
         /\ load'.todo \cap SealedPins # {} =>
              load.todo \cap SealedPins # {} \/ split = "holdout2"
<1> USE DEF Loads
<1>1. CASE NextStage(split, opened)
  <2>1. load.stages # <<>> => /\ Head(load.stages) \in StagesOf(split)
                             /\ Tail(load.stages) \in Seq(StagesOf(split))
    BY HeadAndTail
  <2>2. load.stages # <<>> =>
          (StageImages(Head(load.stages), split) \cap SealedPins # {} => split = "holdout2")
    BY <2>1, StageIsOpen
  <2> QED
    BY <1>1, <2>1, <2>2 DEF NextStage
<1>2. CASE \E i \in load.todo : EnsurePinnedFixture(i)
  BY <1>2 DEF EnsurePinnedFixture
<1>3. CASE FetchWithRetry
  BY <1>3 DEF FetchWithRetry, NextSource
<1>4. CASE OpenFixture
  BY <1>4 DEF OpenFixture
<1>5. CASE WriteFixture
  BY <1>5 DEF WriteFixture
<1> QED
  BY <1>1, <1>2, <1>3, <1>4, <1>5 DEF LoadStep

-----------------------------------------------------------------------------
(* Every step keeps the types.                                                 *)

LEMMA OpeningTypes ==
  ASSUME SweepTypeOK, NEW c \in Commands
  PROVE  Opening(c) \in Openings
<1>1. c.decision \in Decisions \cup {"none"}
  BY CommandTypes
<1>2. c.decision # "none" => register[c.decision] \in Statuses
  BY <1>1 DEF SweepTypeOK
<1> QED
  BY <1>1, <1>2 DEF Opening, Openings, Statuses

LEMMA BegunTypes ==
  ASSUME NEW c \in Commands
  PROVE  [Off EXCEPT !.at = "stage", !.stages = Stages(c)] \in Loads
<1>1. StagesOf(c.split) \subseteq StageNames
  BY DEF StagesOf
<1>2. Stages(c) \in Seq(StageNames)
  <2>1. \A S, T : S \subseteq T => Seq(S) \subseteq Seq(T)
    OBVIOUS
  <2> QED
    BY <1>1, <2>1, StagesAreOpen
<1> QED
  BY <1>2, BlankTypes DEF Loads

LEMMA TypeInit == SweepInit => SweepTypeOK
<1> SUFFICES ASSUME SweepInit PROVE SweepTypeOK
  OBVIOUS
<1>1. CacheTypeOK
  BY DEF SweepInit, CacheTypeOK
<1>2. register \in [Decisions -> Statuses]
  BY DEF SweepInit, Statuses
<1> QED
  BY <1>1, <1>2, BlankTypes DEF SweepInit, SweepTypeOK

LEMMA TypeStep == SweepTypeOK /\ [SweepNext]_sweepVars => SweepTypeOK'
<1> SUFFICES ASSUME SweepTypeOK, [SweepNext]_sweepVars PROVE SweepTypeOK'
  OBVIOUS
<1> USE DEF SweepTypeOK, CacheTypeOK
<1>1. CASE Gate
  <2>1. run.cmd \in Commands
    BY DEF Runs
  <2>2. /\ [run EXCEPT !.pc = "load", !.opening = Opening(run.cmd)] \in Runs
        /\ [run EXCEPT !.pc = "load", !.opening = NoOpening] \in Runs
    BY <2>1, OpeningTypes, BlankTypes DEF Runs
  <2>3. run' \in Runs
    BY <1>1, <2>2, BlankTypes DEF Gate, Stop
  <2>4. load' \in Loads
    BY <1>1, <2>1, BegunTypes, BlankTypes DEF Gate, Stop, Begin
  <2> QED
    BY <1>1, <2>3, <2>4 DEF Gate
<1>2. CASE Load
  BY <1>2, LoadStepTypes DEF Load
<1>3. CASE LoadFailed
  BY <1>3, BlankTypes DEF LoadFailed, Stop
<1>4. CASE Select
  <2>1. run.cmd \in Commands
    BY DEF Runs
  <2>2. \A S \in SUBSET Images : [run EXCEPT !.pc = "capture", !.inputs = S] \in Runs
    BY DEF Runs
  <2>3. run' \in Runs /\ load' = Off
    <3>1. CASE Stop
      BY <3>1, BlankTypes DEF Stop
    <3>2. CASE /\ load' = Off
               /\ \E S \in IF run.cmd.partial THEN SUBSET Selected(run.cmd) ELSE {Selected(run.cmd)} :
                    S # {} /\ run' = [run EXCEPT !.pc = "capture", !.inputs = S]
      <4>1. Selected(run.cmd) \subseteq Images
        BY <2>1, SelectedAreImages
      <4>2. PICK S \in SUBSET Images : run' = [run EXCEPT !.pc = "capture", !.inputs = S]
        BY <3>2, <4>1
      <4> QED
        BY <2>2, <3>2, <4>2
    <3> QED
      BY <1>4, <3>1, <3>2 DEF Select
  <2> QED
    BY <1>4, <2>3, BlankTypes DEF Select
<1>5. CASE Capture
  <2>1. [rev |-> head, dirty |-> src # head, binary |-> bin,
         off |-> {i \in run.inputs : cache[i] = "other"}] \in Provenances
    BY DEF Provenances, Runs
  <2>2. run' \in Runs
    BY <1>5, <2>1 DEF Capture, Runs
  <2> QED
    BY <1>5, <2>2 DEF Capture
<1>6. CASE Score
  <2>1. \A n \in Rows, pc \in {"score", "save"} :
          [run EXCEPT !.scores = Append(@, n), !.pc = pc] \in Runs
    <3>1. \A n \in Rows : Append(run.scores, n) \in Seq(Rows)
      BY AppendProperties DEF Runs
    <3> QED
      BY <3>1 DEF Runs
  <2>2. VariantRows \subseteq Rows /\ ChromaHashRows \subseteq Rows /\ AdapterRows \subseteq Rows
    BY DEF VariantRows, ChromaHashRows, AdapterRows, Rows
  <2>3. run' \in Runs /\ load' \in Loads
    BY <1>6, <2>1, <2>2, BlankTypes DEF Score, Stop
  <2> QED
    BY <1>6, <2>3 DEF Score
<1>7. CASE Save
  <2>1. [NoResult EXCEPT !.at = "torn"] \in Results
    BY BlankTypes DEF Results
  <2>2. [run EXCEPT !.pc = "saving"] \in Runs
    BY DEF Runs
  <2> QED
    BY <1>7, <2>1, <2>2, BlankTypes DEF Save, Stop
<1>8. CASE Saved
  <2>1. Result \in Results
    BY DEF Result, Results, Runs
  <2> QED
    BY <1>8, <2>1, BlankTypes DEF Saved, Stop
<1>9. CASE \E c \in Commands : Start(c)
  <2>1. \A c \in Commands : [Idle EXCEPT !.pc = "gate", !.cmd = c] \in Runs
    BY BlankTypes DEF Runs
  <2>2. PICK c \in Commands : Start(c)
    BY <1>9
  <2>3. run' \in Runs
    BY <2>1, <2>2 DEF Start
  <2>4. runs' \in Nat
    BY <2>2 DEF Start
  <2> QED
    BY <2>2, <2>3, <2>4 DEF Start
<1>10. CASE Edit \/ Commit \/ Build
  BY <1>10 DEF Edit, Commit, Build
<1>11. CASE \E d \in Decisions : Register(d)
  BY <1>11 DEF Register, NextStatus, Statuses
<1>12. CASE \E i \in Images : DeleteFixture(i)
  BY <1>12 DEF DeleteFixture
<1>13. CASE Crash
  BY <1>13, BlankTypes DEF Crash, Stop
<1>14. CASE UNCHANGED sweepVars
  BY <1>14 DEF sweepVars
<1> QED
  BY <1>1, <1>2, <1>3, <1>4, <1>5, <1>6, <1>7, <1>8, <1>9, <1>10, <1>11, <1>12, <1>13, <1>14
     DEF SweepNext, RunStep

-----------------------------------------------------------------------------
(* Every step keeps the seal.                                                  *)

\* A run that ended has nothing at hand.
LEMMA StopClears ==
  ASSUME Stop
  PROVE  GateInv' /\ InputsInv' /\ StagesInv' /\ TodoInv'
<1>1. run'.pc = "idle" /\ run'.inputs = {} /\ load'.todo = {}
  BY DEF Stop, Idle, Off
<1> QED
  BY <1>1 DEF GateInv, InputsInv, StagesInv, TodoInv, Passed

LEMMA SealInit == SweepInit => SealInv
<1> SUFFICES ASSUME SweepInit PROVE SealInv
  OBVIOUS
<1>1. SweepTypeOK
  BY TypeInit
<1>2. run.pc = "idle" /\ run.inputs = {} /\ load.todo = {}
  BY DEF SweepInit, Idle, Off
<1>3. \A p \in Paths : results[p].images = {}
  BY DEF SweepInit, NoResult
<1> QED
  BY <1>1, <1>2, <1>3 DEF SealInv, GateInv, InputsInv, StagesInv, TodoInv, ResultsInv, Passed

LEMMA GateKeeps ==
  ASSUME SealInv, Gate
  PROVE  GateInv' /\ InputsInv' /\ StagesInv' /\ TodoInv'
<1> DEFINE c == run.cmd
<1>1. CASE Refused(c) \/ (c.split = "holdout2" /\ ~(HoldoutOpens(c) /\ HoldoutUnread(c)))
  BY <1>1, StopClears DEF Gate
<1>2. CASE ~(Refused(c) \/ (c.split = "holdout2" /\ ~(HoldoutOpens(c) /\ HoldoutUnread(c))))
  <2>1. c \in Commands
    BY DEF SealInv, SweepTypeOK, Runs
  <2>2. /\ run' = [run EXCEPT !.pc = "load",
                     !.opening = IF c.split = "holdout2" THEN Opening(c) ELSE NoOpening]
        /\ Begin(Stages(c))
        /\ results' = results
    BY <1>2 DEF Gate
  <2>3. /\ run'.pc = "load" /\ run'.cmd = c /\ run'.inputs = run.inputs
        /\ c.split = "holdout2" => run'.opening = Opening(c)
    BY <2>2 DEF SealInv, SweepTypeOK, Runs
  <2>4. load'.stages = Stages(c) /\ load'.todo = {}
    BY <2>2, BlankTypes DEF Begin, Off
  <2>5. GateInv'
    <3> SUFFICES ASSUME c.split = "holdout2"
                 PROVE  /\ Opened(c.split, c.partial, Opening(c))
                        /\ results[Path(c)].at # "whole"
      BY <2>2, <2>3 DEF GateInv
    <3>1. ~c.partial
      BY <1>2, <2>1, GateIsShut
    <3> QED
      BY <1>2, <3>1 DEF HoldoutOpens, HoldoutUnread, Opened
  <2>6. InputsInv' /\ TodoInv'
    <3>1. run.inputs \cap Sealed = {}
      BY DEF SealInv, InputsInv, Passed, Gate
    <3> QED
      BY <2>3, <2>4, <3>1 DEF InputsInv, TodoInv
  <2>7. StagesInv'
    BY <2>1, <2>3, <2>4, StagesAreOpen DEF StagesInv
  <2> QED
    BY <2>5, <2>6, <2>7
<1> QED
  BY <1>1, <1>2

LEMMA SelectKeeps ==
  ASSUME SealInv, Select
  PROVE  GateInv' /\ InputsInv' /\ StagesInv' /\ TodoInv'
<1>1. CASE Stop
  BY <1>1, StopClears
<1>2. CASE /\ load' = Off
           /\ \E S \in IF run.cmd.partial THEN SUBSET Selected(run.cmd) ELSE {Selected(run.cmd)} :
                S # {} /\ run' = [run EXCEPT !.pc = "capture", !.inputs = S]
  <2>1. PICK S \in SUBSET Selected(run.cmd) : run' = [run EXCEPT !.pc = "capture", !.inputs = S]
    BY <1>2
  <2>2. /\ run'.pc = "capture" /\ run'.cmd = run.cmd /\ run'.opening = run.opening
        /\ run'.inputs = S /\ results' = results
    BY <2>1 DEF Select, SealInv, SweepTypeOK, Runs
  <2>3. GateInv'
    BY <2>2 DEF GateInv, SealInv, Passed, Select
  <2>4. InputsInv'
    <3>1. run.cmd \in Commands
      BY DEF SealInv, SweepTypeOK, Runs
    <3>2. S \cap Sealed # {} => run.cmd.split = "holdout2"
      BY <3>1, SelectedOpen
    <3> QED
      BY <2>2, <3>2 DEF InputsInv, Passed
  <2>5. StagesInv' /\ TodoInv'
    BY <1>2, <2>2 DEF StagesInv, TodoInv, Off
  <2> QED
    BY <2>3, <2>4, <2>5
<1> QED
  BY <1>1, <1>2 DEF Select

LEMMA LoadKeeps ==
  ASSUME SealInv, Load
  PROVE  GateInv' /\ InputsInv' /\ StagesInv' /\ TodoInv'
<1>1. run' = run /\ results' = results /\ run.pc = "load"
  BY DEF Load
<1>2. load \in Loads /\ load.stages \in Seq(StagesOf(run.cmd.split))
  BY <1>1 DEF SealInv, SweepTypeOK, StagesInv
<1>3. /\ load'.stages \in Seq(StagesOf(run.cmd.split))
      /\ load'.todo \cap SealedPins # {} =>
           load.todo \cap SealedPins # {} \/ run.cmd.split = "holdout2"
  BY <1>2, LoadStepStages DEF Load
<1> QED
  BY <1>1, <1>3 DEF SealInv, GateInv, InputsInv, StagesInv, TodoInv

\* A run past the loading that goes on with what it has.
LEMMA RunGoesOn ==
  ASSUME SealInv, UNCHANGED load,
         run.pc \in {"capture", "score", "save"}, run'.pc \in {"score", "save", "saving"},
         run'.cmd = run.cmd, run'.opening = run.opening, run'.inputs = run.inputs,
         results'[Path(run.cmd)].at # "whole" \/ results' = results
  PROVE  GateInv' /\ InputsInv' /\ StagesInv' /\ TodoInv'
BY DEF SealInv, GateInv, InputsInv, StagesInv, TodoInv, Passed

\* What is saved is whole only if it is a result of the run that saves it.
LEMMA ResultsKept ==
  ASSUME SealInv, [SweepNext]_sweepVars
  PROVE  ResultsInv'
<1>1. CASE UNCHANGED results
  BY <1>1 DEF SealInv, ResultsInv
<1>2. CASE Save /\ results' = [results EXCEPT ![Path(run.cmd)] = [NoResult EXCEPT !.at = "torn"]]
  <2>1. \A p \in Paths : results'[p] = results[p] \/ results'[p].images = {}
    BY <1>2 DEF NoResult, SealInv, SweepTypeOK
  <2> QED
    BY <2>1 DEF SealInv, ResultsInv
<1>3. CASE Saved
  <2>1. Result.images \cap Sealed # {} => Opened(Result.cmd.split, Result.cmd.partial, Result.opening)
    BY <1>3 DEF Result, SealInv, GateInv, InputsInv
  <2>2. \A p \in Paths : results'[p] = results[p] \/ results'[p] = Result
    BY <1>3 DEF Saved, SealInv, SweepTypeOK
  <2> QED
    BY <2>1, <2>2 DEF SealInv, ResultsInv
<1>4. UNCHANGED results \/ Saved
        \/ (Save /\ results' = [results EXCEPT ![Path(run.cmd)] = [NoResult EXCEPT !.at = "torn"]])
  BY DEF SweepNext, RunStep, sweepVars, Gate, Load, LoadFailed, Select, Capture, Score, Save,
         Start, Edit, Commit, Build, Register, DeleteFixture, Crash
<1> QED
  BY <1>1, <1>2, <1>3, <1>4

LEMMA SealStep == SealInv /\ [SweepNext]_sweepVars => SealInv'
<1> SUFFICES ASSUME SealInv, [SweepNext]_sweepVars PROVE SealInv'
  OBVIOUS
<1> DEFINE Kept == GateInv' /\ InputsInv' /\ StagesInv' /\ TodoInv'
<1>1. CASE Gate
  <2>1. Kept
    BY <1>1, GateKeeps
  <2> QED
    BY <2>1, TypeStep, ResultsKept DEF SealInv
<1>2. CASE Load
  <2>1. Kept
    BY <1>2, LoadKeeps
  <2> QED
    BY <2>1, TypeStep, ResultsKept DEF SealInv
<1>3. CASE Select
  <2>1. Kept
    BY <1>3, SelectKeeps
  <2> QED
    BY <2>1, TypeStep, ResultsKept DEF SealInv
<1>4. CASE Stop
  <2>1. Kept
    BY <1>4, StopClears
  <2> QED
    BY <2>1, TypeStep, ResultsKept DEF SealInv
<1>5. CASE Capture
  <2>1. /\ run.pc = "capture" /\ run'.pc = "score" /\ UNCHANGED <<load, results>>
        /\ run'.cmd = run.cmd /\ run'.opening = run.opening /\ run'.inputs = run.inputs
    BY <1>5 DEF Capture, SealInv, SweepTypeOK, Runs
  <2>2. Kept
    BY <2>1, RunGoesOn
  <2> QED
    BY <2>2, TypeStep, ResultsKept DEF SealInv
<1>6. CASE Score /\ ~Stop
  <2>1. /\ run.pc = "score" /\ run'.pc \in {"score", "save"} /\ UNCHANGED <<load, results>>
        /\ run'.cmd = run.cmd /\ run'.opening = run.opening /\ run'.inputs = run.inputs
    BY <1>6 DEF Score, SealInv, SweepTypeOK, Runs
  <2>2. Kept
    BY <2>1, RunGoesOn
  <2> QED
    BY <2>2, TypeStep, ResultsKept DEF SealInv
<1>7. CASE Save /\ ~Stop
  <2>1. /\ run.pc = "save" /\ run'.pc = "saving" /\ UNCHANGED load
        /\ run'.cmd = run.cmd /\ run'.opening = run.opening /\ run'.inputs = run.inputs
    BY <1>7 DEF Save, SealInv, SweepTypeOK, Runs
  <2>2. results'[Path(run.cmd)].at # "whole"
    <3>1. Path(run.cmd) \in Paths
      BY CommandTypes DEF SealInv, SweepTypeOK, Runs
    <3> QED
      BY <1>7, <3>1 DEF Save, NoResult, SealInv, SweepTypeOK
  <2>3. Kept
    BY <2>1, <2>2, RunGoesOn
  <2> QED
    BY <2>3, TypeStep, ResultsKept DEF SealInv
<1>8. CASE \E c \in Commands : Start(c)
  <2>1. /\ run.pc = "idle" /\ run'.pc = "gate" /\ run'.inputs = {} /\ UNCHANGED load
    BY <1>8 DEF Start, Idle
  <2>2. Kept
    BY <2>1 DEF SealInv, GateInv, InputsInv, StagesInv, TodoInv, Passed
  <2> QED
    BY <2>2, TypeStep, ResultsKept DEF SealInv
<1>9. CASE UNCHANGED <<load, run, results>>
  <2>1. Kept
    BY <1>9 DEF SealInv, GateInv, InputsInv, StagesInv, TodoInv
  <2> QED
    BY <2>1, TypeStep, ResultsKept DEF SealInv
<1>10. (\E d \in Decisions : Register(d)) \/ (\E i \in Images : DeleteFixture(i))
         \/ Edit \/ Commit \/ Build \/ UNCHANGED sweepVars => UNCHANGED <<load, run, results>>
  BY DEF Register, DeleteFixture, Edit, Commit, Build, sweepVars
<1>11. LoadFailed \/ Saved \/ Crash => Stop
  BY DEF LoadFailed, Saved, Crash
<1> QED
  BY <1>1, <1>2, <1>3, <1>4, <1>5, <1>6, <1>7, <1>8, <1>9, <1>10, <1>11 DEF SweepNext, RunStep

-----------------------------------------------------------------------------
(* What follows                                                                *)

\* The tools keep the shape of what they keep: the fixtures, the run at hand and
\* every result, in whatever order they are started, stopped and killed.
THEOREM SweepTypeCorrect == SweepSpec => []SweepTypeOK
<1>1. SweepInit => SweepTypeOK
  BY TypeInit
<1>2. SweepTypeOK /\ [SweepNext]_sweepVars => SweepTypeOK'
  BY TypeStep
<1> QED
  BY <1>1, <1>2, PTL DEF SweepSpec

LEMMA SealInvariant == SweepSpec => []SealInv
<1>1. SealInv /\ [SweepNext]_sweepVars => SealInv'
  BY SealStep
<1> QED
  BY <1>1, SealInit, PTL DEF SweepSpec

LEMMA SealInvImplies == SealInv => SealKept
<1> SUFFICES ASSUME SealInv PROVE SealKept
  OBVIOUS
<1>1. run.inputs \cap Sealed # {} => Opened(run.cmd.split, run.cmd.partial, run.opening)
  BY DEF SealInv, InputsInv, GateInv
<1>2. load.todo \cap (Holdout2Specs \cup AlphaHoldout2Specs) # {} =>
        Opened(run.cmd.split, run.cmd.partial, run.opening)
  BY DEF SealInv, TodoInv, GateInv, SealedPins, Passed
<1> QED
  BY <1>1, <1>2 DEF SealInv, ResultsInv, SealKept

\* A sealed picture is fetched, scored or committed only by a whole run on the
\* sealed split that the register opened for a frozen decision: for any corpus,
\* with any pins missing or stray, and any number of runs cut short (corpus.ts,
\* sweep.ts and rd-budget.ts; the gate is spec/V0.8-DECISIONS.md's).
THEOREM SealedStaysSealed == SweepSpec => []SealKept
<1> QED
  BY SealInvariant, SealInvImplies, PTL

\* No step changes a committed reading of the sealed split.
LEMMA ReadingStep ==
  ASSUME SealInv, [SweepNext]_sweepVars
  PROVE  \A p \in Paths : p[2] = "holdout2" /\ results[p].at = "whole" => results'[p] = results[p]
<1>1. CASE UNCHANGED results
  BY <1>1
<1>2. CASE (Save \/ Saved) /\ results' # results
  <2> SUFFICES ASSUME NEW p \in Paths, p[2] = "holdout2", results[p].at = "whole"
               PROVE  results'[p] = results[p]
    OBVIOUS
  <2>1. CASE p = Path(run.cmd)
    <3>1. run.cmd.split = "holdout2"
      BY <2>1 DEF Path
    <3>2. run.pc \in Passed
      BY <1>2 DEF Save, Saved, Passed
    <3> QED
      BY <2>1, <3>1, <3>2 DEF SealInv, GateInv
  <2>2. CASE p # Path(run.cmd)
    BY <1>2, <2>2 DEF Save, Saved, SealInv, SweepTypeOK
  <2> QED
    BY <2>1, <2>2
<1>3. UNCHANGED results \/ Save \/ Saved
  BY DEF SweepNext, RunStep, sweepVars, Gate, Load, LoadFailed, Select, Capture, Score,
         Start, Edit, Commit, Build, Register, DeleteFixture, Crash
<1> QED
  BY <1>1, <1>2, <1>3

\* A committed reading of the sealed split is final: no later run under its name,
\* of any tool, and no crash while one saves, takes it again or loses it
\* (sweep.ts and rd-budget.ts, which refuse to open the split twice).
THEOREM ReadingsAreFinal == SweepSpec => ReadingKept
<1>1. SealInv /\ [SweepNext]_sweepVars =>
        [\A p \in Paths : p[2] = "holdout2" /\ results[p].at = "whole" =>
            results'[p] = results[p]]_results
  BY ReadingStep
<1> QED
  BY <1>1, SealInvariant, PTL DEF SweepSpec, ReadingKept

-----------------------------------------------------------------------------
(* A committed result has a row, or says that it has none, for every arm.      *)

ArmsInv ==
  /\ run.pc \in {"idle", "gate", "load", "capture"} => run.scores = <<>>
  /\ run.pc = "score" => Len(run.scores) < Arms
  /\ run.pc \in {"save", "saving"} => Len(run.scores) = Arms
  /\ \A p \in Paths : results[p].at = "whole" => Len(results[p].scores) = Arms

LEMMA ArmsInit == SweepInit => ArmsInv
BY DEF SweepInit, ArmsInv, Idle, NoResult

LEMMA ArmsStep ==
  ASSUME SweepTypeOK, ArmsInv, [SweepNext]_sweepVars
  PROVE  ArmsInv'
<1>1. CASE UNCHANGED results /\ Stop
  BY <1>1 DEF ArmsInv, Stop, Idle
<1>2. CASE UNCHANGED results /\ UNCHANGED run
  BY <1>2 DEF ArmsInv
<1>3. CASE Gate /\ ~Stop
  <2>1. run'.pc = "load" /\ run'.scores = run.scores /\ run.pc = "gate" /\ UNCHANGED results
    BY <1>3 DEF Gate, SweepTypeOK, Runs
  <2> QED
    BY <2>1 DEF ArmsInv
<1>4. CASE Select /\ ~Stop
  <2>1. run'.pc = "capture" /\ run'.scores = run.scores /\ run.pc = "load" /\ UNCHANGED results
    BY <1>4 DEF Select, SweepTypeOK, Runs
  <2> QED
    BY <2>1 DEF ArmsInv
<1>5. CASE Capture
  <2>1. run'.pc = "score" /\ run'.scores = run.scores /\ run.pc = "capture" /\ UNCHANGED results
    BY <1>5 DEF Capture, SweepTypeOK, Runs
  <2>2. Len(<<>>) < Arms
    BY EffortAssumption
  <2> QED
    BY <2>1, <2>2 DEF ArmsInv
<1>6. CASE Score /\ ~Stop
  <2>1. PICK n \in Rows : run' = [run EXCEPT !.scores = Append(@, n),
                                !.pc = IF Len(run.scores) + 1 < Arms THEN "score" ELSE "save"]
    BY <1>6 DEF Score, VariantRows, ChromaHashRows, AdapterRows, Rows, SweepTypeOK
  <2>2. run.scores \in Seq(Rows) /\ Len(run.scores) \in Nat /\ Len(run.scores) < Arms
    BY <1>6, LenProperties DEF SweepTypeOK, Runs, ArmsInv, Score
  <2>3. Len(Append(run.scores, n)) = Len(run.scores) + 1
    BY <2>2, AppendProperties
  <2>4. /\ run'.scores = Append(run.scores, n) /\ UNCHANGED results
        /\ run'.pc = IF Len(run.scores) + 1 < Arms THEN "score" ELSE "save"
    BY <1>6, <2>1 DEF Score, SweepTypeOK, Runs
  <2> QED
    BY <2>2, <2>3, <2>4, EffortAssumption DEF ArmsInv
<1>7. CASE Save /\ ~Stop
  <2>1. run'.pc = "saving" /\ run'.scores = run.scores /\ run.pc = "save"
    BY <1>7 DEF Save, SweepTypeOK, Runs
  <2>2. \A p \in Paths : results'[p] = results[p] \/ results'[p].at = "torn"
    BY <1>7 DEF Save, NoResult, SweepTypeOK
  <2> QED
    BY <2>1, <2>2 DEF ArmsInv
<1>8. CASE Saved
  <2>1. \A p \in Paths : results'[p] = results[p] \/ results'[p].scores = run.scores
    BY <1>8 DEF Saved, Result, SweepTypeOK
  <2>2. run.pc = "saving" /\ run'.pc = "idle" /\ run'.scores = <<>>
    BY <1>8 DEF Saved, Stop, Idle
  <2> QED
    BY <2>1, <2>2 DEF ArmsInv
<1>9. CASE \E c \in Commands : Start(c)
  <2>1. run'.pc = "gate" /\ run'.scores = <<>> /\ UNCHANGED results
    BY <1>9 DEF Start, Idle
  <2> QED
    BY <2>1 DEF ArmsInv
<1>10. CASE UNCHANGED sweepVars
  BY <1>10 DEF ArmsInv, sweepVars
<1>11. (\E d \in Decisions : Register(d)) \/ (\E i \in Images : DeleteFixture(i))
         \/ Edit \/ Commit \/ Build \/ Load => UNCHANGED <<run, results>>
  BY DEF Register, DeleteFixture, Edit, Commit, Build, Load
<1>12. LoadFailed \/ Crash \/ ((Gate \/ Select \/ Score \/ Save) /\ Stop) =>
         Stop /\ (UNCHANGED results \/ Save)
  BY DEF LoadFailed, Crash, Gate, Select, Score
<1>13. Save /\ Stop => UNCHANGED results \/ run'.pc = "saving"
  BY DEF Save, SweepTypeOK, Runs
<1>14. Stop => run'.pc = "idle"
  BY DEF Stop, Idle
<1> QED
  BY <1>1, <1>2, <1>3, <1>4, <1>5, <1>6, <1>7, <1>8, <1>9, <1>10, <1>11, <1>12, <1>13, <1>14
     DEF SweepNext, RunStep

-----------------------------------------------------------------------------
(* What a committed result covers: every pinned picture of its split and       *)
(* corpus, each in the bytes of its pin.                                       *)


\* The pins that a stage makes sure of, whatever is under fixtures/.
PinsOf(stage, split) ==
  CASE stage = "natural" -> NaturalImagesToFetch
    [] stage = "kodak"   -> Of("kodak")
    [] stage = "sealed"  -> Holdout2Specs
    [] stage = "alpha"   -> AlphaImagesToFetch(split)
    [] stage = "graphic" -> Of("graphic")

PinStages == {"natural", "kodak", "sealed", "alpha", "graphic"}

InSeq(s, x) == \E k \in 1 .. Len(s) : s[k] = x

LEMMA PinsAreStageImages ==
  ASSUME NEW stage \in PinStages, NEW split
  PROVE  PinsOf(stage, split) = StageImages(stage, split)
BY DEF PinsOf, StageImages, PinStages

LEMMA InSeqOfTail ==
  ASSUME NEW S, NEW s \in Seq(S), s # <<>>, NEW x, InSeq(s, x)
  PROVE  x = Head(s) \/ InSeq(Tail(s), x)
<1>1. PICK k \in 1 .. Len(s) : s[k] = x
  BY DEF InSeq
<1>2. CASE k = 1
  BY <1>1, <1>2
<1>3. CASE k # 1
  <2>1. k - 1 \in 1 .. Len(Tail(s)) /\ Tail(s)[k - 1] = s[k]
    BY <1>1, <1>3, HeadTailProperties
  <2> QED
    BY <1>1, <2>1 DEF InSeq
<1> QED
  BY <1>2, <1>3

-----------------------------------------------------------------------------
(* What the stages of a command leave out of its pictures: nothing.            *)

LEMMA InSeqOfConcat ==
  ASSUME NEW S, NEW s \in Seq(S), NEW t \in Seq(S), NEW x, InSeq(s, x) \/ InSeq(t, x)
  PROVE  InSeq(s \o t, x)
<1>1. CASE InSeq(s, x)
  <2>1. PICK k \in 1 .. Len(s) : s[k] = x
    BY <1>1 DEF InSeq
  <2>2. k \in 1 .. Len(s \o t) /\ (s \o t)[k] = x
    BY <2>1, ConcatProperties, LenProperties
  <2> QED
    BY <2>2 DEF InSeq
<1>2. CASE InSeq(t, x)
  <2>1. PICK k \in 1 .. Len(t) : t[k] = x
    BY <1>2 DEF InSeq
  <2>2. Len(s) + k \in 1 .. Len(s \o t) /\ (s \o t)[Len(s) + k] = x
    BY <2>1, ConcatProperties, LenProperties
  <2> QED
    BY <2>2 DEF InSeq
<1> QED
  BY <1>1, <1>2

LEMMA InSeqOfIf ==
  ASSUME NEW condition, condition, NEW stage
  PROVE  InSeq(If(condition, stage), stage)
<1>1. If(condition, stage) = <<stage>>
  BY DEF If
<1>2. 1 \in 1 .. Len(<<stage>>) /\ <<stage>>[1] = stage
  OBVIOUS
<1> QED
  BY <1>1, <1>2 DEF InSeq

\* A sweep makes sure of the curated pictures, and of those of its corpus.
LEMMA SweepStagesHave ==
  ASSUME NEW c
  PROVE  /\ InSeq(SweepStages(c), "natural")
         /\ c.corpus \in {"photo", "all"} /\ c.split = "tune2" => InSeq(SweepStages(c), "kodak")
         /\ c.corpus \in {"photo", "all"} /\ c.split = "holdout2" => InSeq(SweepStages(c), "sealed")
         /\ c.corpus \in {"alpha", "all"} => InSeq(SweepStages(c), "alpha")
         /\ c.corpus \in {"graphic", "all"} => InSeq(SweepStages(c), "graphic")
<1> DEFINE photo == c.corpus \in {"photo", "all"}
           s1 == <<"generated", "natural">>
           s2 == If(photo /\ c.split = "tune2", "kodak")
           s3 == If(photo /\ c.split = "holdout2", "sealed")
           s4 == If(c.corpus \in {"alpha", "all"}, "alpha")
           s5 == If(c.corpus \in {"graphic", "all"}, "graphic")
           S  == StageNames
<1>1. s1 \in Seq(S) /\ s2 \in Seq(S) /\ s3 \in Seq(S) /\ s4 \in Seq(S) /\ s5 \in Seq(S)
  BY IfInSeq DEF StageNames
<1>2. /\ InSeq(s1, "natural")
      /\ photo /\ c.split = "tune2" => InSeq(s2, "kodak")
      /\ photo /\ c.split = "holdout2" => InSeq(s3, "sealed")
      /\ c.corpus \in {"alpha", "all"} => InSeq(s4, "alpha")
      /\ c.corpus \in {"graphic", "all"} => InSeq(s5, "graphic")
  <2>1. 2 \in 1 .. Len(s1) /\ s1[2] = "natural"
    OBVIOUS
  <2>2. InSeq(s1, "natural")
    BY <2>1 DEF InSeq
  <2> HIDE DEF s1
  <2> QED
    BY <2>2, InSeqOfIf
<1>3. SweepStages(c) = s1 \o s2 \o s3 \o s4 \o s5
  BY DEF SweepStages
<1> HIDE DEF s1, s2, s3, s4, s5, S
<1>4. s1 \o s2 \in Seq(S) /\ s1 \o s2 \o s3 \in Seq(S) /\ s1 \o s2 \o s3 \o s4 \in Seq(S)
  BY <1>1, ConcatProperties
<1>5. \A s, t \in Seq(S) : \A x : InSeq(s, x) \/ InSeq(t, x) => InSeq(s \o t, x)
  BY InSeqOfConcat
<1>6. \A x : InSeq(s1, x) \/ InSeq(s2, x) => InSeq(s1 \o s2, x)
  BY <1>1, <1>5
<1>7. \A x : InSeq(s1 \o s2, x) \/ InSeq(s3, x) => InSeq(s1 \o s2 \o s3, x)
  BY <1>1, <1>4, <1>5
<1>8. \A x : InSeq(s1 \o s2 \o s3, x) \/ InSeq(s4, x) => InSeq(s1 \o s2 \o s3 \o s4, x)
  BY <1>1, <1>4, <1>5
<1>9. \A x : InSeq(s1 \o s2 \o s3 \o s4, x) \/ InSeq(s5, x)
               => InSeq(s1 \o s2 \o s3 \o s4 \o s5, x)
  BY <1>1, <1>4, <1>5
<1> QED
  BY <1>2, <1>3, <1>6, <1>7, <1>8, <1>9

LEMMA RdBudgetStagesHave ==
  ASSUME NEW c
  PROVE  /\ InSeq(RdBudgetStages(c), "natural")
         /\ c.split \in {"tune2", "all"} => InSeq(RdBudgetStages(c), "kodak")
         /\ c.split = "holdout2" => InSeq(RdBudgetStages(c), "sealed")
<1> DEFINE s1 == <<"generated", "natural">>
           s2 == If(c.split \in {"tune2", "all"}, "kodak")
           s3 == If(c.split = "holdout2", "sealed")
           S  == StageNames
<1>1. s1 \in Seq(S) /\ s2 \in Seq(S) /\ s3 \in Seq(S)
  BY IfInSeq DEF StageNames
<1>2. InSeq(s1, "natural")
  <2>1. 2 \in 1 .. Len(s1) /\ s1[2] = "natural"
    OBVIOUS
  <2> QED
    BY <2>1 DEF InSeq
<1>3. /\ c.split \in {"tune2", "all"} => InSeq(s2, "kodak")
      /\ c.split = "holdout2" => InSeq(s3, "sealed")
  BY InSeqOfIf
<1>4. RdBudgetStages(c) = s1 \o s2 \o s3
  BY DEF RdBudgetStages
<1> HIDE DEF s1, s2, s3, S
<1>5. s1 \o s2 \in Seq(S)
  BY <1>1, ConcatProperties
<1>6. \A x : InSeq(s1, x) \/ InSeq(s2, x) => InSeq(s1 \o s2, x)
  BY <1>1, InSeqOfConcat
<1>7. \A x : InSeq(s1 \o s2, x) \/ InSeq(s3, x) => InSeq(s1 \o s2 \o s3, x)
  BY <1>1, <1>5, InSeqOfConcat
<1> QED
  BY <1>2, <1>3, <1>4, <1>6, <1>7

\* What a table says of its pictures, as far as a selection looks.
LEMMA Labels ==
  ASSUME NEW i \in Pinned
  PROVE  /\ i \in Images
         /\ SplitFor(i) = "holdout2" <=> Declared[i] = "holdout2"
         /\ Table[i] = "kodak" => Prefix[i] = "kodak"
         /\ Prefix[i] = "kodak" => Table[i] = "kodak"
         /\ Prefix[i] # "kodak" => SplitFor(i) = Declared[i]
         /\ InCorpus(i, "photo") => Table[i] \in {"curated", "kodak"}
         /\ InCorpus(i, "alpha") => Table[i] = "alpha"
         /\ InCorpus(i, "graphic") => Table[i] = "graphic"
<1>1. i \in Images /\ Table[i] \in {"curated", "kodak", "alpha", "graphic"}
  BY DEF Pinned
<1>2. /\ Table[i] = "curated" => Prefix[i] \in {"photo", "sealed"}
      /\ Table[i] = "kodak" => Prefix[i] = "kodak"
      /\ Table[i] = "alpha" => Prefix[i] \in {"cutout", "sealed-cutout"}
      /\ Table[i] = "graphic" => Prefix[i] \in {"graphic", "sealed-graphic"}
  BY <1>1, ListsAssumption
<1>3. /\ Table[i] # "kodak" => Declared[i] # "none"
      /\ Declared[i] = "holdout2" <=> Prefix[i] \in SealedPrefixes
  BY ListsAssumption DEF SealedPrefixes
<1>4. SplitFor(i) = "holdout2" <=> Declared[i] = "holdout2"
  BY <1>1, <1>2, <1>3 DEF SplitFor, SealedPrefixes
<1>5. Prefix[i] # "kodak" => SplitFor(i) = Declared[i]
  BY <1>1, <1>2, <1>3 DEF SplitFor, SealedPrefixes
<1>6. InCorpus(i, "photo") => Table[i] \in {"curated", "kodak"}
  BY <1>1, <1>2 DEF InCorpus, SealedCorpus, SealedPrefixes
<1>7. InCorpus(i, "alpha") => Table[i] = "alpha"
  BY <1>1, <1>2 DEF InCorpus, SealedCorpus, SealedPrefixes
<1>8. InCorpus(i, "graphic") => Table[i] = "graphic"
  BY <1>1, <1>2 DEF InCorpus, SealedCorpus, SealedPrefixes
<1> QED
  BY <1>1, <1>2, <1>4, <1>5, <1>6, <1>7, <1>8

\* Every pinned picture that a result should have is in some stage of its command.
LEMMA WantedIsStaged ==
  ASSUME NEW c \in Commands, ~Refused(c), c.tool # "report", NEW i \in Wanted(c)
  PROVE  \E n \in PinStages : InSeq(Stages(c), n) /\ i \in PinsOf(n, c.split)
<1> USE DEF PinStages
<1>1. i \in Pinned \ Withdrawn /\ (SplitFor(i) = c.split \/ (c.split = "all" /\ i \notin Sealed))
  BY DEF Wanted
<1>2. /\ c.tool = "sweep" => InCorpus(i, c.corpus)
      /\ c.tool # "sweep" => InCorpus(i, "photo")
  BY DEF Wanted
<1>3. i \in Images /\ (i \in Sealed <=> SplitFor(i) = "holdout2")
  BY <1>1, Labels, SealedSplit
<1>4. Table[i] \in {"curated", "kodak", "alpha", "graphic"}
  BY <1>1 DEF Pinned
<1>5. c.tool \in {"sweep", "rd-budget"} /\ c.corpus \in {"photo", "alpha", "graphic", "all"}
  BY CommandsAssumption DEF Tools, Corpora
<1>6. Table[i] = "curated" /\ SplitFor(i) # "holdout2" => i \in PinsOf("natural", c.split)
  BY <1>1, <1>3, Labels DEF PinsOf, NaturalImagesToFetch, Of
<1>7. Table[i] = "curated" /\ SplitFor(i) = "holdout2" => i \in PinsOf("sealed", c.split)
  BY <1>1, <1>3, Labels DEF PinsOf, Holdout2Specs, Of
<1>8. Table[i] = "kodak" => i \in PinsOf("kodak", c.split) /\ SplitFor(i) = "tune2"
  BY <1>1, <1>3, Labels DEF PinsOf, Of, SplitFor, SealedPrefixes
<1>9. Table[i] = "graphic" => i \in PinsOf("graphic", c.split)
  BY <1>3 DEF PinsOf, Of
<1>10. Table[i] = "alpha" /\ SplitFor(i) = c.split => i \in PinsOf("alpha", c.split)
  BY <1>1, <1>3, Labels DEF PinsOf, AlphaImagesToFetch, AlphaHoldout2Specs, Of
<1>11. CASE c.tool = "sweep"
  <2>1. c.split # "all" /\ (c.split = "holdout2" => c.corpus # "all") /\ SplitFor(i) = c.split
    BY <1>1, <1>11 DEF Refused, SweepRefuses
  <2>2. Stages(c) = SweepStages(c)
    BY <1>11 DEF Stages
  <2>3. CASE Table[i] = "curated"
    <3>1. c.corpus \in {"photo", "all"}
      BY <1>1, <1>2, <1>5, <1>11, <2>3, Labels
    <3> QED
      BY <1>6, <1>7, <2>1, <2>2, <2>3, <3>1, SweepStagesHave
  <2>4. CASE Table[i] = "kodak"
    <3>1. c.corpus \in {"photo", "all"}
      BY <1>1, <1>2, <1>5, <1>11, <2>4, Labels
    <3> QED
      BY <1>8, <2>1, <2>2, <2>4, <3>1, SweepStagesHave
  <2>5. CASE Table[i] = "alpha"
    <3>1. c.corpus \in {"alpha", "all"}
      BY <1>1, <1>2, <1>5, <1>11, <2>5, Labels
    <3> QED
      BY <1>10, <2>1, <2>2, <2>5, <3>1, SweepStagesHave
  <2>6. CASE Table[i] = "graphic"
    <3>1. c.corpus \in {"graphic", "all"}
      BY <1>1, <1>2, <1>5, <1>11, <2>6, Labels
    <3> QED
      BY <1>9, <2>2, <2>6, <3>1, SweepStagesHave
  <2> QED
    BY <1>4, <2>3, <2>4, <2>5, <2>6
<1>12. CASE c.tool = "rd-budget"
  <2>1. Stages(c) = RdBudgetStages(c)
    BY <1>12 DEF Stages
  <2>2. Table[i] \in {"curated", "kodak"}
    BY <1>1, <1>2, <1>12, Labels
  <2>3. CASE Table[i] = "kodak"
    <3>1. c.split \in {"tune2", "all"}
      BY <1>1, <1>8, <2>3
    <3> QED
      BY <1>8, <2>1, <2>3, <3>1, RdBudgetStagesHave
  <2>4. CASE Table[i] = "curated" /\ SplitFor(i) # "holdout2"
    BY <1>6, <2>1, <2>4, RdBudgetStagesHave
  <2>5. CASE Table[i] = "curated" /\ SplitFor(i) = "holdout2"
    <3>1. c.split = "holdout2"
      BY <1>1, <1>3, <2>5
    <3> QED
      BY <1>7, <2>1, <2>5, <3>1, RdBudgetStagesHave
  <2> QED
    BY <2>2, <2>3, <2>4, <2>5
<1> QED
  BY <1>5, <1>11, <1>12

\* What a tool selects of the pinned pictures is what its result should have.
LEMMA SelectedAreWanted ==
  ASSUME NEW c \in Commands, c.tool # "report", NEW i \in Selected(c), i \in Pinned \ Withdrawn
  PROVE  i \in Wanted(c)
<1>1. c.tool \in {"sweep", "rd-budget"}
  BY CommandsAssumption DEF Tools
<1>2. i \in Images /\ (i \in Sealed <=> SplitFor(i) = "holdout2")
  BY SealedSplit DEF Pinned
<1> QED
  BY <1>1, <1>2 DEF Selected, SweepSelects, RdBudgetSelects, InSplit, IsSealed, Wanted

\* The other way round, a picture that should be there is selected if it is found.
LEMMA WantedIsSelected ==
  ASSUME NEW c \in Commands, ~Refused(c), c.tool # "report", NEW i \in Wanted(c),
         cache[i] = "pinned"
  PROVE  i \in Selected(c)
<1>1. c.tool \in {"sweep", "rd-budget"}
  BY CommandsAssumption DEF Tools
<1>2. i \in Images /\ (i \in Sealed <=> SplitFor(i) = "holdout2")
  BY SealedSplit DEF Pinned, Wanted
<1>3. i \in Found
  BY <1>2 DEF Found
<1>4. CASE c.tool = "sweep"
  <2>1. c.split # "all"
    BY <1>4 DEF Refused, SweepRefuses
  <2> QED
    BY <1>3, <1>4, <2>1 DEF Selected, SweepSelects, Wanted
<1>5. CASE c.tool = "rd-budget"
  BY <1>2, <1>3, <1>5 DEF Selected, RdBudgetSelects, InSplit, IsSealed, Wanted
<1> QED
  BY <1>1, <1>4, <1>5

-----------------------------------------------------------------------------
(* The invariant. That a result covers its corpus says nothing of how: while   *)
(* a run loads, each stage of its command is still to come, or every pin of it *)
(* is there or about to be.                                                    *)

Secured(pins) == \A i \in pins : cache[i] = "pinned" \/ i \in load.todo

LoadInv ==
  run.pc = "load" =>
    /\ load.at \in {"fetch", "write", "writing"} => load.image \in load.todo
    /\ load.at = "loaded" => load.todo = {} /\ load.stages = <<>>
    /\ \A n \in PinStages :
         InSeq(Stages(run.cmd), n) =>
           InSeq(load.stages, n) \/ Secured(PinsOf(n, run.cmd.split))

Measuring == {"capture", "score", "save", "saving"}

\* Of what is scored, what is pinned and not withdrawn has the bytes of its pin,
\* and a whole run misses none of it.
CoverInv ==
  /\ run.pc \in Passed => ~Refused(run.cmd)
  /\ run.pc \in Measuring /\ run.cmd.tool # "report" =>
       /\ ~run.cmd.partial => Wanted(run.cmd) \subseteq run.inputs
       /\ run.pc = "capture" => \A i \in run.inputs \cap (Pinned \ Withdrawn) : cache[i] = "pinned"
       /\ run.pc # "capture" => run.provenance.off \cap (Pinned \ Withdrawn) = {}
  /\ run.pc = "saving" => run.cmd.tool # "report" /\ ~run.cmd.partial

PinnedInv == LoadInv /\ CoverInv /\ PinnedScored

LEMMA PinnedInit == SweepInit => PinnedInv
<1> SUFFICES ASSUME SweepInit PROVE PinnedInv
  OBVIOUS
<1>1. run.pc = "idle" /\ \A p \in Paths : results[p].at = "absent"
  BY DEF SweepInit, Idle, NoResult
<1> QED
  BY <1>1 DEF PinnedInv, LoadInv, CoverInv, PinnedScored, Passed, Measuring

\* While a run loads, no step of the fetching loses what it has made sure of: a
\* file is only ever opened for writing while it is on the list.
LEMMA LoadStepSecures ==
  ASSUME SweepTypeOK, LoadInv, run.pc = "load", UNCHANGED run, NEW opened,
         LoadStep(run.cmd.split, opened)
  PROVE  LoadInv'
<1> DEFINE split == run.cmd.split
<1> SUFFICES
      /\ load'.at \in {"fetch", "write", "writing"} => load'.image \in load'.todo
      /\ load'.at = "loaded" => load'.todo = {} /\ load'.stages = <<>>
      /\ \A n \in PinStages : InSeq(load.stages, n) \/ Secured(PinsOf(n, split)) =>
           InSeq(load'.stages, n) \/ Secured(PinsOf(n, split))'
  BY DEF LoadInv
<1> USE DEF SweepTypeOK, CacheTypeOK, Loads
<1>1. CASE NextStage(split, opened)
  <2>1. CASE load.stages = <<>>
    BY <1>1, <2>1 DEF NextStage, Secured
  <2>2. CASE load.stages # <<>> /\ load' = [load EXCEPT !.at = "failed"]
    BY <1>1, <2>2 DEF NextStage, Secured
  <2>3. CASE /\ load.stages # <<>>
             /\ load' = [load EXCEPT !.stages = Tail(@), !.todo = StageImages(Head(load.stages), split)]
    <3>1. /\ load.at = "stage" /\ load.todo = {} /\ UNCHANGED cache
          /\ load'.at = "stage" /\ load'.stages = Tail(load.stages)
          /\ load'.todo = StageImages(Head(load.stages), split)
      BY <1>1, <2>3 DEF NextStage
    <3>2. ASSUME NEW n \in PinStages, InSeq(load.stages, n)
          PROVE  InSeq(load'.stages, n) \/ Secured(PinsOf(n, split))'
      <4>1. n = Head(load.stages) \/ InSeq(Tail(load.stages), n)
        BY <2>3, <3>2, InSeqOfTail
      <4>2. n = Head(load.stages) => load'.todo = PinsOf(n, split)
        BY <3>1, PinsAreStageImages
      <4> QED
        BY <3>1, <4>1, <4>2 DEF Secured
    <3>3. \A n \in PinStages : Secured(PinsOf(n, split)) => Secured(PinsOf(n, split))'
      BY <3>1 DEF Secured
    <3> QED
      BY <3>1, <3>2, <3>3
  <2> QED
    BY <1>1, <2>1, <2>2, <2>3 DEF NextStage
<1>2. CASE \E i \in load.todo : EnsurePinnedFixture(i)
  <2>1. PICK i \in load.todo : EnsurePinnedFixture(i)
    BY <1>2
  <2>2. CASE cache[i] = "pinned" /\ load' = [load EXCEPT !.todo = @ \ {i}]
    BY <2>1, <2>2 DEF EnsurePinnedFixture, Secured
  <2>3. CASE /\ load'.todo = load.todo /\ load'.stages = load.stages
             /\ load'.at = "failed" \/ (load'.at \in {"write", "fetch"} /\ load'.image = i)
    BY <2>1, <2>3 DEF EnsurePinnedFixture, Secured
  <2> QED
    BY <2>1, <2>2, <2>3 DEF EnsurePinnedFixture
<1>3. CASE FetchWithRetry
  <2>1. /\ UNCHANGED cache /\ load'.todo = load.todo /\ load'.stages = load.stages
        /\ load'.image = load.image /\ load.at = "fetch" /\ load'.at # "loaded"
    BY <1>3 DEF FetchWithRetry, NextSource
  <2> QED
    BY <2>1 DEF LoadInv, Secured
<1>4. CASE OpenFixture
  <2>1. /\ load.image \in load.todo /\ load' = [load EXCEPT !.at = "writing"]
        /\ cache' = [cache EXCEPT ![load.image] = "other"]
    BY <1>4 DEF OpenFixture, LoadInv
  <2>2. \A j \in Images : cache'[j] = cache[j] \/ j \in load.todo
    BY <2>1
  <2>3. \A n \in PinStages : PinsOf(n, split) \subseteq Images
    BY DEF PinsOf, PinStages, NaturalImagesToFetch, Of, Holdout2Specs, AlphaImagesToFetch, AlphaHoldout2Specs
  <2> QED
    BY <2>1, <2>2, <2>3 DEF Secured
<1>5. CASE WriteFixture
  <2>1. CASE load' = [load EXCEPT !.at = "failed"] /\ UNCHANGED cache
    BY <2>1 DEF Secured
  <2>2. CASE /\ cache' = [cache EXCEPT ![load.image] = "pinned"]
             /\ load' = [load EXCEPT !.at = "stage", !.todo = @ \ {load.image}]
    <3>1. \A j \in Images : cache'[j] = cache[j] \/ cache'[j] = "pinned"
      BY <2>2
    <3>2. \A j \in Images : j \in load.todo => j \in load'.todo \/ cache'[j] = "pinned"
      BY <2>2
    <3>3. \A n \in PinStages : PinsOf(n, split) \subseteq Images
      BY DEF PinsOf, PinStages, NaturalImagesToFetch, Of, Holdout2Specs, AlphaImagesToFetch, AlphaHoldout2Specs
    <3> QED
      BY <2>2, <3>1, <3>2, <3>3 DEF Secured
  <2> QED
    BY <1>5, <2>1, <2>2 DEF WriteFixture
<1> QED
  BY <1>1, <1>2, <1>3, <1>4, <1>5 DEF LoadStep

\* Once loaded, what a command should be taken on is there.
LEMMA LoadedIsThere ==
  ASSUME SweepTypeOK, LoadInv, CoverInv, run.pc = "load", load.at = "loaded",
         run.cmd.tool # "report", NEW i \in Wanted(run.cmd)
  PROVE  cache[i] = "pinned"
<1>1. run.cmd \in Commands /\ ~Refused(run.cmd)
  BY DEF SweepTypeOK, Runs, CoverInv, Passed
<1>2. PICK n \in PinStages : InSeq(Stages(run.cmd), n) /\ i \in PinsOf(n, run.cmd.split)
  BY <1>1, WantedIsStaged
<1>3. load.todo = {} /\ ~InSeq(load.stages, n)
  BY DEF LoadInv, InSeq
<1> QED
  BY <1>2, <1>3 DEF LoadInv, Secured

LEMMA SelectCovers ==
  ASSUME SweepTypeOK, LoadInv, CoverInv, Select, ~Stop
  PROVE  LoadInv' /\ CoverInv'
<1>1. PICK S \in IF run.cmd.partial THEN SUBSET Selected(run.cmd) ELSE {Selected(run.cmd)} :
        run' = [run EXCEPT !.pc = "capture", !.inputs = S]
  BY DEF Select
<1>2. /\ run.pc = "load" /\ load.at = "loaded" /\ UNCHANGED cache
      /\ run'.pc = "capture" /\ run'.cmd = run.cmd /\ run'.inputs = S
  BY <1>1 DEF Select, SweepTypeOK, Runs
<1>3. run.cmd \in Commands /\ ~Refused(run.cmd)
  BY <1>2 DEF SweepTypeOK, Runs, CoverInv, Passed
<1>4. S \subseteq Selected(run.cmd) /\ (~run.cmd.partial => S = Selected(run.cmd))
  BY <1>1
<1>5. ASSUME run.cmd.tool # "report"
      PROVE  /\ ~run.cmd.partial => Wanted(run.cmd) \subseteq S
             /\ \A i \in S \cap (Pinned \ Withdrawn) : cache[i] = "pinned"
  <2>1. \A i \in Wanted(run.cmd) : cache[i] = "pinned"
    BY <1>2, <1>5, LoadedIsThere
  <2>2. Wanted(run.cmd) \subseteq Selected(run.cmd)
    BY <1>3, <1>5, <2>1, WantedIsSelected
  <2>3. \A i \in Selected(run.cmd) \cap (Pinned \ Withdrawn) : i \in Wanted(run.cmd)
    BY <1>3, <1>5, SelectedAreWanted
  <2> QED
    BY <1>4, <2>1, <2>2, <2>3
<1>6. Wanted(run.cmd)' = Wanted(run.cmd)
  BY <1>2 DEF Wanted
<1>7. LoadInv'
  BY <1>2 DEF LoadInv
<1>8. CoverInv'
  BY <1>2, <1>3, <1>5, <1>6 DEF CoverInv, Measuring
<1> QED
  BY <1>7, <1>8

\* A run that ended, or that has not begun, covers nothing yet.
LEMMA IdleCovers ==
  ASSUME run'.pc \in {"idle", "gate"}
  PROVE  LoadInv' /\ CoverInv'
BY DEF LoadInv, CoverInv, Passed, Measuring

LEMMA GateCovers ==
  ASSUME SweepTypeOK, Gate, ~Stop
  PROVE  LoadInv' /\ CoverInv'
<1>1. /\ ~Refused(run.cmd) /\ Begin(Stages(run.cmd))
      /\ run'.pc = "load" /\ run'.cmd = run.cmd
  BY DEF Gate, SweepTypeOK, Runs
<1>2. load'.at = "stage" /\ load'.stages = Stages(run.cmd)
  BY <1>1, BlankTypes DEF Begin, Off
<1> QED
  BY <1>1, <1>2 DEF LoadInv, CoverInv, Measuring

\* Past the loading nothing touches the files, and the inputs stay as they are.
LEMMA MeasuringCovers ==
  ASSUME SweepTypeOK, CoverInv, ~Stop, Capture \/ Score \/ Save
  PROVE  LoadInv' /\ CoverInv'
<1>1. /\ run.pc \in {"capture", "score", "save"} /\ run'.pc \in {"score", "save", "saving"}
      /\ run'.cmd = run.cmd /\ run'.inputs = run.inputs
      /\ ~Capture => run.pc # "capture" /\ run'.provenance = run.provenance
  BY DEF Capture, Score, Save, SweepTypeOK, Runs
<1>2. run'.pc = "saving" => run.cmd.tool # "report" /\ ~run.cmd.partial
  <2>1. Capture \/ Score => run'.pc # "saving"
    BY DEF Capture, Score, SweepTypeOK, Runs
  <2>2. Save => run.cmd.tool # "report" /\ ~run.cmd.partial
    BY DEF Save
  <2> QED
    BY <2>1, <2>2
<1>3. Capture => run.pc = "capture" /\ run'.provenance.off = {i \in run.inputs : cache[i] = "other"}
  BY DEF Capture, SweepTypeOK, Runs
<1>4. ~Refused(run.cmd)
  BY <1>1 DEF CoverInv, Passed
<1>5. run.cmd.tool # "report" =>
        /\ ~run.cmd.partial => Wanted(run.cmd) \subseteq run.inputs
        /\ run'.provenance.off \cap (Pinned \ Withdrawn) = {}
  BY <1>1, <1>3 DEF CoverInv, Measuring
<1> QED
  BY <1>1, <1>2, <1>4, <1>5 DEF LoadInv, CoverInv, Measuring

\* What is saved is what the run at hand covers.
LEMMA PinnedKept ==
  ASSUME SweepTypeOK, CoverInv, PinnedScored, [SweepNext]_sweepVars
  PROVE  PinnedScored'
<1>1. CASE UNCHANGED results
  BY <1>1 DEF PinnedScored, Wanted
<1>2. CASE Save /\ results' = [results EXCEPT ![Path(run.cmd)] = [NoResult EXCEPT !.at = "torn"]]
  <2>1. \A p \in Paths : results'[p] = results[p] \/ results'[p].at = "torn"
    BY <1>2 DEF NoResult, SweepTypeOK
  <2> QED
    BY <2>1 DEF PinnedScored
<1>3. CASE Saved
  <2>1. \A p \in Paths : results'[p] = results[p] \/ results'[p] = Result
    BY <1>3 DEF Saved, SweepTypeOK
  <2>2. /\ Wanted(Result.cmd) \subseteq Result.images
        /\ Result.provenance.off \cap (Pinned \ Withdrawn) = {}
    BY <1>3 DEF Saved, Result, CoverInv, Measuring
  <2> QED
    BY <2>1, <2>2 DEF PinnedScored
<1>4. UNCHANGED results \/ Saved
        \/ (Save /\ results' = [results EXCEPT ![Path(run.cmd)] = [NoResult EXCEPT !.at = "torn"]])
  BY DEF SweepNext, RunStep, sweepVars, Gate, Load, LoadFailed, Select, Capture, Score, Save,
         Start, Edit, Commit, Build, Register, DeleteFixture, Crash
<1> QED
  BY <1>1, <1>2, <1>3, <1>4

LEMMA PinnedStep == SweepTypeOK /\ PinnedInv /\ [SweepNext]_sweepVars => PinnedInv'
<1> SUFFICES ASSUME SweepTypeOK, PinnedInv, [SweepNext]_sweepVars PROVE LoadInv' /\ CoverInv'
  BY PinnedKept DEF PinnedInv
<1> USE DEF PinnedInv
<1>1. CASE Stop
  <2>1. run'.pc = "idle"
    BY <1>1 DEF Stop, Idle
  <2> QED
    BY <2>1, IdleCovers
<1>2. CASE Gate /\ ~Stop
  BY <1>2, GateCovers
<1>3. CASE Load
  <2>1. run.pc = "load" /\ UNCHANGED run
    BY <1>3 DEF Load
  <2>2. LoadInv'
    BY <1>3, <2>1, LoadStepSecures DEF Load
  <2>3. CoverInv'
    BY <2>1 DEF CoverInv, Measuring, Passed
  <2> QED
    BY <2>2, <2>3
<1>4. CASE Select /\ ~Stop
  BY <1>4, SelectCovers
<1>5. CASE (Capture \/ Score \/ Save) /\ ~Stop
  BY <1>5, MeasuringCovers
<1>6. CASE \E c \in Commands : Start(c)
  <2>1. run'.pc = "gate"
    BY <1>6 DEF Start, Idle
  <2> QED
    BY <2>1, IdleCovers
<1>7. CASE \E i \in Images : DeleteFixture(i)
  <2>1. run'.pc = "idle"
    BY <1>7 DEF DeleteFixture
  <2> QED
    BY <2>1, IdleCovers
<1>8. CASE UNCHANGED <<cache, load, run>>
  <2>1. LoadInv'
    BY <1>8 DEF LoadInv, Secured
  <2>2. CoverInv'
    BY <1>8 DEF CoverInv, Wanted
  <2> QED
    BY <2>1, <2>2
<1>9. (\E d \in Decisions : Register(d)) \/ Edit \/ Commit \/ Build \/ UNCHANGED sweepVars =>
        UNCHANGED <<cache, load, run>>
  BY DEF Register, Edit, Commit, Build, sweepVars
<1>10. LoadFailed \/ Saved \/ Crash => Stop
  BY DEF LoadFailed, Saved, Crash
<1> QED
  BY <1>1, <1>2, <1>3, <1>4, <1>5, <1>6, <1>7, <1>8, <1>9, <1>10 DEF SweepNext, RunStep

\* A committed result was taken on every pinned picture of its split and corpus,
\* in the bytes of its pin, however many fetches failed, were cut off or met other
\* bytes, and whatever other runs left under fixtures/ (corpus-pin.ts, the lists
\* of pins, and the selections of sweep.ts and rd-budget.ts).
THEOREM ResultsCoverTheCorpus == SweepSpec => []PinnedScored
<1>1. PinnedInv => PinnedScored
  BY DEF PinnedInv
<1> QED
  BY <1>1, PinnedInit, PinnedStep, SweepTypeCorrect, PTL DEF SweepSpec

-----------------------------------------------------------------------------
(* The document leaves the measurements alone.                                 *)

\* Writing, checking and correcting the document and the sentences that quote it
\* is, to the measuring tools, nothing at all: the system behaves as they specify.
THEOREM DocumentsOnlyRead == Spec => SweepSpec
<1>1. Init => SweepInit
  BY DEF Init
<1>2. [Next]_vars => [SweepNext]_sweepVars
  BY DEF Next, WriteDoc, Transcribe, Slip, Fix, Quote, Reword, Quiet, vars, sweepVars
<1> QED
  BY <1>1, <1>2, PTL DEF Spec, SweepSpec

\* Beside a document, too, the sealed pictures stay sealed, their readings final,
\* and every result covers its corpus.
COROLLARY KeptBesideTheDocument == Spec => []SealKept /\ ReadingKept /\ []PinnedScored
BY DocumentsOnlyRead, SealedStaysSealed, ReadingsAreFinal, ResultsCoverTheCorpus, PTL

-----------------------------------------------------------------------------
(* A green check                                                               *)

LEMMA PathsAreFinite == IsFiniteSet(Paths)
<1> DEFINE f == [c \in Commands |-> Path(c)]
<1>1. f \in Surjection(Commands, Paths)
  BY DEF Surjection, Paths
<1> QED
  BY <1>1, CommandsAssumption, FS_Surjection

\* A measurement is never taken for a blank cell, nor for prose.
LEMMA MeasuredIsNumber ==
  ASSUME SweepTypeOK, ArmsInv, NEW t \in Tables, NEW k \in Cells(t),
         Source[t] \in Committed, k \notin Stray(t), k \in Reached(t)
  PROVE  Measured(t, k) \notin {Blank, Prose}
<1> DEFINE s == results[Source[t]].scores
<1>1. Source[t] \in Paths /\ Kind[t] \in {"rows", "columns", "ratio", "summary"}
  BY TablesAssumption
<1>2. s \in Seq(Rows) /\ Len(s) = Arms
  BY <1>1 DEF SweepTypeOK, Results, ArmsInv, Committed
<1>3. CASE Kind[t] = "ratio"
  BY <1>3 DEF Measured, Blank, Prose
<1>4. CASE Kind[t] = "summary"
  <2>1. \A found \in SUBSET Paths : ArmsCompared(found) \in Nat
    <3> SUFFICES ASSUME NEW found \in SUBSET Paths PROVE ArmsCompared(found) \in Nat
      OBVIOUS
    <3>1. Cardinality(found) \in Nat
      BY PathsAreFinite, FS_Subset, FS_CardinalityType
    <3>2. Arms - 1 \in Nat
      BY EffortAssumption
    <3>3. \A x, y \in Nat : x * y \in Nat
      OBVIOUS
    <3> QED
      BY <3>1, <3>2, <3>3 DEF ArmsCompared
  <2>2. Sweeps \in SUBSET Paths /\ {Source[t]} \in SUBSET Paths
    BY <1>1 DEF Sweeps, Committed
  <2>3. PICK n \in Nat : Measured(t, k) = <<n>>
    BY <1>4, <2>1, <2>2 DEF Measured
  <2> QED
    BY <2>3 DEF Blank, Prose
<1>5. CASE Kind[t] \in {"rows", "columns"}
  <2>1. HasRow(Source[t], k)
    BY <1>5 DEF Stray
  <2>2. k \in 1 .. Arms
    BY <1>5 DEF Cells
  <2>3. s[k] \in Nat
    BY <1>2, <2>1, <2>2 DEF HasRow, Rows
  <2>4. Measured(t, k) = <<s[k]>>
    BY <1>5 DEF Measured
  <2> QED
    BY <2>3, <2>4 DEF Blank, Prose
<1> QED
  BY <1>1, <1>3, <1>4, <1>5

\* A table with a cell that it was not given up before has its result.
LEMMA CheckedHasResult ==
  ASSUME NEW t \in Tables, ~Skipped(t)
  PROVE  Source[t] \in Committed
<1>1. \E k \in Cells(t) : TRUE
  <2>1. CASE Kind[t] = "ratio"
    <3>1. 2 \in Cells(t)
      BY <2>1, TablesAssumption, EffortAssumption DEF Cells
    <3> QED
      BY <3>1
  <2>2. CASE Kind[t] # "ratio"
    <3>1. 1 \in Cells(t)
      BY <2>2, EffortAssumption DEF Cells
    <3> QED
      BY <3>1
  <2> QED
    BY <2>1, <2>2
<1> QED
  BY <1>1 DEF Skipped, GivesUp

\* In a green strict check every cell of a bound table was held to its
\* measurement, and says it or nothing.
LEMMA GreenTable ==
  ASSUME NEW l \in Lists, Green(l, TRUE, "all"), NEW t \in l.bound
  PROVE  /\ t \in Tables /\ t \in Run(l, "all") /\ ~Skipped(t)
         /\ Reached(t) = Cells(t) /\ Stray(t) = {}
         /\ \A k \in Cells(t) : doc[t][k] \in {Blank, Prose, Measured(t, k)}
<1>1. t \in Tables /\ t \in Run(l, "all")
  BY TablesAssumption DEF Run
<1>2. ~Skipped(t)
  BY <1>1 DEF Green, StrictFails
<1>3. Reached(t) = Cells(t)
  BY <1>2 DEF Skipped, Reached
<1>4. Stray(t) = {} /\ Disagreeing(t) = {}
  BY <1>1 DEF Green, Failing
<1>5. \A k \in Cells(t) : doc[t][k] \in {Blank, Prose, Measured(t, k)}
  BY <1>3, <1>4 DEF Disagreeing, Compared
<1> QED
  BY <1>1, <1>2, <1>3, <1>4, <1>5

LEMMA GreenChecks ==
  ASSUME SweepTypeOK, ArmsInv
  PROVE  GreenMeansChecked
<1> SUFFICES ASSUME NEW l \in Lists, Green(l, TRUE, "all")
             PROVE  /\ \A t \in l.bound :
                         LET r == results[Source[t]]
                             right == {k \in Cells(t) : doc[t][k] = Measured(t, k)} IN
                         /\ r.at = "whole" /\ ~r.provenance.dirty
                         /\ \A i \in r.images \cap Pinned : i \notin r.provenance.off
                         /\ Cardinality(right) = l.cells[t]
                         /\ \A k \in Cells(t) \ right : doc[t][k] \in {Blank, Prose}
                    /\ Tables \ l.bound \subseteq l.notes
  BY DEF GreenMeansChecked
<1>1. ASSUME NEW t \in l.bound
      PROVE  LET r == results[Source[t]]
                 right == {k \in Cells(t) : doc[t][k] = Measured(t, k)} IN
             /\ r.at = "whole" /\ ~r.provenance.dirty
             /\ \A i \in r.images \cap Pinned : i \notin r.provenance.off
             /\ Cardinality(right) = l.cells[t]
             /\ \A k \in Cells(t) \ right : doc[t][k] \in {Blank, Prose}
  <2> DEFINE r == results[Source[t]]
             right == {k \in Cells(t) : doc[t][k] = Measured(t, k)}
  <2>1. /\ t \in Tables /\ t \in Run(l, "all") /\ ~Skipped(t)
        /\ Reached(t) = Cells(t) /\ Stray(t) = {}
        /\ \A k \in Cells(t) : doc[t][k] \in {Blank, Prose, Measured(t, k)}
    BY <1>1, GreenTable
  <2>2. Source[t] \in Committed
    BY <2>1, CheckedHasResult
  <2>3. r.at = "whole"
    BY <2>2 DEF Committed
  <2>4. ~r.provenance.dirty /\ r.provenance.off \cap Pinned = {}
    <3>1. Source[t] \in Read(l, "all") \cap Committed
      BY <2>1, <2>2 DEF Read
    <3>2. Distrusted(l, "all") = {}
      BY DEF Green, StrictFails
    <3> QED
      BY <3>1, <3>2 DEF Distrusted
  <2>5. Compared(t) = right
    <3>1. \A k \in Cells(t) : Measured(t, k) \notin {Blank, Prose}
      BY <2>1, <2>2, MeasuredIsNumber
    <3> QED
      BY <2>1, <3>1 DEF Compared
  <2>6. Cardinality(right) = l.cells[t]
    <3>1. CellsChecked(t) = l.cells[t]
      BY <1>1, <2>1 DEF Green, RegisterProblems
    <3> QED
      BY <2>5, <3>1 DEF CellsChecked
  <2> QED
    BY <2>1, <2>3, <2>4, <2>6
<1>2. Tables \ l.bound \subseteq l.notes
  BY DEF Green, RegisterProblems
<1> QED
  BY <1>1, <1>2

\* What a strict check says at its end: every bound table is backed by a committed
\* result of a clean tree on the pinned bytes, cell for cell, and every other one
\* has a reason, whatever was skipped, lost, torn or mistyped before
\* (verify-experiments.ts).
THEOREM GreenIsEvidence == Spec => []GreenMeansChecked
<1>1. SweepInit => SweepTypeOK /\ ArmsInv
  BY TypeInit, ArmsInit
<1>2. SweepTypeOK /\ ArmsInv /\ [SweepNext]_sweepVars => SweepTypeOK' /\ ArmsInv'
  BY TypeStep, ArmsStep
<1>3. SweepTypeOK /\ ArmsInv => GreenMeansChecked
  BY GreenChecks
<1> QED
  BY <1>1, <1>2, <1>3, DocumentsOnlyRead, PTL DEF SweepSpec

LEMMA QuotesTraced == QuotesAreMeasured
<1> SUFFICES ASSUME NEW l \in Lists, Green(l, TRUE, "all"), ClaimsGreen, NEW f \in Figures
             PROVE  /\ f \in Claims /\ Traced(f, l) =>
                         quotes[f] = [i \in DOMAIN Cites[f] |-> Measured(Cites[f][i][1], Cites[f][i][2])]
                    /\ f \in Shaped /\ quotes[f] # Gone /\ File[f] \in Gated => f \in Claims
  BY DEF QuotesAreMeasured
<1>1. ASSUME f \in Claims, Traced(f, l)
      PROVE  quotes[f] = [i \in DOMAIN Cites[f] |-> Measured(Cites[f][i][1], Cites[f][i][2])]
  <2>1. quotes[f] = Expected(f) /\ Comparable(f)
    BY <1>1 DEF ClaimsGreen, ClaimHolds
  <2>2. ASSUME NEW i \in DOMAIN Cites[f]
        PROVE  doc[Cites[f][i][1]][Cites[f][i][2]] = Measured(Cites[f][i][1], Cites[f][i][2])
    <3> DEFINE t == Cites[f][i][1]
               k == Cites[f][i][2]
    <3>1. t \in l.bound /\ k \in Cells(t) /\ doc[t][k] \notin {Blank, Prose}
      BY <1>1, <2>1 DEF Traced, Comparable, Numeric
    <3>2. doc[t][k] \in {Blank, Prose, Measured(t, k)}
      BY <3>1, GreenTable
    <3> QED
      BY <3>1, <3>2
  <2> QED
    BY <2>1, <2>2 DEF Expected
<1>2. ASSUME f \in Shaped, quotes[f] # Gone, File[f] \in Gated
      PROVE  f \in Claims
  BY <1>2 DEF ClaimsGreen, Unregistered
<1> QED
  BY <1>1, <1>2

\* Where that check and the one on the quoted figures both end well, what the other
\* files quote is what the committed results measure (verify-claims.ts).
THEOREM QuotesAreEvidence == Spec => []QuotesAreMeasured
BY QuotesTraced, PTL
=============================================================================
