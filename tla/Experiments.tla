---------------------------- MODULE Experiments ----------------------------
(***************************************************************************)
(* spec/EXPERIMENTS.md, the tables that quote the results of module Sweep, *)
(* and tools/comparison/src/verify-experiments.ts, which holds the one to  *)
(* the other. The check reads files and decides, all in one go, so it is   *)
(* an operator of the document, the results and its own lists; --fix is    *)
(* the one thing it does to the document.                                  *)
(*                                                                         *)
(* A table is a function from its bound cells to what they say: nothing,   *)
(* prose that no parser reads, or a number. A number is known by the       *)
(* scores it is computed from, rounded as the cell rounds it.              *)
(*                                                                         *)
(* The other documents and the constants of the codec quote figures of     *)
(* EXPERIMENTS.md, and verify-claims.ts holds them to its cells, not to    *)
(* the results: the two checks are one chain.                              *)
(***************************************************************************)
EXTENDS Sweep

CONSTANTS
  Tables,     \* the tables of the document
  Kind,       \* how its binding computes it: "rows", "columns", "ratio", "summary"
  Source,     \* the result that each is bound to
  Uncovered,  \* tables with a column or a row that the binding leaves out
  Lists,      \* the check's own lists: [bound, notes, columnNotes, cells]
  MaxSlips,   \* how many cells are mistyped, and sentences reworded
  Figures,    \* the figures that other files quote
  File,       \* the file of each
  Cites,      \* the cells that each is computed from: <<table, cell>>
  Shaped,     \* the figures that are written in a shape which the scan knows
  Claims      \* the register of verify-claims.ts

NoCount == 0 - 1                      \* a table that EXPECTED_CELLS does not list

\* A ratio has an arm beside its base.
ASSUME TablesAssumption ==
  /\ Kind \in [Tables -> {"rows", "columns", "ratio", "summary"}]
  /\ Source \in [Tables -> Paths]
  /\ \A t \in Tables : Kind[t] = "ratio" => Arms > 1
  /\ Uncovered \subseteq Tables /\ MaxSlips \in Nat
  /\ \A l \in Lists : /\ l.bound \subseteq Tables /\ l.notes \subseteq Tables
                      /\ l.columnNotes \subseteq Tables
                      /\ l.cells \in [Tables -> Nat \cup {NoCount}]
ASSUME FiguresAssumption ==
  /\ Claims \subseteq Figures /\ Shaped \subseteq Figures /\ DOMAIN File = Figures
  /\ \A f \in Figures : Cites[f] \in Seq(Tables \X (1 .. Arms))

VARIABLES
  doc,        \* what each bound cell of each table says
  quotes,     \* what each figure says where it is quoted
  slips       \* how many were mistyped

vars == <<cache, load, src, head, bin, register, run, results, runs, doc, quotes, slips>>

Blank == <<>>
Prose == <<0 - 2>>
Typo == <<0 - 3>>
Gone == <<>>            \* no sentence quotes the figure
Twice == <<<<0 - 4>>>>  \* more than one does

\* The base of a ratio has no cell; a summary has its sweep's row and the total.
Cells(t) ==
  CASE Kind[t] = "ratio"   -> 2 .. Arms
    [] Kind[t] = "summary" -> 1 .. 2
    [] OTHER               -> 1 .. Arms

Init ==
  /\ SweepInit /\ doc = [t \in Tables |-> [k \in Cells(t) |-> Blank]] /\ slips = 0
  /\ quotes = [f \in Figures |-> Gone]

-----------------------------------------------------------------------------
(* What a cell is held to *)

Committed == {p \in Paths : results[p].at = "whole"}
Sweeps == {p \in Committed : results[p].cmd.tool = "sweep"}

HasRow(p, k) == results[p].scores[k] # NoRow

\* summarizeInference and addSummaries: the arms that were compared.
ArmsCompared(found) == (Arms - 1) * Cardinality(found)

Measured(t, k) ==
  LET s == results[Source[t]].scores IN
  CASE Kind[t] = "ratio"   -> <<s[k], s[1]>>
    [] Kind[t] = "summary" -> <<ArmsCompared(IF k = 1 THEN {Source[t]} ELSE Sweeps)>>
    [] OTHER               -> <<s[k]>>

\* A binding gives up its table where there is nothing to hold it to: there is no
\* result, a ratio lacks one of its arms, or a summary is not of a sweep.
GivesUp(t, k) ==
  \/ Source[t] \notin Committed
  \/ Kind[t] = "ratio" /\ ~(HasRow(Source[t], k) /\ HasRow(Source[t], 1))
  \/ Kind[t] = "summary" /\ k = 1 /\ Source[t] \notin Sweeps

Skipped(t) == \E k \in Cells(t) : GivesUp(t, k)

\* What it had looked at by then stays looked at.
Reached(t) == {k \in Cells(t) : \A j \in Cells(t) : j <= k => ~GivesUp(t, j)}

\* An arm that the result does not have is a failure that no rewriting mends.
Stray(t) == {k \in Reached(t) : Kind[t] \in {"rows", "columns"} /\ ~HasRow(Source[t], k)}

\* Nothing said is nothing claimed; prose is listed, and counts for nothing.
Compared(t) == {k \in Reached(t) \ Stray(t) : doc[t][k] \notin {Blank, Prose}}

Disagreeing(t) == {k \in Compared(t) : doc[t][k] # Measured(t, k)}

-----------------------------------------------------------------------------
(* The check *)

\* --section narrows the run to the bindings of one section.
Run(l, section) == IF section = "all" THEN l.bound ELSE l.bound \cap {section}

Read(l, section) ==
  {Source[t] : t \in Run(l, section)}
    \cup (IF \E t \in Run(l, section) : Kind[t] = "summary" THEN Paths ELSE {})

\* A file that is there and does not parse ends the check where it is read.
Unreadable(l, section) == \E p \in Read(l, section) : results[p].at = "torn"

Failing(l, section) == {t \in Run(l, section) : Disagreeing(t) \cup Stray(t) # {}}

\* auditProvenance: a dirty tree, or other bytes than the pins.
Distrusted(l, section) ==
  {p \in Read(l, section) \cap Committed :
     \/ results[p].provenance.dirty
     \/ results[p].provenance.off \cap Pinned # {}}

CellsChecked(t) == Cardinality(Compared(t))

\* tableRegisterProblems, and the notes on columns: everything that is left
\* unchecked has its reason, every reason something to explain, and every
\* table that was checked the number of cells that it is meant to have.
RegisterProblems(l) ==
  \/ l.notes \cap l.bound # {}
  \/ Tables \ (l.bound \cup l.notes) # {}
  \/ {t \in Tables : l.cells[t] # NoCount} \ l.bound # {}
  \/ \E t \in l.bound : ~Skipped(t) /\ CellsChecked(t) # l.cells[t]
  \/ Uncovered \cap l.bound # l.columnNotes

\* Mutant: --strict looks at what was skipped and forgets the provenance.
StrictSkipsOnly(l, section) ==
  \/ \E t \in Run(l, section) : Skipped(t)
  \/ \A t \in Run(l, section) : CellsChecked(t) = 0

StrictFails(l, section) ==
  \/ \E t \in Run(l, section) : Skipped(t)
  \/ Distrusted(l, section) # {}
  \/ \A t \in Run(l, section) : CellsChecked(t) = 0

\* Exit status 0.
Green(l, strict, section) ==
  /\ ~Unreadable(l, section)
  /\ Failing(l, section) = {}
  /\ section = "all" => ~RegisterProblems(l)
  /\ strict => ~StrictFails(l, section)

-----------------------------------------------------------------------------
(* verify-claims.ts *)

\* rawCellOf and parseCell: what the cells of a figure give, if they all are numbers.
Numeric(t, k) == k \in Cells(t) /\ doc[t][k] \notin {Blank, Prose}
Expected(f) == [i \in DOMAIN Cites[f] |-> doc[Cites[f][i][1]][Cites[f][i][2]]]
Comparable(f) == \A i \in DOMAIN Cites[f] : Numeric(Cites[f][i][1], Cites[f][i][2])

\* Mutant: a claim whose sentence is gone has nothing to be held to.
ClaimIfFound(f) ==
  quotes[f] = Gone \/ (quotes[f] # Twice /\ Comparable(f) /\ quotes[f] = Expected(f))

\* A registered figure is quoted once, from cells that are numbers, and rightly.
ClaimHolds(f) ==
  quotes[f] \notin {Gone, Twice} /\ Comparable(f) /\ quotes[f] = Expected(f)

\* The scan: figures of the known shapes, in the files that the register names.
Gated == {File[f] : f \in Claims}
Unregistered ==
  {f \in Shaped \ Claims : File[f] \in Gated /\ quotes[f] # Gone}

ClaimsGreen == (\A f \in Claims : ClaimHolds(f)) /\ Unregistered = {}

-----------------------------------------------------------------------------
(* The document. No step of a run but its last two touches what these read, so *)
(* they are taken between runs, and before and while one saves. That it is the *)
(* last one, and the corpus complete, bounds the model and not the developer.  *)

Quiet ==
  /\ \A i \in Pinned \cup Of("generated") : cache[i] = "pinned"
  /\ run.pc \in {"idle", "save", "saving"} /\ runs = MaxRuns
  /\ UNCHANGED sweepVars

\* A table is filled in from the result it quotes, as far as it has the arms.
Transcribe(t) ==
  /\ Quiet /\ ~Skipped(t)
  /\ doc' = [doc EXCEPT ![t] = [k \in Cells(t) |-> IF k \in Stray(t) THEN Blank ELSE Measured(t, k)]]
  /\ UNCHANGED <<quotes, slips>>

Slip(t, k) ==
  /\ Quiet /\ run.pc = "idle" /\ slips < MaxSlips /\ slips' = slips + 1
  /\ \E cell \in {Prose, Typo} : doc' = [doc EXCEPT ![t][k] = cell]
  /\ UNCHANGED quotes

\* --fix: every cell that disagrees is rewritten, and nothing else.
Fix(l, section) ==
  /\ Quiet /\ ~Unreadable(l, section)
  /\ doc' = [t \in Tables |->
               [k \in Cells(t) |-> IF t \in Run(l, section) /\ k \in Disagreeing(t)
                                     THEN Measured(t, k) ELSE doc[t][k]]]
  /\ UNCHANGED <<quotes, slips>>

\* A figure is copied from the document, as it is, into a sentence; and a sentence
\* is rewritten without its figure, or copied.
Quote(f) ==
  /\ Quiet /\ run.pc = "idle" /\ Comparable(f)
  /\ quotes' = [quotes EXCEPT ![f] = Expected(f)]
  /\ UNCHANGED <<doc, slips>>

Reword(f) ==
  /\ Quiet /\ run.pc = "idle" /\ slips < MaxSlips /\ slips' = slips + 1
  /\ \E q \in {Gone, Twice} : quotes' = [quotes EXCEPT ![f] = q]
  /\ UNCHANGED doc

WriteDoc ==
  \/ \E t \in Tables : Transcribe(t) \/ \E k \in Cells(t) : Slip(t, k)
  \/ \E l \in Lists : \E section \in l.bound \cup {"all"} : Fix(l, section)

Next ==
  \/ SweepNext /\ UNCHANGED <<doc, quotes, slips>>
  \/ WriteDoc
  \/ \E f \in Figures : Quote(f) \/ Reword(f)
  \/ run.pc = "idle" /\ runs = MaxRuns /\ UNCHANGED vars

\* A tool that was started goes on by itself; nobody has to start one.
Spec == Init /\ [][Next]_vars /\ WF_vars(RunStep /\ UNCHANGED <<doc, quotes, slips>>)

-----------------------------------------------------------------------------
(* Type invariant: the shape of the fixtures, the run, the results and the doc. *)
TypeOK ==
  /\ CorpusTypeOK
  /\ src \in Builds /\ head \in 0 .. src /\ bin \in 0 .. src
  /\ register \in [Decisions -> {"open", "frozen", "decided"}]
  /\ run.pc \in {"idle", "gate", "load", "capture", "score", "save", "saving"}
  /\ run.cmd \in Commands /\ run.inputs \subseteq Images
  /\ run.scores \in Seq(Builds \cup {NoRow}) /\ Len(run.scores) <= Arms
  /\ run.pc # "load" => load = Off
  /\ \A p \in Paths :
       /\ results[p].at \in {"absent", "torn", "whole"}
       /\ results[p].at = "whole" => Len(results[p].scores) = Arms /\ Path(results[p].cmd) = p
  /\ runs \in 0 .. MaxRuns /\ slips \in 0 .. MaxSlips
  /\ \A t \in Tables : DOMAIN doc[t] = Cells(t)
  /\ \A f \in Figures : Len(quotes[f]) <= Len(Cites[f])

(* A strict check that ends well has held the document to its evidence: every  *)
(* bound table has a committed result, of a clean tree and on the pinned bytes, *)
(* its lists' number of cells say just what that result measures, no cell says *)
(* anything else, and every other table has a reason on record. A skipped       *)
(* table, a lost arm, an unreadable cell, a dirty run and a file cut off in the *)
(* middle each have a way past one of the checks, and none past all of them.    *)
GreenMeansChecked ==
  \A l \in Lists : Green(l, TRUE, "all") =>
    /\ \A t \in l.bound :
         LET r == results[Source[t]]
             right == {k \in Cells(t) : doc[t][k] = Measured(t, k)} IN
         /\ r.at = "whole" /\ ~r.provenance.dirty
         /\ \A i \in r.images \cap Pinned : i \notin r.provenance.off
         /\ Cardinality(right) = l.cells[t]
         /\ \A k \in Cells(t) \ right : doc[t][k] \in {Blank, Prose}
    /\ Tables \ l.bound \subseteq l.notes

\* The cells of a figure that some sweep is behind.
Traced(f, l) == \A i \in DOMAIN Cites[f] : Cites[f][i][1] \in l.bound

(* Where both checks end well, a figure that the other files quote is what the  *)
(* committed results measure, if its cells belong to tables that are bound; and *)
(* of the shapes that the scan knows no other figure stands in those files.     *)
(* Neither check sees the other's evidence: a cell that was mistyped, taken     *)
(* for prose or corrected after it was quoted breaks one of the two links.      *)
(* A figure of a table that is left unbound with a reason is not covered, and   *)
(* the register has such figures.                                               *)
QuotesAreMeasured ==
  \A l \in Lists : (Green(l, TRUE, "all") /\ ClaimsGreen) =>
    \A f \in Figures :
      /\ f \in Claims /\ Traced(f, l) =>
           quotes[f] = [i \in DOMAIN Cites[f] |-> Measured(Cites[f][i][1], Cites[f][i][2])]
      /\ f \in Shaped /\ quotes[f] # Gone /\ File[f] \in Gated => f \in Claims
=============================================================================
