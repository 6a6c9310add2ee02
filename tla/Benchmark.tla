----------------------------- MODULE Benchmark -----------------------------
(***************************************************************************)
(* spec/PERFORMANCE.md, the baselines it quotes, and the check that holds  *)
(* the one to the other: verify-benchmark-core.ts and verify-benchmark.ts. *)
(* The baselines are reports of module Perf, one in each slot, and two     *)
(* files of stage shares whose columns are recorded one by one. The check  *)
(* reads everything and decides in one go, so it is an operator of what is *)
(* committed; --fix is the one thing it does to the page.                  *)
(*                                                                         *)
(* A number on the page is known by the times it is computed from.         *)
(***************************************************************************)
EXTENDS Perf

CONSTANTS
  Sweeps,     \* sweeps by name, as module Perf takes them
  Released,   \* the reports that a page may first be written from, by slot
  Rows,       \* rows of the page: [table, name, n, tier]
  Edited,     \* the cells that authors get to, as <<row, column>>
  Builds,     \* builds that stages are recorded with: [rev, dirty, share]
  MaxRecords, \* reports and columns recorded anew
  MaxSteps    \* steps of a behaviour, those among them

Slots == 1 .. 3            \* perf-report-full.json, perf-report.json, perf-report-2.json
NoReport == [sweep |-> "none", current |-> FALSE]
StageFiles == {"encode", "decode"}
StageColumns == {"t1", "t4", "third"}       \* the third: 512x512-t1, or t4 capped
Tables ==                                   \* of the page, and the sentences that quote a share
  {"1", "1.1", "prose", "2", "2-capped", "3", "4", "4-sizes", "5", "6", "7", "8",
   "12.4-tier-1", "12.4-tier-4", "12.4-decode"}

ASSUME BenchmarkAssumption ==
  /\ Released \subseteq [Slots -> DOMAIN Sweeps \cup {"none"}]
  /\ MaxSteps \in Nat /\ MaxRecords \in Nat
  /\ \A s \in DOMAIN Sweeps : /\ Sweeps[s].impls \subseteq Targets
                              /\ Targets \subseteq DOMAIN Sweeps[s].host

\* Sentences quote a file of stages, and only two tables have a row for a target.
ASSUME RowsAssumption ==
  \A r \in Rows : /\ r.table \in Tables
                  /\ r.table = "prose" => r.name \in StageFiles
                  /\ r.name \in Targets => r.table \in {"7", "8"}

VARIABLES
  slots,      \* the report that each slot holds, and the sweep it is of
  stages,     \* what each column of each stage file holds
  page,       \* what each cell of each row says
  claim,      \* the row on host stability: [says, shared, widest]
  records,    \* how many reports and columns were recorded
  steps

benchVars == <<slots, stages, page, claim, records, steps>>

-----------------------------------------------------------------------------
(* What the cells of the page are bound to *)

StageId(file, column) == <<"stage", file, 0, 0, column, "-">>

\* Some tables must find their cells; to others one that is missing is unbound.
Strict(ids) == [ids |-> ids, strict |-> TRUE, bound |-> TRUE]
Lenient(ids) == [ids |-> ids, strict |-> FALSE, bound |-> TRUE]
Unbound == [ids |-> <<>>, strict |-> FALSE, bound |-> FALSE]

Columns(table) ==
  CASE table \in {"1", "1.1", "prose"} -> {<<c, 0>> : c \in StageColumns}
    [] table = "2" -> {<<"bytes", 0>>, <<"encode", 0>>, <<"decode", 0>>}
    [] table = "2-capped" -> {<<"natural", 0>>, <<"capped", 0>>, <<"saving", 0>>}
    [] table = "3" -> {<<"encode", 0>>, <<"per-megapixel", 0>>}
    [] table = "4" -> {<<"encode", 0>>, <<"vs-shipped", 0>>}
    [] table \in {"4-sizes", "12.4-tier-1"} -> {<<"at", n>> : n \in {100, 256, 512}}
    [] table = "5" -> {<<"SIMD", 0>>, <<"scalar", 0>>, <<"gain", 0>>}
    [] table = "6" -> {<<"direct", 0>>, <<"separable", 0>>, <<"speedup", 0>>}
    [] table = "12.4-tier-4" -> {<<"encode", 0>>, <<"speedup", 0>>}
    [] table = "12.4-decode" -> {<<"natural", 1>>, <<"natural", 4>>, <<"capped32", 4>>}
    [] table = "7" -> {<<"encode", 0>>, <<"encode", 1>>, <<"encode", 2>>, <<"decode", 1>>, <<"decode", 2>>}
    [] table = "8" -> {<<"1", 0>>, <<"auto", 0>>, <<"scaling", 0>>}

\* A column that divides one time by another reads both.
Pick(c, divides, slow, fast) ==
  CASE c[1] = divides -> <<slow, fast>>
    [] c[1] \in {"natural", "scalar", "direct"} -> <<slow>>
    [] OTHER -> <<fast>>

Encode(t, tier, n) == EncodeId(t, tier, n, "gradient", "-")
Decode(t, tier, raster) == DecodeId(t, tier, raster, "-")
Arm(n, arm) == EncodeId("Rust", 1, n, "gradient", arm)
Tier4Arm(arm) == EncodeId("Rust", 4, 100, "gradient", arm)

\* The transform, levers, languages and batches that are priced against another.
ResolveBuilt(row, c) ==
  CASE row.table = "6" -> Lenient(Pick(c, "speedup", Arm(row.n, "shipped"), Arm(row.n, "dct_separable")))
    [] row.table = "12.4-tier-1" ->
         \* The early exit acts inside refinement, and is held against that.
         LET base == IF row.name = "refine_passes=1+accel_sse_early_exit"
                       THEN "refine_passes=1" ELSE "shipped" IN
         Strict(<<Arm(c[2], base), Arm(c[2], row.name)>>)
    [] row.table = "12.4-tier-4" ->
         CASE c[1] = "encode" -> Strict(<<Tier4Arm(row.name)>>)
           [] row.name = "shipped" -> Unbound
           [] OTHER -> Strict(<<Tier4Arm("shipped"), Tier4Arm(row.name)>>)
    [] row.table = "12.4-decode" ->
         Strict(<<DecodeId("Rust", c[2], c[1], "shipped"), DecodeId("Rust", c[2], c[1], row.name)>>)
    [] row.table = "7" ->
         Lenient(<<IF c[1] = "encode" THEN Encode(row.name, c[2], 100)
                   ELSE Decode(row.name, c[2], "natural")>>)
    [] row.table = "8" ->
         Lenient(IF c[1] = "scaling" THEN <<BatchId(row.name, "1"), BatchId(row.name, "auto")>>
                 ELSE <<BatchId(row.name, c[1])>>)

Resolve(row, c) ==
  CASE row.table = "1" -> Lenient(<<StageId("encode", c[1])>>)
    [] row.table = "1.1" -> Strict(<<StageId("decode", c[1])>>)
    [] row.table = "prose" -> Strict(<<StageId(row.name, c[1])>>)
    [] row.table = "2" ->
         Strict(CASE c[1] = "bytes" -> <<>>
                  [] c[1] = "encode" -> <<Encode("Rust", row.tier, 100)>>
                  [] c[1] = "decode" -> <<Decode("Rust", row.tier, "natural")>>)
    [] row.table = "2-capped" ->
         Strict(Pick(c, "saving", Decode("Rust", row.tier, "natural"), Decode("Rust", row.tier, "capped32")))
    [] row.table = "3" -> Strict(<<Encode("Rust", 1, row.n)>>)
    [] row.table = "4" ->
         Lenient(<<Arm(100, row.name)>> \o (IF c[1] = "encode" THEN <<>> ELSE <<Arm(100, "shipped")>>))
    [] row.table = "4-sizes" -> Lenient(<<Arm(c[2], row.name)>>)
    [] row.table = "5" ->
         Strict(Pick(c, "gain", Encode("Rust-scalar", row.tier, row.n), Encode("Rust", row.tier, row.n)))
    [] OTHER -> ResolveBuilt(row, c)

BoundCells == UNION {{<<r, c>> : c \in Columns(r.table)} : r \in Rows}

To == [cell \in BoundCells |-> Resolve(cell[1], cell[2])]

\* Of a report, the cells that some cell of the page is bound to.
Followed == UNION {ToSet(To[cell].ids) : cell \in BoundCells}

\* What a slot holds: the report, with what each of its cells takes. A second cell
\* of the same name does not count.
Committed(s) ==
  LET report == Report(Sweeps[s])
      cells == {c \in report.cells : c.id \in Followed}
      ids == {c.id : c \in cells}
      First(id) == CHOOSE c \in cells : c.id = id /\ \A d \in cells : d.id = id => c.block <= d.block
  IN [sweep |-> s, current |-> report.current, commit |-> report.commit, dirty |-> report.dirty,
      cpu |-> report.cpu, mode |-> report.mode, unavailable |-> report.unavailable,
      targets |-> {c.id[2] : c \in report.cells}, us |-> [id \in ids |-> First(id).us],
      twice |-> \E c \in cells : c # First(c.id)]

-----------------------------------------------------------------------------
(* The committed runs *)

\* Known by their slots, which are in the order that a lookup prefers.
Loaded == {i \in Slots : slots[i].current}

Dirty == \E i \in Loaded : slots[i].dirty
Duplicates == \E i \in Loaded : slots[i].twice

\* Compared across every pair, not with the run that happened to be read first.
Apart(a, b) == 10 * (Max({a, b}) - Min({a, b})) > Min({a, b})
RunsApart(a, b) ==
  \E id \in (DOMAIN a.us) \cap (DOMAIN b.us) : Apart(a.us[id], b.us[id])
CrossRunSpread == \E i, j \in Loaded : RunsApart(slots[i], slots[j])

\* The first run that has a cell is the one that counts.
Having(id) == {i \in Loaded : id \in DOMAIN slots[i].us}
Has(id) == Having(id) # {}
Us(id) == slots[Min(Having(id))].us[id]

\* A probe that failed outranks one that found nothing.
KindOf(t) ==
  LET failed == {i \in Loaded : /\ t \in DOMAIN slots[i].unavailable
                                /\ slots[i].unavailable[t] # "absent"} IN
  IF failed = {} THEN "absent" ELSE slots[Min(failed)].unavailable[t]

\* Mutant: a run takes back only what it or a run before it has listed.
UnmeasuredInline ==
  LET left == {t \in Targets : \E i \in Loaded :
                 /\ t \in DOMAIN slots[i].unavailable
                 /\ \A j \in Loaded : i <= j => t \notin slots[j].targets} IN
  [t \in left |-> KindOf(t)]

\* Whatever one run lacks and another one measured is measured.
Unmeasured ==
  LET listed == UNION {DOMAIN slots[i].unavailable : i \in Loaded}
      measured == UNION {slots[i].targets : i \in Loaded} IN
  [t \in listed \ measured |-> KindOf(t)]

-----------------------------------------------------------------------------
(* The claim of two bounded sweeps on one host at one commit *)

\* In thousandths of the faster time.
Spread(times) == ((Max(times) - Min(times)) * 1000) \div Min(times)

Stability ==
  LET bounded == {i \in Slots : slots[i].current /\ slots[i].mode = "bounded"}
      reports == {slots[i] : i \in bounded}
      shared == {id \in Followed : \A r \in reports : id \in DOMAIN r.us}
      across(id) == {r.us[id] : r \in reports}
      holds == /\ Cardinality({r.commit : r \in reports}) = 1
               /\ Cardinality({r.cpu : r \in reports}) = 1
               /\ shared # {}
               /\ \A q, r \in reports : ~RunsApart(q, r)
  IN IF Cardinality(bounded) < 2 THEN [status |-> "skip", shared |-> 0, widest |-> 0]
     ELSE [status |-> IF holds THEN "pass" ELSE "fail",
           shared |-> Cardinality(shared),
           widest |-> Max({0} \cup {Spread(across(id)) : id \in shared})]

\* It may say yes with the figures of a check that passed, and no without one.
StabilityClaimHolds(said, s) ==
  \/ said.says = "Yes" /\ s.status = "pass" /\ said.shared = s.shared /\ said.widest = s.widest
  \/ said.says = "No" /\ s.status # "pass"

-----------------------------------------------------------------------------
(* The check of one cell *)

Recordings(file) == {c \in StageColumns : stages[file][c].share > 0}

\* What a cell can be bound to, and how long it took.
IsStage(id) == id[1] = "stage"
Timed(id) ==
  IF IsStage(id) THEN stages[id[2]][id[5]].share > 0 ELSE Has(id)
TimeOf(id) == IF IsStage(id) THEN stages[id[2]][id[5]].share ELSE Us(id)

Found(ids) == \A k \in DOMAIN ids : Timed(ids[k])
Number(ids) == [kind |-> "number", value |-> [k \in DOMAIN ids |-> TimeOf(ids[k])]]
Tbd == [kind |-> "TBD", value |-> <<>>]
Marker == [kind |-> "marker", value |-> <<>>]
Prose == [kind |-> "prose", value |-> <<>>]

\* checkTable, in its order. What is "wrong" or "pending" fails, and --fix
\* rewrites it; "failed" is beyond it; everything else passes.
CheckBound(to, says) ==
  IF says.kind = "marker" THEN "failed"
  ELSE IF says.kind = "prose" THEN "passed-over"
  ELSE IF to.strict /\ ~Found(to.ids) THEN "failed"
  ELSE IF ~to.bound \/ ~Found(to.ids) THEN "unbound"
  ELSE IF says.kind = "TBD" THEN "pending"
  ELSE IF says = Number(to.ids) THEN "checked" ELSE "wrong"

\* Mutant: a row of a target that no run could measure is skipped, whatever it says.
CheckCellSkipping(cell, says, unavailable) ==
  LET target == cell[1].name IN
  IF target \notin DOMAIN unavailable THEN CheckBound(To[cell], says)
  ELSE IF unavailable[target] = "absent" THEN "unavailable" ELSE "failed"

CheckCell(cell, says, unavailable) ==
  LET target == cell[1].name IN
  IF target \notin DOMAIN unavailable THEN CheckBound(To[cell], says)
  ELSE IF unavailable[target] = "absent" /\ says.kind = "marker" THEN "unavailable" ELSE "failed"

\* A sentence that quotes a share must be there, and be right.
CheckProseClaim(cell, says) ==
  LET ids == To[cell].ids IN
  IF Found(ids) /\ says = Number(ids) THEN "checked" ELSE "failed"

CellVerdict(cell, says, unavailable) ==
  IF cell[1].table = "prose" THEN CheckProseClaim(cell, says) ELSE CheckCell(cell, says, unavailable)

\* What the check makes of every cell of the page.
Verdicts ==
  LET unavailable == Unmeasured IN
  [cell \in BoundCells |-> CellVerdict(cell, page[cell[1]][cell[2]], unavailable)]

-----------------------------------------------------------------------------
(* The rest of it *)

\* No run of this schema, or no file of stages, ends it where it begins.
Runnable == Loaded # {} /\ \A f \in StageFiles : Recordings(f) # {}

\* A file is merged column by column, and is to read as one measurement.
OneCleanCommit(file) ==
  /\ \A c \in Recordings(file) : ~stages[file][c].dirty
  /\ Cardinality({stages[file][c].rev : c \in Recordings(file)}) = 1

\* Of the decode table each column is needed, and each cell must have been looked at.
DecodeTableWhole(verdicts) ==
  /\ Recordings("decode") = StageColumns
  /\ \A cell \in BoundCells :
       cell[1].table = "1.1" => verdicts[cell] \in {"checked", "wrong", "pending"}

\* What the runs themselves must be.
RunsInOrder ==
  /\ ~Dirty /\ ~Duplicates /\ ~CrossRunSpread
  /\ Stability.status # "fail" /\ StabilityClaimHolds(claim, Stability)

\* Exit status 0.
Green ==
  LET verdicts == Verdicts IN
  /\ Runnable /\ RunsInOrder
  /\ \A f \in StageFiles : OneCleanCommit(f)
  /\ \A cell \in BoundCells : verdicts[cell] \notin {"failed", "pending", "wrong"}
  /\ DecodeTableWhole(verdicts)

-----------------------------------------------------------------------------
(* Steps *)

Step == steps < MaxSteps /\ steps' = steps + 1
Recording == Step /\ records < MaxRecords /\ records' = records + 1
Editing == Step /\ UNCHANGED records

\* A sweep runs to its end, and its report is committed.
Record(slot, s) ==
  /\ Recording /\ ~Dies(Sweeps[s])
  /\ slots' = [slots EXCEPT ![slot] = Committed(s)]
  /\ UNCHANGED <<stages, page, claim>>

\* The recorder writes the column, looks at the tree, and writes it again. If it
\* ends in between, the column has no revision, and is not dirty; that matters
\* where the tree is dirty.
RecordStage(file, column, b, cut) ==
  /\ Recording
  /\ stages' = [stages EXCEPT ![file][column] =
                  IF cut THEN [b EXCEPT !.rev = "none", !.dirty = FALSE] ELSE b]
  /\ UNCHANGED <<slots, page, claim>>

WriteCell(cell, says) ==
  /\ Editing
  /\ page' = [page EXCEPT ![cell[1]][cell[2]] = says]
  /\ UNCHANGED <<slots, stages, claim>>

\* The row is written to say no, or to say yes with the figures that the check prints.
Claim(says) ==
  /\ Editing
  /\ claim' = [says |-> says, shared |-> Stability.shared, widest |-> Stability.widest]
  /\ UNCHANGED <<slots, stages, page>>

\* --fix: what is wrong or pending is rewritten, and nothing else. It ends well
\* whatever else has failed, and before the stages are looked into.
Fix ==
  /\ Editing /\ Runnable
  /\ UNCHANGED <<slots, stages, claim>>
  /\ LET verdicts == Verdicts IN
     page' = [r \in Rows |->
                [c \in Columns(r.table) |->
                   IF verdicts[<<r, c>>] \in {"pending", "wrong"}
                     THEN Number(To[<<r, c>>].ids) ELSE page[r][c]]]

\* The page as it was written from the reports of its release.
WrittenAt(cell) ==
  LET ids == To[cell].ids IN
  CASE cell[1].name \in DOMAIN Unmeasured -> Marker
    [] Found(ids) /\ To[cell].bound -> Number(ids)
    [] OTHER -> Prose

BenchInit ==
  /\ \E names \in Released :
       slots = [i \in Slots |-> IF names[i] = "none" THEN NoReport ELSE Committed(names[i])]
  /\ \E b \in Builds : ~b.dirty /\ stages = [f \in StageFiles |-> [c \in StageColumns |-> b]]
  /\ page = [r \in Rows |-> [c \in Columns(r.table) |-> WrittenAt(<<r, c>>)]]
  /\ claim = [says |-> "No", shared |-> 0, widest |-> 0] /\ records = 0 /\ steps = 0

Typo == [kind |-> "number", value |-> <<0 - 1>>]

BenchNext ==
  \/ \E slot \in Slots, s \in DOMAIN Sweeps : Record(slot, s)
  \/ \E f \in StageFiles, c \in StageColumns, b \in Builds :
       \E cut \in {FALSE, b.dirty} : RecordStage(f, c, b, cut)
  \/ \E cell \in Edited : \E says \in {Tbd, Marker, Prose, Typo, WrittenAt(cell)} : WriteCell(cell, says)
  \/ \E says \in {"Yes", "No", "other"} : Claim(says)
  \/ Fix
  \/ steps = MaxSteps /\ UNCHANGED benchVars

BenchSpec == BenchInit /\ [][BenchNext]_benchVars

-----------------------------------------------------------------------------
\* A report gives a target a time or the reason why there is none.
WellFormed(r) ==
  /\ r.unavailable \in [DOMAIN r.unavailable -> {"absent", "broken", "unclassified"}]
  /\ r.targets \subseteq Targets \ DOMAIN r.unavailable

(* Type invariant: the slots hold reports, and the columns, the page and the    *)
(* claim what they may hold.                                                    *)
BenchTypeOK ==
  /\ \A i \in Slots : slots[i] = NoReport \/ WellFormed(slots[i])
  /\ \A f \in StageFiles, c \in StageColumns :
       stages[f][c].share \in Nat /\ stages[f][c].dirty \in BOOLEAN
  /\ DOMAIN page = Rows
  /\ \A cell \in BoundCells :
       page[cell[1]][cell[2]].kind \in {"number", "TBD", "marker", "prose"}
  /\ claim.says \in {"Yes", "No", "other"} /\ claim.shared \in Nat /\ claim.widest \in Nat
  /\ records \in 0 .. MaxRecords /\ steps \in 0 .. MaxSteps

SweepOf(i) == Sweeps[slots[i].sweep]
Used == {i \in Slots : slots[i] # NoReport /\ SweepOf(i).era # "first-schema"}
MeasuredBy(id) == {i \in Used : id \in DOMAIN slots[i].us}

\* Whatever two sweeps both measured they agree on, to a tenth.
Agreed == \A i, j \in Used : ~RunsApart(slots[i], slots[j])

\* Of a target, the sweeps that have a time of it, that looked for it, and that
\* looked for it and did not have it.
Reaching(t) == {i \in Used : t \in slots[i].targets}
Probing(t) == {i \in Used : t \in SweepOf(i).impls}
Missing(t) == {i \in Probing(t) : SweepOf(i).host[t] # "ok"}

(* What a green check stands for, said of the sweeps themselves: every number   *)
(* whose cells were measured is the one that the first report with the cell     *)
(* has, and no number stands where nothing was measured but in the rows that     *)
(* may be unbound; a number stands for a target only if a sweep reached it, and  *)
(* a marker only where none has a time of it and each one that did not reach it  *)
(* found nothing; nothing is pending that has been measured; the reports are     *)
(* clean and no two times of a cell are a tenth apart; a yes on stability has     *)
(* two bounded sweeps of one commit on one machine; the columns of a stage file   *)
(* are of one clean build. The exceptions and skips of the check each leave out   *)
(* cells, and a false number must not come through any of them.                   *)
CellIsBacked(cell) ==
  LET says == page[cell[1]][cell[2]]
      to == To[cell]
      target == cell[1].name
      measured == \A k \in DOMAIN to.ids :
                    LET id == to.ids[k] IN
                    IF IsStage(id) THEN stages[id[2]][id[5]].share > 0 ELSE MeasuredBy(id) # {}
  IN /\ says.kind = "number" /\ to.bound /\ measured =>
          \A k \in DOMAIN to.ids :
            LET id == to.ids[k] IN
            says.value[k] = IF IsStage(id) THEN stages[id[2]][id[5]].share
                            ELSE slots[Min(MeasuredBy(id))].us[id]
     /\ says.kind \in {"number", "TBD"} /\ ~measured => ~to.strict
     /\ says.kind = "number" /\ Probing(target) # {} /\ target \in Targets =>
          \E i \in Used : target \in Available(SweepOf(i))
     /\ says.kind = "TBD" => ~measured \/ ~to.bound
     /\ says.kind = "marker" =>
          /\ Reaching(target) = {} /\ Missing(target) # {}
          /\ \A i \in Missing(target) : SweepOf(i).host[target] = "ENOENT"
     /\ cell[1].table = "1.1" => says.kind = "number"

GreenIsBacked == Green =>
  /\ Used # {}
  /\ \A i \in Used : ~SweepOf(i).dirty
  /\ Agreed
  /\ \A cell \in BoundCells : CellIsBacked(cell)
  /\ claim.says = "Yes" =>
       LET bounded == {i \in Used : Mode(SweepOf(i)) = "bounded"} IN
       /\ Cardinality(bounded) >= 2
       /\ \A i, j \in bounded : /\ SweepOf(i).commit = SweepOf(j).commit
                                /\ SweepOf(i).cpu = SweepOf(j).cpu
  /\ \A f \in StageFiles : \A c, d \in Recordings(f) :
       ~stages[f][c].dirty /\ stages[f][c].rev = stages[f][d].rev

\* No probe of a target that no sweep has a time of did anything but find nothing.
OnlyAbsent ==
  \A t \in Targets : Reaching(t) = {} =>
    \A i \in Missing(t) : SweepOf(i).host[t] = "ENOENT" /\ SweepOf(i).era = "now"

\* The evidence is in order, whatever the page says.
Sound ==
  /\ Used # {} /\ OnlyAbsent /\ \A i \in Used : ~SweepOf(i).dirty
  /\ Agreed
  /\ Stability.status # "fail" /\ StabilityClaimHolds(claim, Stability)
  /\ \A f \in StageFiles : Recordings(f) = StageColumns /\ OneCleanCommit(f)

\* A cell is of the right kind, whatever its number.
RightKind(cell) ==
  LET says == page[cell[1]][cell[2]]
      ids == To[cell].ids
      target == cell[1].name
  IN IF cell[1].table = "prose" THEN says = Number(ids)
     ELSE IF cell[1].table = "1.1" THEN says.kind \in {"number", "TBD"}
     ELSE IF target \in Targets /\ Missing(target) # {} /\ Reaching(target) = {}
       THEN says.kind = "marker"
     ELSE IF To[cell].strict /\ ~Found(ids) THEN says.kind = "prose"
     ELSE says.kind # "marker"

(* Over evidence in order, and on a page whose markers stand where no sweep      *)
(* could measure and nowhere else, --fix leaves nothing that the check fails,    *)
(* in whatever order and by whichever hosts the reports were made: no cell is    *)
(* beyond its reach that a report can fill, and none needs it twice.             *)
FixPublishes ==
  [][Fix /\ Sound /\ (\A cell \in BoundCells : RightKind(cell)) => Green']_benchVars
=============================================================================
