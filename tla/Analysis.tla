------------------------------ MODULE Analysis ------------------------------
(***************************************************************************)
(* tools/comparison/src: the numbers of one sweep, from the scores of its  *)
(* arms to those who read them. sweep.ts scores one variant after another, *)
(* prints its decision table and commits the series; arms.ts and           *)
(* verify-experiments.ts derive everything again from what is committed.   *)
(***************************************************************************)
EXTENDS Arms

CONSTANTS
  Configs,    \* what a config declares: [artifacts, rise, edge, bytes]
  Scored,     \* the series that a variant may score, by metric
  Variants,   \* how many variants there are
  ImageCount  \* how many images

Series == PairedMetrics \cup {"bytes", "spuriousGrid"}
Artifacts == {"ringing", "spurious", "deficit", "spuriousGrid"}

ScoredRow == [Series -> [1 .. ImageCount -> Int \cup {Null}]]

ASSUME ScoredAssumption ==
  /\ Variants \in Nat \ {0} /\ ImageCount \in Nat
  /\ Null \notin Int \cup (Int \X Int)
  /\ \A seed \in Seeds : 1 .. ImageCount \subseteq DOMAIN Draws[seed]
  /\ \A scored \in Scored : scored \in ScoredRow
  /\ \A declared \in Configs : declared.rise \in Int \cup {Null}

\* spuriousDetail: an image is scored with the edge of its grid, or with neither.
ASSUME GridsAssumption ==
  \A scored \in Scored : \A n \in 1 .. ImageCount :
    (scored["spurious"][n] = Null) <=> (scored["spuriousGrid"][n] = Null)

VARIABLES
  phase,      \* where the sweep has got to
  config,     \* its config
  rows,       \* the variants scored so far: every series there is
  table,      \* the decision table that it prints
  file,       \* the rows of the result that it commits
  view        \* what a reader derives from the result

analysisVars == <<phase, config, rows, table, file, view>>

AnalysisInit ==
  /\ config \in Configs
  /\ phase = "config" /\ rows = <<>> /\ table = <<>> /\ file = <<>> /\ view = <<>>

\* main: what is declared about the artifact metrics needs them scored, and a
\* grid of less than two pixels would leave them unscored.
ConfigRefused ==
  \/ config.rise # Null /\ ~config.artifacts
  \/ config.edge # Null /\ (~config.artifacts \/ config.edge < 2)

CheckConfig ==
  /\ phase = "config"
  /\ phase' = IF ConfigRefused THEN "refused" ELSE "score"
  /\ UNCHANGED <<config, rows, table, file, view>>

Unscored == [i \in 1 .. ImageCount |-> Null]

\* scoreVariant: the scores of all images; artifacts only where they are asked for.
ScoreVariant ==
  /\ phase = "score"
  /\ \E row \in Scored :
       rows' = Append(rows, [key \in Series |->
                 IF key \in Artifacts /\ ~config.artifacts THEN Unscored ELSE row[key]])
  /\ phase' = IF Len(rows') = Variants THEN "judge" ELSE "score"
  /\ UNCHANGED <<config, table, file, view>>

-----------------------------------------------------------------------------
(* The decision table *)

\* Mutant: an image without a score is left out of a series.
PerImageCompacted(row) ==
  [key \in {k \in Series : Finite(row[k]) # <<>>} |-> Finite(row[key])]

\* perImageOf: a series that measured nothing is left out.
PerImageOf(row) ==
  [key \in {k \in Series : Finite(row[k]) # <<>>} |-> row[key]]

PerImages == [i \in 1 .. Len(rows) |-> PerImageOf(rows[i])]

\* How many images a row and the first one both scored, and how many it won.
Wins(deltas) == Cardinality({i \in DOMAIN deltas : deltas[i] > 0})

\* Base - candidate, so that more is better.
Gains(row, base) ==
  LET deltas == Paired(row, base, "ciede2000").deltas IN
  [i \in DOMAIN deltas |-> 0 - deltas[i]]

GainInterval(gains) == IF gains = <<>> THEN Null ELSE BootstrapCI(gains, BootstrapSeed)

\* applyGuards: the verdict on means takes every row's own, live, means.
ApplyGuards ==
  LET arms == CompareArms(PerImages, 1) IN
  [i \in 1 .. Len(rows) - 1 |->
     LET gains == Gains(rows[i + 1], rows[1]) IN
     [means |-> MeansOf(rows[i + 1]),
      ci    |-> GainInterval(gains),
      wins  |-> <<Wins(gains), Len(gains)>>,
      onCi  |-> GuardVerdict(arms[i], config.rise),
      ok    |-> GuardsHold(MeansOf(rows[i + 1]), MeansOf(rows[1]), config.rise)]]

\* A mean size that is more than half a byte off the declared one.
OffBudget(row) ==
  LET size == Mean(row["bytes"])
      off == 2 * (size.sum - config.bytes * size.len) IN
  off > size.len \/ off < 0 - size.len

Judge ==
  /\ phase = "judge"
  /\ IF config.bytes # Null /\ \E i \in DOMAIN rows : OffBudget(rows[i])
       THEN phase' = "refused" /\ UNCHANGED table
       ELSE phase' = "write" /\ table' = ApplyGuards
  /\ UNCHANGED <<config, rows, file, view>>

\* Mutant: every arm is known by the largest of its grids.
GridDisagreementsOfArms ==
  LET grid == [i \in DOMAIN rows |-> rows[i]["spuriousGrid"]]
      Largest(i) == {grid[i][n] : n \in {m \in 1 .. ImageCount :
                       grid[i][m] # Null /\ \A k \in 1 .. ImageCount : grid[i][k] # Null => grid[i][k] <= grid[i][m]}} IN
  IF Finite(grid[1]) # <<>> /\ Cardinality(UNION {Largest(i) : i \in DOMAIN rows}) > 1
    THEN 1 .. ImageCount ELSE {}

\* gridDisagreements: the images that two arms were not analysed alike on.
GridDisagreements ==
  LET grid == [i \in DOMAIN rows |-> rows[i]["spuriousGrid"]] IN
  IF Finite(grid[1]) = <<>> THEN {}
  ELSE {n \in 1 .. ImageCount :
          Cardinality({grid[i][n] : i \in {j \in DOMAIN rows : grid[j][n] # Null}}) > 1}

\* What is printed under a table whose config names a grid.
Comparable == config.edge # Null /\ GridDisagreements = {}

-----------------------------------------------------------------------------
(* The result and its readers *)

WriteResult ==
  /\ phase = "write" /\ phase' = "read"
  /\ file' = PerImages
  /\ UNCHANGED <<config, rows, table, view>>

\* shapeProblems: a row without the main metric is not a result.
Malformed == \E i \in DOMAIN file : "ciede2000" \notin DOMAIN file[i]

\* loadSweep, recomputeGuards and measure, for every arm but the incumbent: the
\* interval is that of the paired comparison, arm - incumbent.
Derived ==
  LET arms == CompareArms(file, 1) IN
  [i \in 1 .. Len(file) - 1 |->
     LET gains == Gains(file[i + 1], file[1]) IN
     [means |-> MeansOf(file[i + 1]),
      ci    |-> IF "ciede2000" \in DOMAIN arms[i] THEN arms[i]["ciede2000"].ci ELSE Null,
      wins  |-> <<Wins(gains), Len(gains)>>,
      onCi  |-> GuardVerdict(arms[i], config.rise),
      ok    |-> GuardsHold(MeansOf(file[i + 1]), MeansOf(file[1]), config.rise)]]

Read ==
  /\ phase = "read"
  /\ phase' = IF Malformed THEN "malformed" ELSE "done"
  /\ view' = IF Malformed THEN <<>> ELSE Derived
  /\ UNCHANGED <<config, rows, table, file>>

Finished == phase \in {"refused", "malformed", "done"} /\ UNCHANGED analysisVars

AnalysisNext == CheckConfig \/ ScoreVariant \/ Judge \/ WriteResult \/ Read \/ Finished
AnalysisSpec == AnalysisInit /\ [][AnalysisNext]_analysisVars

-----------------------------------------------------------------------------
(* arms --seed-sensitivity *)

\* The arms that have pairs, each with the row that it is.
ArmsWithPairs(found) ==
  LET have == HavePairs(found, 1, "ciede2000") IN
  [k \in 1 .. Len(have) |->
     [row |-> have[k], deltas |-> Paired(found[have[k]], found[1], "ciede2000").deltas]]

\* Mutant: an arm is known by its place among those that have pairs.
FlippedByPlace(found) ==
  LET series == ArmsWithPairs(found)
      Turns(k, seed) == ExcludesZero(BootstrapCI(series[k].deltas, seed))
                          # ExcludesZero(BootstrapCI(series[k].deltas, BootstrapSeed)) IN
  {k + 1 : k \in {j \in DOMAIN series : \E seed \in Seeds \ {BootstrapSeed} : Turns(j, seed)}}

\* The arms whose interval says otherwise under another seed.
IntervalFlips(found) ==
  LET series == ArmsWithPairs(found)
      Turns(k, seed) == ExcludesZero(BootstrapCI(series[k].deltas, seed))
                          # ExcludesZero(BootstrapCI(series[k].deltas, BootstrapSeed)) IN
  {series[k].row : k \in {j \in DOMAIN series : \E seed \in Seeds \ {BootstrapSeed} : Turns(j, seed)}}

-----------------------------------------------------------------------------
(* Properties *)

Mirrored(ci) == IF ci = Null THEN Null ELSE <<0 - ci[2], 0 - ci[1]>>

\* A table that a sweep printed is what its committed result gives again: the
\* means, the wins and both verdicts, and an interval for incumbent - arm that
\* is the mirror of the one that the readers take of arm - incumbent. The scores
\* are known to the sweep as they were measured and to the readers by the series
\* that were committed, and every bootstrap draws its own resamples. What the
\* summary counts over all results is what the tables said, and the adjusted
\* p-values find no more differences than the plain ones. And only an arm's own
\* scores and the incumbent's decide whether another seed turns its interval: what
\* --seed-sensitivity names is what it would name if the arm stood alone, where
\* arms without pairs are passed over (sweep.ts, results.ts, arms-core.ts, arms.ts).
ReadersAgree ==
  phase = "done" =>
    /\ Len(view) = Len(table)
    /\ \A i \in DOMAIN table :
         /\ table[i].ci = Mirrored(view[i].ci)
         /\ \A field \in {"means", "wins", "onCi", "ok"} : table[i][field] = view[i][field]
    /\ LET summary == SummarizeInference(file, config.rise)
           Count(Of(_)) == Cardinality({i \in DOMAIN table : Of(table[i])}) IN
       /\ summary.guardsOk = Count(LAMBDA row : row.onCi = "ok")
       /\ summary.meansOkCiNot = Count(LAMBDA row : row.ok /\ row.onCi # "ok")
       /\ summary.meansFailCiNot = Count(LAMBDA row : ~row.ok /\ row.onCi # "FAIL")
       /\ summary.differsHolm <= summary.differs
    /\ IntervalFlips(file) = {i \in 2 .. Len(file) : IntervalFlips(<<file[1], file[i]>>) # {}}

\* As bad as another arm or worse, image by image, with the same images scored.
Dominated(worse, better, key, sign) ==
  \A n \in 1 .. ImageCount :
    /\ (rows[worse][key][n] = Null) = (rows[better][key][n] = Null)
    /\ rows[worse][key][n] # Null => sign * rows[worse][key][n] >= sign * rows[better][key][n]

Rank(verdict) == CASE verdict = "FAIL" -> 0 [] verdict = "inconclusive" -> 1 [] verdict = "ok" -> 2

\* An arm that is nowhere better than another, on any image and any metric of a
\* guard, has no better verdict on the intervals: the arms of a sweep are all
\* judged on the same resamples of the images (stats.ts, the seed).
NeverBetterDominated ==
  phase \in {"write", "read", "done"} =>
    \A a, b \in 2 .. Len(rows) :
      (/\ Dominated(a, b, "ssimulacra2", -1)
       /\ \A key \in {"butteraugli", "dssim", "ringing", "spurious"} : Dominated(a, b, key, 1))
      => Rank(table[a - 1].onCi) <= Rank(table[b - 1].onCi)

\* Where a table says that its spectral columns are comparable, two scores that are
\* paired were taken on grids of one longest edge, which is all that a sweep records
\* of an analysis, image by image (sweep.ts, gridDisagreements, and what is printed
\* under the table).
OneGrid ==
  (phase \in {"write", "read", "done"} /\ Comparable) =>
    \A i \in DOMAIN rows, n \in 1 .. ImageCount :
      (rows[1]["spurious"][n] # Null /\ rows[i]["spurious"][n] # Null)
        => rows[1]["spuriousGrid"][n] = rows[i]["spuriousGrid"][n]
=============================================================================
