------------------------------ MODULE Readings ------------------------------
(***************************************************************************)
(* tools/comparison/src/paired.ts and stratify.ts: what is read off the    *)
(* scores image by image. Two columns of a report are compared in pairs,   *)
(* and an arm of a sweep is read against what is known of its photographs. *)
(* A mean is <<sum, count>>.                                               *)
(***************************************************************************)
EXTENDS Statistics

-----------------------------------------------------------------------------
(* paired.ts: an entry maps the columns that it has to their scores *)

\* PAIRED_METRICS: a delta is turned so that less is better.
Direction(key) == IF key = "ssimulacra2" THEN 0 - 1 ELSE 1

MetricValue(entry, column, key) == IF column \in DOMAIN entry THEN entry[column][key] ELSE Null

\* The images that have the number in both columns.
PairsOf(entries, baseline, candidate, key) ==
  SelectSeq(entries, LAMBDA entry : /\ MetricValue(entry, baseline, key) # Null
                                    /\ MetricValue(entry, candidate, key) # Null)

\* Mutant: the baseline's mean is that of all images it was scored on.
UnpairedSum(entries, baseline, candidate, key) ==
  Sum(Finite([i \in DOMAIN entries |-> MetricValue(entries[i], baseline, key)]))

BaseSum(entries, baseline, candidate, key) ==
  LET pairs == PairsOf(entries, baseline, candidate, key) IN
  Sum([i \in DOMAIN pairs |-> pairs[i][baseline][key]])

CandidateSum(entries, baseline, candidate, key) ==
  LET pairs == PairsOf(entries, baseline, candidate, key) IN
  Sum([i \in DOMAIN pairs |-> pairs[i][candidate][key]])

DeltasOf(pairs, baseline, candidate, key) ==
  [i \in DOMAIN pairs |-> Direction(key) * (pairs[i][candidate][key] - pairs[i][baseline][key])]

\* signTestP falls with z, here <<z's numerator, squared denominator>>: the excess
\* of the more frequent side, less one, over the square root of the images.
SignP(wins, losses) ==
  <<Greatest(0, 2 * Greatest(wins, losses) - (wins + losses) - 1), Greatest(1, wins + losses)>>

Compared(entries, baseline, candidate, key, deltas) ==
  LET wins == Cardinality({i \in DOMAIN deltas : deltas[i] < 0})
      losses == Cardinality({i \in DOMAIN deltas : deltas[i] > 0}) IN
  [baseline |-> BaseSum(entries, baseline, candidate, key),
   candidate |-> CandidateSum(entries, baseline, candidate, key),
   delta |-> Sum(deltas), ci |-> BootstrapCI(deltas, BootstrapSeed),
   wins |-> wins, ties |-> Len(deltas) - wins - losses, losses |-> losses,
   signP |-> SignP(wins, losses), pairs |-> Len(deltas)]

\* The metrics that have a pair.
MetricsOf(entries, baseline, candidate, keys) ==
  [key \in {k \in keys : PairsOf(entries, baseline, candidate, k) # <<>>} |->
     Compared(entries, baseline, candidate, key,
              DeltasOf(PairsOf(entries, baseline, candidate, key), baseline, candidate, key))]

\* computePairedComparisons: a candidate without a pair is left out, as is the
\* baseline itself.
ComputePairedComparisons(entries, baseline, candidates, keys) ==
  SelectSeq([n \in DOMAIN candidates |->
               [baseline |-> baseline, candidate |-> candidates[n],
                metrics |-> MetricsOf(entries, baseline, candidates[n], keys)]],
            LAMBDA c : c.candidate # baseline /\ DOMAIN c.metrics # {})

-----------------------------------------------------------------------------
(* stratify.ts *)

\* equalCountBins: by rank, ranks counted from zero.
EqualCountBins(sorted, k) ==
  LET BinOf(rank) == Least(k - 1, (rank * k) \div Len(sorted)) IN
  [b \in 1 .. k |->
     LET ranks == SelectSeq([r \in DOMAIN sorted |-> r], LAMBDA r : BinOf(r - 1) = b - 1) IN
     [i \in DOMAIN ranks |-> sorted[ranks[i]]]]

\* alignmentError: a row's names are those of the first, place by place.
Misaligned(rows) == rows = <<>> \/ \E i \in DOMAIN rows : rows[i].names # rows[1].names

\* The images whose covariates are known, by place, and those places ascending.
Named(names, known) == SelectSeq([i \in DOMAIN names |-> i], LAMBDA i : names[i] \in DOMAIN known)
ByCovariate(names, known) ==
  SortSeq(Named(names, known),
          LAMBDA i, j : known[names[i]] < known[names[j]] \/ (known[names[i]] = known[names[j]] /\ i < j))

\* Mutant: every arm has bins of its own, of the images it was measured on.
OwnBins(row, names, known, k) ==
  EqualCountBins(SelectSeq(ByCovariate(names, known), LAMBDA i : row.series[i] # Null), k)

\* The bins of the first row's images, the same for every arm.
BinsOf(row, names, known, k) == EqualCountBins(ByCovariate(names, known), k)

\* A cell of the table: the mean of what was measured.
Cell(row, bin) ==
  LET found == Finite([i \in DOMAIN bin |-> row.series[bin[i]]]) IN <<Sum(found), Len(found)>>

\* pearson: the products about the means, times the count; nothing of fewer than
\* three pairs, or where a side does not vary.
NoR == <<>>
Products(xs, ys) ==
  LET n == Len(xs)
      Dot(us, vs) == Sum([i \in DOMAIN us |-> us[i] * vs[i]]) IN
  <<n * Dot(xs, ys) - Sum(xs) * Sum(ys), n * Dot(xs, xs) - Sum(xs) * Sum(xs),
    n * Dot(ys, ys) - Sum(ys) * Sum(ys)>>
Defined(products) == IF products[2] = 0 \/ products[3] = 0 THEN NoR ELSE products
Pearson(xs, ys) == IF Len(xs) < 3 THEN NoR ELSE Defined(Products(xs, ys))

RowRead(row, names, known, k) ==
  LET bins == BinsOf(row, names, known, k)
      measured == SelectSeq(Named(names, known), LAMBDA i : row.series[i] # Null) IN
  [cells |-> [b \in DOMAIN bins |-> Cell(row, bins[b])], n |-> Len(measured),
   r |-> Pearson([i \in DOMAIN measured |-> known[names[measured[i]]]],
                 [i \in DOMAIN measured |-> row.series[measured[i]]])]

\* The heading of a bin: its least and its greatest covariate.
Headings(names, known, k) ==
  LET bins == EqualCountBins(ByCovariate(names, known), k) IN
  [b \in DOMAIN bins |-> <<known[names[Head(bins[b])]], known[names[Last(bins[b])]]>>]

\* The run: a row has [names, series], and no series where the sweep did not score
\* the metric. An exit that is no table is a refusal.
Refusal == [headings |-> <<>>, lines |-> <<>>]
Stratify(rows, known, k) ==
  IF \/ k < 2 \/ Misaligned(rows)
     \/ \E i \in DOMAIN rows : rows[i].series = <<>>
     \/ Len(Named(rows[1].names, known)) < Greatest(1, k)
    THEN Refusal
    ELSE [headings |-> Headings(rows[1].names, known, k),
          lines |-> [i \in DOMAIN rows |-> RowRead(rows[i], rows[1].names, known, k)]]
=============================================================================
