----------------------------- MODULE Statistics -----------------------------
(***************************************************************************)
(* tools/comparison/src/stats.ts: quantiles, the seeded bootstrap, and     *)
(* Holm's adjustment. Numbers are kept exact: a bootstrapped mean is its   *)
(* sum, an interval is Cut times the sums' quantiles, and a p-value is    *)
(* counted in parts of resamples + 1.                                      *)
(***************************************************************************)
EXTENDS Integers, Sequences, FiniteSets, SequencesExt

CONSTANTS
  Seeds,      \* the generator's seeds, BootstrapSeed among them
  BootstrapSeed,
  Draws,      \* Draws[seed][n]: the resamples drawn of a sample of n values
  Resamples,  \* how many of them an interval takes
  PResamples, \* and a p-value
  Cut,        \* 2 / alpha: an interval leaves out one Cut-th at either end
  Null        \* what was not measured

ASSUME DrawsAssumption ==
  /\ BootstrapSeed \in Seeds /\ Resamples \in Nat \ {0} /\ PResamples \in Nat \ {0}
  /\ Cut \in Nat \ {0, 1}
  /\ \A seed \in Seeds : \A n \in DOMAIN Draws[seed] :
       /\ Draws[seed][n] \in Seq([1 .. n -> 1 .. n])
       /\ Len(Draws[seed][n]) >= Resamples /\ Len(Draws[seed][n]) >= PResamples

\* The numbers of a finite set, the least of them first.
InOrder(S) ==
  [k \in 1 .. Cardinality(S) |-> CHOOSE i \in S : Cardinality({j \in S : j < i}) = k - 1]

\* A sequence itself, every element of it computed once.
Listed(values) == values \o <<>>

Finite(values) ==
  LET found == InOrder({i \in DOMAIN values : values[i] # Null}) IN
  [k \in DOMAIN found |-> values[found[k]]]

Sum(values) ==
  LET all == Listed(values)
      total[k \in 0 .. Len(all)] == IF k = 0 THEN 0 ELSE all[k] + total[k - 1] IN
  total[Len(all)]

\* The k-th least value: fewer than k values are less than it, and k are not more.
IsKth(values, k, v) ==
  /\ Cardinality({i \in DOMAIN values : values[i] < v}) < k
  /\ k <= Cardinality({i \in DOMAIN values : values[i] <= v})
Ascending(values) ==
  Listed([k \in DOMAIN values |-> CHOOSE v \in Range(values) : IsKth(values, k, v)])

Least(a, b) == IF a < b THEN a ELSE b
Greatest(a, b) == IF a > b THEN a ELSE b

\* den times the quantile of a sorted sequence at num / den, interpolated.
Quantile(sorted, num, den) ==
  LET pos == num * (Len(sorted) - 1)
      lo == 1 + pos \div den
      rest == pos % den IN
  den * sorted[lo] + (IF rest = 0 THEN 0 ELSE rest * (sorted[lo + 1] - sorted[lo]))

\* Mutant: the sample moves the generator on.
ResampledOwnDraws(values, n, seed) ==
  LET at == Draws[seed][Len(values)]
      shift == Greatest(0, Sum(values)) % Len(at) IN
  [r \in 1 .. n |-> Sum([i \in 1 .. Len(values) |-> values[at[((r + shift) % Len(at)) + 1][i]]])]

\* Every call starts the generator again: samples as long as each other share draws.
ResampledStatistics(values, n, seed) ==
  Listed([r \in 1 .. n |->
            Sum([i \in 1 .. Len(values) |-> values[Draws[seed][Len(values)][r][i]]])])

\* bootstrapCI, times Cut and the length of the sample.
IntervalOf(sums) ==
  LET sorted == Ascending(sums) IN <<Quantile(sorted, 1, Cut), Quantile(sorted, Cut - 1, Cut)>>

BootstrapCI(values, seed) == IntervalOf(ResampledStatistics(values, Resamples, seed))
ExcludesZero(ci) == ci[1] > 0 \/ ci[2] < 0

\* Mutant: a resampled mean of zero is on neither side.
StrictP(values, n, seed) ==
  LET sums == ResampledStatistics(values, n, seed)
      le == Cardinality({r \in 1 .. n : sums[r] < 0})
      ge == Cardinality({r \in 1 .. n : sums[r] > 0}) IN
  Least(n + 1, 2 * (Least(le, ge) + 1))

\* bootstrapP, in parts of n + 1: it is never less than two of them.
BootstrapP(values, n, seed) ==
  LET sums == ResampledStatistics(values, n, seed)
      le == Cardinality({r \in 1 .. n : sums[r] <= 0})
      ge == Cardinality({r \in 1 .. n : sums[r] >= 0}) IN
  Least(n + 1, 2 * (Least(le, ge) + 1))

\* The place of a test among the m that were made: by its p-value, and of ties by its place.
Tested(ps) == {i \in DOMAIN ps : ps[i] # Null}
RankOf(ps, i) == Cardinality({j \in Tested(ps) : ps[j] < ps[i] \/ (ps[j] = ps[i] /\ j <= i)})

\* What a test is multiplied by: the k-th least of m, by m - k + 1.
Stepped(ps, one, i) == Least(one, (Cardinality(Tested(ps)) - RankOf(ps, i) + 1) * ps[i])

\* Mutant: a larger p-value may get a smaller adjusted one.
HolmUnmonotone(ps, one) ==
  [i \in DOMAIN ps |-> IF ps[i] = Null THEN Null ELSE Stepped(ps, one, i)]

\* Holm's adjustment: no adjusted value is less than one before it. What is not a
\* number is no test.
Holm(ps, one) ==
  [i \in DOMAIN ps |->
     IF ps[i] = Null THEN Null
     ELSE Max({Stepped(ps, one, j) : j \in {k \in Tested(ps) : RankOf(ps, k) <= RankOf(ps, i)}})]

-----------------------------------------------------------------------------
(* What the numbers promise *)

\* Holm's adjustment is the step-down test it stands for. A test is rejected at a
\* level exactly when no p-value up to its own, times the tests whose p-value is
\* no less, is above the level: ties fall together, what is no number is no test,
\* and the family is the tests that were made (stats.ts, holm).
StepsDown(ps, one) ==
  LET adjusted == Holm(ps, one)
      Bounded(v, level) == Cardinality({k \in Tested(ps) : ps[k] >= v}) * v <= level IN
  \A i \in DOMAIN ps :
    IF ps[i] = Null THEN adjusted[i] = Null
    ELSE \A level \in 0 .. one - 1 :
           adjusted[i] <= level <=>
             (\A j \in Tested(ps) : ps[j] <= ps[i] => Bounded(ps[j], level))

\* The p-value and the interval are one test, at the same resamples: where the
\* p-value is no more than alpha the interval leaves zero out, and where the
\* interval does the p-value is at most one resample more (stats.ts, bootstrapP).
OneTest(values, seed) ==
  LET p == BootstrapP(values, Resamples, seed)
      excludes == ExcludesZero(BootstrapCI(values, seed)) IN
  /\ p * Cut <= 2 * (Resamples + 1) => excludes
  /\ excludes => p <= 2 * ((Resamples - 1) \div Cut + 2)
=============================================================================
