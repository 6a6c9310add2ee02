-------------------------------- MODULE Arms --------------------------------
(***************************************************************************)
(* tools/comparison/src: how the arms of a sweep are compared and, at the  *)
(* end, what they may be called (verify-sweep-labels.ts). The paired       *)
(* inference of every metric against one reference arm, with the verdict   *)
(* on the guards that the intervals give (arms-core.ts), and the verdict   *)
(* that the means give (results.ts).                                       *)
(*                                                                         *)
(* A row is an arm's series by metric; a metric that was not measured has  *)
(* none. Scores are integers, and a mean is a sum and a length.            *)
(***************************************************************************)
EXTENDS Statistics

CONSTANTS
  Drop,       \* how much SSIMULACRA2 may fall
  Rise,       \* how far Butteraugli and DSSIM may rise, in parts of RiseParts
  RiseParts,
  Allowance   \* what an artifact may rise to where the incumbent has none

ASSUME TolerancesAssumption ==
  /\ Drop \in Nat /\ Rise \in Nat /\ RiseParts \in Nat \ {0} /\ Allowance \in Nat

PairedMetrics == {"ciede2000", "ssimulacra2", "butteraugli", "dssim", "alphaMae",
                  "ringing", "spurious", "deficit"}

\* The differences arm - base over the images that both scored, and the base's scores.
PairedDeltas(arm, base) ==
  LET both == InOrder({i \in DOMAIN base : base[i] # Null /\ i <= Len(arm) /\ arm[i] # Null}) IN
  [deltas     |-> [k \in DOMAIN both |-> arm[both[k]] - base[both[k]]],
   baseValues |-> [k \in DOMAIN both |-> base[both[k]]]]

\* An arm and the reference have a metric to compare.
Paired(row, base, key) ==
  IF key \in DOMAIN row /\ key \in DOMAIN base THEN PairedDeltas(row[key], base[key])
  ELSE [deltas |-> <<>>, baseValues |-> <<>>]

\* The other arms, in order, and those of them that have pairs on a metric.
OtherRows(rows, base) == InOrder(DOMAIN rows \ {base})
HavePairs(rows, base, key) ==
  InOrder({i \in DOMAIN rows \ {base} : Paired(rows[i], rows[base], key).deltas # <<>>})

One == PResamples + 1

\* The p-values of one metric, for the arms that have pairs on it, adjusted.
HolmFamily(rows, base, key) ==
  LET found == HavePairs(rows, base, key) IN
  Holm(Listed([k \in 1 .. Len(found) |->
                 BootstrapP(Paired(rows[found[k]], rows[base], key).deltas, PResamples, BootstrapSeed)]),
       One)

Adjusted(rows, base, key, i) ==
  LET found == HavePairs(rows, base, key) IN
  HolmFamily(rows, base, key)[CHOOSE k \in 1 .. Len(found) : found[k] = i]

\* compareArms: every metric is a family of its own.
CompareArms(rows, base) ==
  LET others == OtherRows(rows, base) IN
  [j \in 1 .. Len(others) |->
     [key \in {m \in PairedMetrics : Paired(rows[others[j]], rows[base], m).deltas # <<>>} |->
        LET pair == Paired(rows[others[j]], rows[base], key) IN
        [pairs    |-> Len(pair.deltas),
         baseSum  |-> Sum(pair.baseValues),
         deltaSum |-> Sum(pair.deltas),
         ci       |-> BootstrapCI(pair.deltas, BootstrapSeed),
         p        |-> BootstrapP(pair.deltas, PResamples, BootstrapSeed),
         pHolm    |-> Adjusted(rows, base, key, others[j])]]]

-----------------------------------------------------------------------------
(* The guards *)

\* Where an interval lies in respect of a margin that must not be passed.
Verdict(within, beyond) == IF within THEN "ok" ELSE IF beyond THEN "FAIL" ELSE "inconclusive"

DropVerdict(stat) ==
  LET floor == 0 - Drop * Cut * stat.pairs IN
  Verdict(stat.ci[1] >= floor, stat.ci[2] < floor)

\* rising: relative to the incumbent, and absolute where the incumbent has nothing.
RiseVerdict(stat, rise) ==
  LET margin == IF stat.baseSum = 0 THEN Allowance * stat.pairs * Cut * RiseParts
                ELSE rise * stat.baseSum * Cut IN
  Verdict(stat.ci[2] * RiseParts <= margin, stat.ci[1] * RiseParts > margin)

\* guardVerdictOnIntervals: what was not scored on both sides is no verdict.
GuardVerdict(stats, artifactRise) ==
  LET verdicts ==
        {DropVerdict(stats[key]) : key \in {"ssimulacra2"} \cap DOMAIN stats}
          \cup {RiseVerdict(stats[key], Rise) : key \in {"butteraugli", "dssim"} \cap DOMAIN stats}
          \cup (IF artifactRise = Null THEN {}
                ELSE {RiseVerdict(stats[key], artifactRise) :
                        key \in {"ringing", "spurious"} \cap DOMAIN stats}) IN
  IF "FAIL" \in verdicts THEN "FAIL"
  ELSE IF "inconclusive" \in verdicts THEN "inconclusive" ELSE "ok"

NoMean == [sum |-> 0, len |-> 0]
Mean(values) == [sum |-> Sum(Finite(values)), len |-> Len(Finite(values))]

\* summarize: the means of a row, each over the images that the row itself scored.
MeansOf(row) ==
  [key \in PairedMetrics |-> IF key \in DOMAIN row THEN Mean(row[key]) ELSE NoMean]

FellNoMoreThan(value, base) ==
  \/ value.len = 0 \/ base.len = 0
  \/ value.sum * base.len >= base.sum * value.len - Drop * value.len * base.len

WithinRise(value, base, rise) ==
  value.sum * base.len * RiseParts <= base.sum * value.len * (RiseParts + rise)

RoseNoMoreThan(value, base, rise) ==
  \/ value.len = 0 \/ base.len = 0
  \/ IF base.sum = 0 THEN value.sum <= Allowance * value.len ELSE WithinRise(value, base, rise)

\* guardsHold, on means.
GuardsHold(row, base, artifactRise) ==
  /\ FellNoMoreThan(row["ssimulacra2"], base["ssimulacra2"])
  /\ \A key \in {"butteraugli", "dssim"} :
       row[key].len = 0 \/ base[key].len = 0 \/ WithinRise(row[key], base[key], Rise)
  /\ artifactRise # Null =>
       \A key \in {"ringing", "spurious"} : RoseNoMoreThan(row[key], base[key], artifactRise)

-----------------------------------------------------------------------------
(* What is said of a whole result *)

Below05(p) == p * Cut < 2 * One

Tally(S) == Cardinality(S)

\* summarizeInference: the arms against the first row, whose rows are the result's.
SummarizeInference(rows, artifactRise) ==
  LET arms == CompareArms(rows, 1)
      all == DOMAIN arms
      OnMeans(i) == GuardsHold(MeansOf(rows[i + 1]), MeansOf(rows[1]), artifactRise)
      OnIntervals(i) == GuardVerdict(arms[i], artifactRise)
      Differ(i, field) == "ciede2000" \in DOMAIN arms[i] /\ Below05(arms[i]["ciede2000"][field]) IN
  [arms           |-> Tally(all),
   differs        |-> Tally({i \in all : Differ(i, "p")}),
   differsHolm    |-> Tally({i \in all : Differ(i, "pHolm")}),
   guardsOk       |-> Tally({i \in all : OnIntervals(i) = "ok"}),
   inconclusive   |-> Tally({i \in all : OnIntervals(i) = "inconclusive"}),
   guardsFail     |-> Tally({i \in all : OnIntervals(i) = "FAIL"}),
   meansOkCiNot   |-> Tally({i \in all : OnMeans(i) /\ OnIntervals(i) # "ok"}),
   meansFailCiNot |-> Tally({i \in all : ~OnMeans(i) /\ OnIntervals(i) # "FAIL"})]

-----------------------------------------------------------------------------
(* What an arm is called. verify-sweep-labels.ts: an arm runs the encoder  *)
(* with the knobs that its tune string writes over the defaults, and its   *)
(* label says which. The check reads only the config, so that no default   *)
(* has a part in it; the defaults move when a version ships.               *)
(*                                                                         *)
(* A label is the set of the tokens in it that name a knob. A tune string  *)
(* is the sequence of its pairs. A value is a tuple: of a count and a      *)
(* width for a part of the layout, and of one number for any other knob.   *)

NoOptOut == 0 - 1   \* a config without unpinnedLabels
LayoutKeys == {"l1", "la1", "c", "ca", "a"}

-----------------------------------------------------------------------------
(* What a label names *)

\* TUNE_KEY_ALIASES, and the shape that hv has of its own.
KeyNamed(name) ==
  CASE name = "gain_l" -> "band_gain_l" [] name = "gain_c" -> "band_gain_c"
    [] name = "split"  -> "band_split"  [] name = "hv"     -> "sel_hv"
    [] name = "wc"     -> "refine_wc"   [] name = "wl"     -> "refine_wl"
    [] OTHER           -> name

Naming(keys, value, half, split) == [keys |-> keys, value |-> value, half |-> half, split |-> split]

\* The layout has two modes and one spelling: either key will do. A token of
\* another shape names nothing that the check can read.
NamedBy(token) ==
  CASE token.form = "L@"     -> {Naming(<<"l1", "la1">>, token.value, FALSE, FALSE)}
    [] token.form = "C@"     -> {Naming(<<"c", "ca">>, token.value, FALSE, FALSE)}
    [] token.form = "A@"     -> {Naming(<<"a">>, token.value, FALSE, TRUE)}
    [] token.form = "LC"     -> {Naming(<<"l1", "la1">>, <<token.value[1]>>, TRUE, FALSE),
                                 Naming(<<"c", "ca">>, <<token.value[2]>>, TRUE, FALSE)}
    [] token.form = "key"    -> {Naming(<<KeyNamed(token.key)>>, token.value, FALSE, FALSE)}
    [] token.form = "unread" -> {}

NamedConstants(label) == UNION {NamedBy(token) : token \in label}

-----------------------------------------------------------------------------
(* The check *)

\* The value that the last pair of a key writes.
TuneKeys(tune) ==
  LET LastOf(k) ==
        CHOOSE i \in DOMAIN tune : tune[i].key = k /\ \A j \in i + 1 .. Len(tune) : tune[j].key # k IN
  [k \in {tune[i].key : i \in DOMAIN tune} |-> tune[LastOf(k)].value]

SplitHolds(named, keys) ==
  /\ "alpha_ac_count" \in DOMAIN keys /\ keys["alpha_ac_count"] = <<named.value[1]>>
  /\ "alpha_ac_bits" \in DOMAIN keys /\ keys["alpha_ac_bits"] = <<named.value[2]>>

\* The first of its keys that is set; counts alone say nothing of the widths.
PairHolds(named, keys) ==
  \E i \in DOMAIN named.keys :
    /\ named.keys[i] \in DOMAIN keys /\ \A j \in 1 .. i - 1 : named.keys[j] \notin DOMAIN keys
    /\ LET got == keys[named.keys[i]] IN
       IF named.half THEN got[1] = named.value[1] ELSE got = named.value

Holds(named, keys) ==
  IF named.split /\ "a" \notin DOMAIN keys THEN SplitHolds(named, keys) ELSE PairHolds(named, keys)

Problems(arm) ==
  {named \in NamedConstants(arm.label) : ~Holds(named, TuneKeys(arm.tune))}

\* The arms of a config that do not set what they name.
Hits(config) == {i \in DOMAIN config.arms : Problems(config.arms[i]) # {}}

\* Mutant: an exemption has only to excuse something.
ExcusesSome(config) == config.optOut # NoOptOut => Hits(config) # {}

\* An exemption excuses the number of arms that it was written for, and no others.
OptOutEarned(config) ==
  config.optOut # NoOptOut => config.optOut # 0 /\ Cardinality(Hits(config)) = config.optOut

LabelsGreen(configs) ==
  \A config \in configs :
    /\ config.optOut = NoOptOut => Hits(config) = {}
    /\ OptOutEarned(config)

-----------------------------------------------------------------------------
(* The encoder: examples/encode_stdin.rs *)

\* The places that a key writes, in the order of the parts of its value. A key of
\* the layout writes every row; no config writes one row of its own.
Written(key) ==
  CASE key \in LayoutKeys      -> <<<<key, "count">>, <<key, "bits">>>>
    [] key = "alpha_ac_count" -> <<<<"a", "count">>>>
    [] key = "alpha_ac_bits"  -> <<<<"a", "bits">>>>
    [] OTHER                  -> <<<<key, "value">>>>

\* tunables_from_env: the pairs one after another, over the defaults.
WithPair(tunables, pair) ==
  LET Parts(at) == {i \in DOMAIN Written(pair.key) : Written(pair.key)[i] = at} IN
  [at \in DOMAIN tunables |->
     IF Parts(at) = {} THEN tunables[at] ELSE pair.value[CHOOSE i \in Parts(at) : TRUE]]
TunablesFromEnv(default, tune) ==
  LET after[n \in 0 .. Len(tune)] == IF n = 0 THEN default ELSE WithPair(after[n - 1], tune[n]) IN
  after[Len(tune)]

\* What the encoder runs with where a label names the key.
RunsWith(tunables, key, half) ==
  IF half THEN <<tunables[<<key, "count">>]>>
  ELSE [i \in DOMAIN Written(key) |-> tunables[Written(key)[i]]]

\* A pair writes over what another key wrote before it.
Overwritten(tune) ==
  \E i, j \in DOMAIN tune :
    /\ i < j /\ tune[i].key # tune[j].key
    /\ Range(Written(tune[i].key)) \cap Range(Written(tune[j].key)) # {}

\* An arm that says what it does not run: no key that its label may mean has the
\* value it names, whatever ships as the default.
Lies(arm, defaults) ==
  \E named \in NamedConstants(arm.label) :
    \A key \in Range(named.keys) :
      \E default \in defaults :
        RunsWith(TunablesFromEnv(default, arm.tune), key, named.half) # named.value

\* Where the check of the labels is green, every arm of a config that is not exempt
\* runs the encoder with what its label names, whatever default moves under it
\* later; and an exempt config holds no more that does not than it has declared
\* (verify-sweep-labels.ts, whose last lines say so).
NoMoreLies(declared, defaults) ==
  LabelsGreen({declared}) =>
    Cardinality({i \in DOMAIN declared.arms : Lies(declared.arms[i], defaults)})
      <= (IF declared.optOut = NoOptOut THEN 0 ELSE declared.optOut)
=============================================================================
