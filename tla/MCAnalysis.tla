----------------------------- MODULE MCAnalysis -----------------------------
(* A sweep of three arms over three images; and, beside it, what the pure     *)
(* parts compute of every small input. A state has one or the other.        *)
EXTENDS Analysis, LocalMetrics

VARIABLE probe   \* the input of a pure part; NoProbe is a sweep

CONSTANT NoProbe

-----------------------------------------------------------------------------
(* The sweep *)

MCSeeds == {42, 43}

Index(n, s) == [i \in 1 .. n |-> 1 + ((s \div (IF i = 1 THEN 1 ELSE IF i = 2 THEN n ELSE n * n)) % n)]
MCDraws ==
  [seed \in MCSeeds |-> [n \in 1 .. 3 |->
     [r \in 1 .. 9 |-> Index(n, ((IF seed = 42 THEN 11 ELSE 10) * r * r + 4) % 31)]]]

MCConfigs ==
  {[artifacts |-> artifacts, rise |-> rise, edge |-> edge, bytes |-> bytes] :
     artifacts \in BOOLEAN, rise \in {Null, 1}, edge \in {Null, 1, 4}, bytes \in {Null, 20}}

\* An arm by what each image scored; the guards' metrics move together.
Row(ciede, ssim, dssim, ringing, spurious, grid, bytes) ==
  [key \in Series |->
     CASE key = "ciede2000" -> ciede [] key = "ssimulacra2" -> ssim
       [] key \in {"butteraugli", "dssim"} -> dssim
       [] key = "ringing" -> ringing [] key \in {"spurious", "deficit"} -> spurious
       [] key = "alphaMae" -> <<Null, Null, Null>>
       [] key = "spuriousGrid" -> grid [] key = "bytes" -> bytes]

Full == <<4, 4, 4>>
Sized == <<20, 20, 20>>

MCScored ==
  {Row(<<6, 8, Null>>, <<50, 60, 40>>, <<4, 4, 4>>, <<0, 0, 0>>, <<2, 1, 1>>, Full, Sized),
   Row(<<5, 10, 7>>, <<48, 62, 41>>, <<4, 4, 4>>, <<0, 0, 0>>, <<2, 1, 1>>, Full, Sized),
   Row(<<7, 4, 5>>, <<47, 62, 41>>, <<4, 4, 4>>, <<0, 0, 0>>, <<2, 1, 1>>, <<4, 2, 4>>, <<20, 21, 20>>),
   Row(<<Null, Null, 8>>, <<Null, Null, 38>>, <<Null, Null, 6>>, <<0, 2, 1>>, <<1, Null, 1>>,
       <<2, Null, 2>>, <<19, 20, 20>>),
   Row(<<6, 9, 6>>, <<47, 61, 39>>, <<4, 3, 6>>, <<3, 0, 0>>, <<Null, Null, Null>>,
       <<Null, Null, Null>>, <<22, 22, 22>>),
   Row(<<Null, Null, Null>>, <<51, 61, 41>>, <<4, 4, 4>>, <<0, 0, 0>>, <<2, 2, 2>>, <<2, 2, 2>>, Sized)}

-----------------------------------------------------------------------------
(* The pure parts *)

MCBasis ==
  [n \in 1 .. 4 |->
     CASE n = 1 -> <<<<100>>>>
       [] n = 2 -> <<<<71, 71>>, <<71, -71>>>>
       [] n = 3 -> <<<<58, 58, 58>>, <<71, 0, -71>>, <<41, -82, 41>>>>
       [] n = 4 -> <<<<50, 50, 50, 50>>, <<65, 27, -27, -65>>,
                     <<50, -50, -50, 50>>, <<27, -65, 65, -27>>>>]

Planes(w, h, levels) == [1 .. h -> [1 .. w -> levels]]

Families == [kind : {"family"}, ps : [1 .. 4 -> {Null} \cup (1 .. 6)]]
Samples == [kind : {"sample"}, deltas : [1 .. 3 -> -2 .. 2]]
Rings ==
  UNION {[kind : {"ringing"}, ref : Planes(d[1], d[2], {0, 9}), w : 1 .. d[1], h : 1 .. d[2]] :
           d \in {<<3, 2>>, <<5, 1>>, <<2, 3>>}}
Spectra ==
  UNION {[kind : {"spectrum"}, ref : Planes(d[1], d[2], {0, 7, 20}), w : 1 .. d[1], h : 1 .. d[2],
          edge : 2 .. 3] : d \in {<<4, 1>>, <<3, 2>>}}
Grids == [kind : {"grid"}, base : (1 .. 5) \X (1 .. 5), ref : {<<4, 5>>, <<9, 7>>, <<20, 20>>}]

Token(form, key, value) == [form |-> form, key |-> key, value |-> value]
Pair(key, value) == [key |-> key, value |-> value]

MCLabels ==
  {{Token("L@", "", <<28, 4>>)}, {Token("C@", "", <<28, 4>>)}, {Token("A@", "", <<28, 4>>)},
   {Token("LC", "", <<28, 15>>)}, {Token("key", "hv", <<0>>)}, {Token("unread", "", <<0>>)},
   {Token("L@", "", <<28, 4>>), Token("key", "sel_hv", <<1>>)},
   {Token("A@", "", <<28, 4>>), Token("LC", "", <<28, 15>>)}}

MCPairs ==
  {Pair("l1", <<28, 4>>), Pair("l1", <<28, 5>>), Pair("la1", <<28, 4>>), Pair("c", <<15, 3>>),
   Pair("ca", <<28, 4>>), Pair("a", <<28, 4>>), Pair("alpha_ac_count", <<28>>),
   Pair("alpha_ac_bits", <<4>>), Pair("alpha_ac_bits", <<3>>), Pair("sel_hv", <<0>>), Pair("sel_hv", <<1>>)}

MCTunes == {tune \in BoundedSeq(MCPairs, 3) : Len(tune) <= 2 \/ tune[3].key \in {"c", "alpha_ac_bits"}}
Arm(label, tune) == [label |-> label, tune |-> tune]

\* A second arm that is pinned, that is not, and that has no label to read.
OtherArms ==
  {Arm({Token("key", "hv", <<1>>)}, <<Pair("sel_hv", <<1>>)>>), Arm({Token("key", "hv", <<1>>)}, <<>>),
   Arm({Token("unread", "", <<0>>)}, <<>>)}

LabelProbes ==
  [kind : {"labels"}, arms : {<<Arm(label, tune), other>> : label \in MCLabels, other \in OtherArms,
                               tune \in {t \in MCTunes : ~Overwritten(t)}},
   optOut : {NoOptOut, 0, 1, 2}]

\* What may ship: every place with a value that no label names.
Places == UNION {Range(Written(key)) : key \in LayoutKeys \cup {"sel_hv"}}
MCDefaults == {[at \in Places |-> 90], [at \in Places |-> 91]}

\* The length of a symbol in whole bits.
MCBits(n, d) == CHOOSE k \in 0 .. 20 : n * 2 ^ k >= d /\ (k > 0 => n * 2 ^ (k - 1) < d)

Entropy == INSTANCE EntropyBudget WITH Bits <- MCBits

Coded(nL) == [l : [1 .. nL -> 0 .. 1], a : [1 .. 1 -> 0 .. 1], b : [1 .. 1 -> 0 .. 1]]
CodedImages == [kind : {"coded"}, images : [1 .. 2 -> Coded(2)] \cup ([1 .. 3 -> Coded(1)])]

\* Three layouts for eight bytes: the shipped precision and ratio, one that carries
\* more at less precision, and one of another ratio.
MCLayouts ==
  <<[nL |-> 1, lBits |-> 5, nC |-> 1, cBits |-> 4], [nL |-> 2, lBits |-> 3, nC |-> 1, cBits |-> 2],
    [nL |-> 2, lBits |-> 5, nC |-> 1, cBits |-> 4]>>

PickImages ==
  {<<[l |-> <<0, 0>>, a |-> <<0>>, b |-> <<0>>], [l |-> <<x, y>>, a |-> <<z>>, b |-> <<0>>]>> :
     x \in 0 .. 1, y \in 0 .. 2, z \in 0 .. 1}

\* The images of a layout have as many codes as it carries.
FitsOf(images, l, bytes) ==
  Entropy!Fits([n \in DOMAIN images |-> [images[n] EXCEPT !.l = SubSeq(@, 1, l.nL)]], l, bytes)

RowOf(k, fits, ciede) ==
  [layout |-> MCLayouts[k], ratio |-> IF k = 3 THEN 2 ELSE 1,
   coefficients |-> MCLayouts[k].nL + 2 * MCLayouts[k].nC,
   fixed |-> Entropy!AcFixedBits(MCLayouts[k]), fits |-> fits, ciede |-> ciede]

MCFits ==
  {[k \in DOMAIN MCLayouts |-> FitsOf(images, MCLayouts[k], bytes)] :
     images \in PickImages, bytes \in {8, 9}}

Picks ==
  {[kind |-> "picks", rows |-> [k \in DOMAIN MCLayouts |-> RowOf(k, fits[k], ciede[k])]] :
     fits \in MCFits, ciede \in [1 .. 3 -> {Entropy!NoScore, 1, 2}]}

Budgets == {[kind |-> "budget", bytes |-> 32, tier |-> 1], [kind |-> "budget", bytes |-> 108, tier |-> 2]}

\* Entries of two columns; a column that an entry has not scored is missing.
Reading == INSTANCE Readings
Scores(ciede, ssim) == [ciede2000 |-> ciede, ssimulacra2 |-> ssim]
Entries ==
  {("v1" :> b) @@ ("current" :> c) :
     b \in {Scores(4, 5), Scores(1, Null), Scores(Null, 2)},
     c \in {Scores(4, 2), Scores(1, 5), Scores(6, 5)}}
  \cup {("v1" :> Scores(9, 9)), ("current" :> Scores(2, 7))}
PairProbes == [kind : {"pairs"}, entries : [1 .. 3 -> Entries]]

\* Photographs by what is known of them, and two arms of which one is complete.
Photos == <<"dune", "face", "neon", "night">>
Knowns ==
  {[n \in Range(Photos) |-> CASE n = "dune" -> 7 [] n = "face" -> 2 [] n = "neon" -> 5 [] n = "night" -> 3],
   [n \in {"dune", "neon", "night", "other"} |-> IF n = "dune" THEN 1 ELSE IF n = "neon" THEN 9 ELSE 4],
   [n \in {"other"} |-> 1]}
StrataProbes ==
  [kind : {"strata"}, known : Knowns, k : 1 .. 4,
   rows : {<<[names |-> Photos, series |-> one], [names |-> names, series |-> other]>> :
             one \in [1 .. 4 -> {Null, 0, 5}], other \in {<<>>, <<3, 1, 4, 1>>},
             names \in {Photos, Reverse(Photos)}}]

\* A sweep that was committed and one that is run again, known by what the arms
\* scored on an image; and the scores that a gate measures.
Gate == INSTANCE Gates WITH Near <- 4, Percent <- 1
Scored1 == [{"dune", "face", "neon"} -> {Null, 4, 8}]
Result(names, labels, keys, scored) ==
  [names |-> names,
   rows |-> [i \in DOMAIN labels |->
               [label |-> labels[i],
                perImage |-> [key \in keys |-> [n \in DOMAIN names |-> scored[labels[i]][names[n]]]]]]]
Rerun(committed, scored, names, labels, keys, means, again) ==
  [kind |-> "rerun", committed |-> committed, scored |-> scored, names |-> names, labels |-> labels,
   keys |-> keys, means |-> means, again |-> again]
Steady == [n \in Range(Photos) |-> 4]
Reruns ==
  {Rerun(one, ("arm" :> [n \in Range(Photos) |-> CASE n = "dune" -> a [] n = "face" -> b [] OTHER -> 4])
                @@ ("base" :> Steady) @@ ("new" :> Steady),
         names, labels, keys, means, again) :
     one \in Scored1, a \in {Null, 4, 5, 7}, b \in {Null, 8, 6},
     names \in {<<"dune", "face">>, <<"face", "dune">>, <<"night">>},
     labels \in {<<"base", "arm">>, <<"arm", "base">>, <<"base">>, <<"base", "arm", "new">>},
     keys \in {{"ciede2000"}, {"ciede2000", "ringing"}}, means \in 1 .. 2, again \in BOOLEAN}

GateScores == [{"face", "night"} -> [bytes : {32, 33}, ciede : {Null, 100, 102, 104}]]
Drifts == [kind : {"drift"}, before : GateScores, now : GateScores, given : {Null, 0, 2, Gate!NotANumber}]

Probes == PairProbes \cup StrataProbes \cup Reruns \cup Drifts \cup CodedImages \cup Budgets \cup Picks \cup LabelProbes \cup Families \cup Samples \cup Rings \cup Spectra \cup Grids

-----------------------------------------------------------------------------

MCInit ==
  /\ AnalysisInit
  /\ \/ probe = NoProbe
     \/ /\ config = CHOOSE c \in Configs : TRUE
        /\ probe \in Probes

MCNext == IF probe = NoProbe THEN AnalysisNext /\ UNCHANGED probe ELSE UNCHANGED <<analysisVars, probe>>
MCSpec == MCInit /\ [][MCNext]_<<analysisVars, probe>>
-----------------------------------------------------------------------------
(* Properties of the pure parts *)

\* A paired comparison that is turned around says the opposite: the wins are the
\* losses, the delta and its interval change their sign, and the test is the same;
\* the delta shown is the difference of the two means shown, whatever one column
\* lacks (paired.ts).
PairsTurnAround ==
  LET keys == {"ciede2000", "ssimulacra2"}
      there == Reading!ComputePairedComparisons(probe.entries, "v1", <<"v1", "current">>, keys)
      back == Reading!ComputePairedComparisons(probe.entries, "current", <<"v1">>, keys) IN
  /\ Len(there) = Len(back) /\ Len(there) <= 1
  /\ \A n \in DOMAIN there :
       /\ DOMAIN there[n].metrics = DOMAIN back[n].metrics
       /\ \A key \in DOMAIN there[n].metrics :
            LET one == there[n].metrics[key]
                other == back[n].metrics[key] IN
            /\ <<one.wins, one.ties, one.losses>> = <<other.losses, other.ties, other.wins>>
            /\ one.ci = Mirrored(other.ci) /\ one.delta = 0 - other.delta
            /\ one.signP = other.signP /\ one.pairs = other.pairs
            /\ one.baseline = other.candidate
            /\ one.candidate - one.baseline = Reading!Direction(key) * one.delta

\* Each cell of a stratified table is of the images that its heading spans and of
\* all of those that its arm was measured on; no bin is more than one image larger
\* than another; and a correlation is one (stratify.ts, stratify-core.ts).
StrataAreShared ==
  LET known == probe.known
      names == probe.rows[1].names
      read == Reading!Stratify(probe.rows, known, probe.k)
      Size(b) == Cardinality({n \in DOMAIN names : names[n] \in DOMAIN known /\
                                known[names[n]] \in read.headings[b][1] .. read.headings[b][2]}) IN
  /\ \A i \in DOMAIN read.lines, b \in DOMAIN read.headings :
       read.lines[i].cells[b][2] =
         Cardinality({n \in DOMAIN names :
           /\ names[n] \in DOMAIN known /\ probe.rows[i].series[n] # Null
           /\ known[names[n]] \in read.headings[b][1] .. read.headings[b][2]})
  /\ \A b, c \in DOMAIN read.headings :
       Size(b) > 0 /\ Size(b) <= Size(c) + 1 /\ (b < c => read.headings[b][2] < read.headings[c][1])
  /\ \A i \in DOMAIN read.lines :
       /\ Sum([b \in DOMAIN read.headings |-> read.lines[i].cells[b][2]]) = read.lines[i].n
       /\ LET r == read.lines[i].r IN r # Reading!NoR => r[1] * r[1] <= r[2] * r[3]

\* The readings of a sample do not contradict one another: an adjusted p-value is
\* the step-down test it stands for, an interval and a p-value of the same resamples
\* agree, a comparison that is turned around says the opposite, and a stratum is the
\* same images for every arm (stats.ts, paired.ts, stratify.ts).
TestsAgree ==
  /\ (probe # NoProbe /\ probe.kind = "family") => StepsDown(probe.ps, One)
  /\ (probe # NoProbe /\ probe.kind = "sample") =>
       \A seed \in Seeds : OneTest(probe.deltas, seed)
  /\ (probe # NoProbe /\ probe.kind = "pairs") => PairsTurnAround
  /\ (probe # NoProbe /\ probe.kind = "strata") => StrataAreShared

\* What a green gate stands for. The job that runs a sweep again is green exactly
\* where nothing but what differs between any two runs differs, and every arm on
\* either side has the same series and scores within tolerance on every image that
\* was run, wherever the arm and the image stand. A baseline that has just been
\* recorded passes at any tolerance, one of an image that is not measured does not,
\* and a mean that improves is judged like one that gets worse by as much
\* (determinism-check.ts, rd-gate.ts).
GatesHold ==
  /\ (probe # NoProbe /\ probe.kind = "rerun") =>
       LET labels == {"base", "arm"}
           recorded == ("arm" :> probe.committed) @@ ("base" :> Steady)
           run == Result(probe.names, probe.labels, probe.keys, probe.scored)
           committed == Result(<<"dune", "face", "neon">>, <<"base", "arm">>, {"ciede2000"}, recorded)
           other == IF probe.again THEN run ELSE [run EXCEPT !.names = Append(@, "neon")]
           ended == Gate!CheckDeterminism(TRUE, [generatedAt |-> 1, means |-> 1],
                                          [generatedAt |-> 2, means |-> probe.means], committed, run, other) IN
       (ended = "green") =
         (/\ probe.means = 1 /\ probe.again /\ probe.keys = {"ciede2000"}
          /\ Range(probe.labels) = labels /\ Range(probe.names) \subseteq {"dune", "face", "neon"}
          /\ \A label \in labels, n \in Range(probe.names) :
               Gate!Reproduces(probe.scored[label][n], recorded[label][n]))
  /\ (probe # NoProbe /\ probe.kind = "drift") =>
       LET Check(scored, baseline) == Gate!RdGate(FALSE, probe.given, scored, baseline)
           wrote == Gate!RdGate(TRUE, probe.given, probe.before, Gate!NoBaseline)
           mean == Gate!MeanOf(probe.before)
           opposite == [label \in DOMAIN probe.now |->
                          [probe.now[label] EXCEPT !.ciede = 2 * probe.before[label].ciede - @]] IN
       wrote.verdict = "written" =>
         /\ Check(probe.before, wrote.baseline).verdict = "pass"
         /\ \A label \in DOMAIN probe.before :
              Check([other \in {label} |-> probe.before[other]], wrote.baseline).verdict = "not measured"
         /\ Gate!Measurable(probe.now) =>
              (Check(probe.now, wrote.baseline).verdict = "pass")
                = (Check(opposite, wrote.baseline).verdict = "pass")

\* Where the check of the labels is green, no arm runs with anything but what its
\* label names, or as few as the config has declared. No config writes one place by
\* two keys, which the check would not see (verify-sweep-labels.ts).
LabelsHold ==
  (probe # NoProbe /\ probe.kind = "labels") =>
    NoMoreLies([arms |-> probe.arms, optOut |-> probe.optOut], MCDefaults)

\* What a code is said to need could be achieved. Its tables are those of the other
\* images alone, also where an image gives two symbols to a table, and at every
\* place the prices of all symbols add up to one, so that a decoder that has not
\* seen the image can read it; a layout that is reached by two ratios is the
\* shipped ratio's; and of what a code lets into a budget, the best is no worse
\* than the shipped shape that was measured beside it (entropy-budget.ts, whose
\* point it is not to quote what a table knows of its own image).
CodesAreReal ==
  /\ (probe # NoProbe /\ probe.kind = "coded") =>
       LET images == probe.images
           a == Entropy!Alphabet(2)
           symbols == 0 .. a - 1
           AddUp(prices) == \A v \in symbols : prices[v][2] = FoldSet(LAMBDA w, x : prices[w][1] + x, 0, symbols) IN
       \A n \in DOMAIN images, group \in Entropy!Groups :
         LET rest == RemoveAt(images, n) IN
         /\ \A v \in symbols : Entropy!Others(images, n, group, v) = Entropy!Pool(rest, group, v)
         /\ AddUp([v \in symbols |-> Entropy!TablePrice(images, n, group, a, v)])
         /\ \A i \in Entropy!Places(images[n], group) :
              /\ \A v \in symbols : Entropy!OthersAt(images, n, group, i, v) = Entropy!Index(rest, group, i, v)
              /\ AddUp([v \in symbols |-> Entropy!ContextPrice(images, n, group, a, i, v)])
              /\ \A s \in {Entropy!Strengths[1], Entropy!Strengths[8]} :
                   AddUp([v \in symbols |-> Entropy!BackoffPrice(images, n, group, a, i, v, s)])
         /\ LET coded == Entropy!Coded(images[n], group) IN
            \A k \in DOMAIN coded :
              AddUp([v \in symbols |-> Entropy!AdaptivePrice(SubSeq(coded, 1, k - 1), a, v)])
  /\ (probe # NoProbe /\ probe.kind = "picks") =>
       LET held == probe.rows IN
       \A coder \in Entropy!Coders :
         /\ \A i \in Entropy!LargestFitting(held, coder, Entropy!IsShippedShape(held)) :
              held[i].ciede # Entropy!NoScore =>
                /\ Entropy!BestQuality(held, coder) # {}
                /\ \A j \in Entropy!BestQuality(held, coder) : held[j].ciede <= held[i].ciede
         /\ \A j \in Entropy!BestQuality(held, coder) : coder \in held[j].fits
  /\ (probe # NoProbe /\ probe.kind = "budget") =>
       LET candidates == Entropy!CandidateLayouts(probe.bytes, probe.tier)
           Affords(l) == Entropy!PrefixBits + Entropy!ScaleOf(probe.tier) * Entropy!AcFixedBits(l)
                           <= 8 * probe.bytes IN
       \A family \in Range(Entropy!PrecisionFamilies), nC \in 1 .. Entropy!MaxC :
         LET l == Entropy!Shape(family, Entropy!LcRatios[1], nC) IN
         Affords(l) => \E c \in candidates :
           /\ <<c.layout.lBits, c.layout.cBits, c.ratio>> = <<family[1], family[2], 1>>
           /\ Affords(c.layout) /\ c.layout.nC >= nC

\* What a decoded sample may be, if it lies within what it stands for.
Convex(ref, w, h) ==
  LET Values(x, y) == {ref[p[1]][p[2]] : p \in Box(y, h, Height(ref)) \X Box(x, w, Width(ref))} IN
  {dec \in [1 .. h -> [1 .. w -> {0, 9}]] :
     \A y \in 1 .. h, x \in 1 .. w : dec[y][x] \in Values(x, y)}

Silent(ref, dec) == \A row \in Range(Excursions(ref, dec)) : \A e \in Range(row) : e = 0

\* A decode that is only coarse is charged with nothing that it did not invent. It
\* does not ring, whatever each of its samples takes of the pixels that it stands
\* for; nor does one that is all of one error away from a plain reference. And the
\* ideal low-pass has no spurious energy and lacks none, on any raster and with the
\* grid pinned anywhere below it, whatever level is added to all of it (local.ts,
\* the theorem of its header; spurious.ts, the defining property).
NothingInvented ==
  /\ (probe # NoProbe /\ probe.kind = "ringing") =>
       /\ \A dec \in Convex(probe.ref, probe.w, probe.h) : Silent(probe.ref, dec)
       /\ \A level \in {0, 9, 30} :
            Cardinality(UNION {Range(row) : row \in Range(probe.ref)}) = 1 =>
              Silent(probe.ref, [y \in 1 .. probe.h |-> [x \in 1 .. probe.w |-> level]])
  /\ (probe # NoProbe /\ probe.kind = "spectrum") =>
       \A level \in {0, 3} :
         LET ideal == AreaPlane(probe.ref, probe.w, probe.h)
             dec == [y \in DOMAIN ideal |-> [x \in DOMAIN ideal[y] |-> ideal[y][x] + level]]
             found == Spectrum(probe.ref, dec, probe.edge) IN
         found # Null => \A f \in DOMAIN found : found[f].spurious = 0 /\ found[f].deficit = 0

\* Where a table says that its spectral columns are comparable, two scores that are
\* paired were taken on one grid. A sweep compares the one number that it records of an
\* analysis, the longest edge; and decodes of one image at different levels whose grids
\* have the same longest edge have the same grid (sweep.ts, gridDisagreements;
\* spurious.ts, analysisGrid).
OneInstrument ==
  /\ OneGrid
  /\ (probe # NoProbe /\ probe.kind = "grid") =>
       \A one, two \in 0 .. 2, edge \in 2 .. 9 :
         LET Grid(level) == AnalysisGrid(probe.base[1] * 2 ^ level, probe.base[2] * 2 ^ level,
                                         probe.ref[1], probe.ref[2], edge) IN
         Greatest(Grid(one).w, Grid(one).h) = Greatest(Grid(two).w, Grid(two).h)
           => Grid(one) = Grid(two)
=============================================================================
