------------------------------ MODULE RdBudget ------------------------------
(***************************************************************************)
(* tools/comparison/src/rd-budget.ts and rd/report.ts: the formats at any  *)
(* number of bytes, and who wins near each of them.                        *)
(*                                                                         *)
(* A mean is <<sum, count>>, of numbers that are not null. What a format   *)
(* made of an image is a record of its bytes and its scores, or Refused.   *)
(***************************************************************************)
EXTENDS Integers, Sequences, FiniteSets, SequencesExt

Null == 0 - 1
Refused == <<>>
NoMean == <<0, 0>>
NoRow == <<>>

Guards == {"ssimulacra2", "butteraugli", "dssim"}
SummaryMetrics == {"ciede2000"} \cup Guards
LowerIsBetter == SummaryMetrics \ {"ssimulacra2"}

NeighbourhoodRatio == <<6, 5>>
TieSsim2 == 1
TieRel == 50           \* a part in so many

-----------------------------------------------------------------------------
(* Layouts *)

PrefixBits == 54
LBits == 5
CBits == 4
ShippedAnchors == <<21, 32, 108, 411, 1623>>    \* of tier 0 and up

Ceiling(bits) == (bits + 7) \div 8
BytesFor(nL, nC) == Ceiling(PrefixBits + nL * LBits + 2 * nC * CBits)

\* The layouts that are tried: around the shipped 26 to 9.
Near(nC) == (52 * nC + 9) \div 18
Candidates(target) ==
  {n \in UNION {((IF Near(nC) > 6 THEN Near(nC) - 6 ELSE 0) .. Near(nC) + 6) \X {nC} :
                  nC \in 0 .. target \div 2} :
     BytesFor(n[1], n[2]) = target}

Used(n) == n[1] * LBits + 2 * n[2] * CBits
Deviation(n) == <<(IF 9 * n[1] > 26 * n[2] THEN 9 * n[1] - 26 * n[2] ELSE 26 * n[2] - 9 * n[1]), 9 * n[2]>>
Straighter(n, k) ==
  n[2] # 0 /\ (k[2] = 0 \/ Deviation(n)[1] * Deviation(k)[2] < Deviation(k)[1] * Deviation(n)[2])

\* allocate: the most bits, then the straightest, then the first.
Allocate(target) ==
  LET full == {n \in Candidates(target) : \A k \in Candidates(target) : Used(k) <= Used(n)}
      straight == {n \in full : \A k \in full : ~Straighter(k, n)} IN
  CHOOSE n \in straight : \A k \in straight : n[2] < k[2] \/ (n[2] = k[2] /\ n[1] <= k[1])

LevelOf(tier) == IF tier = 0 THEN 0 ELSE tier - 1

\* The raster is at least 2.2 times as long as the top index; pi is 355 parts of 113.
Clears(level, nL) ==
  4 ^ level * 1024 * 8875 >= 484 * 113 * (IF nL = 0 THEN 1 ELSE nL)
TierFor(nL) ==
  IF \E level \in 0 .. 3 : Clears(level, nL)
    THEN 1 + (CHOOSE level \in 0 .. 3 : Clears(level, nL) /\ \A l \in 0 .. level - 1 : ~Clears(l, nL))
    ELSE 4

Rounded(x, y) == (2 * x + y) \div (2 * y)

\* Mutant: the counts are divided by the code of the tier and not by its level.
TuneByCode(n, tier) == [l1 |-> Rounded(n[1], 4 ^ tier), c |-> Rounded(n[2], 4 ^ tier)]

\* Counts of the default tier, which the encoder scales again.
Tune(n, tier) == [l1 |-> Rounded(n[1], 4 ^ LevelOf(tier)), c |-> Rounded(n[2], 4 ^ LevelOf(tier))]

\* constants.rs, body_len_bytes: of a hash without alpha under a tune.
BodyLenBytes(tune, tier) ==
  Ceiling(PrefixBits + (tune.l1 * LBits + 2 * tune.c * CBits) * 4 ^ LevelOf(tier))

NotTuned == <<>>

\* main: what is run at a budget; nothing below the prefix.
ChromaHashAt(b) ==
  IF b \in Range(ShippedAnchors)
    THEN <<[variant |-> <<"ChromaHash", b>>, tune |-> NotTuned,
            tier |-> (CHOOSE k \in DOMAIN ShippedAnchors : ShippedAnchors[k] = b) - 1]>>
  ELSE IF Candidates(b) = {} THEN <<>>
  ELSE <<[variant |-> <<"ChromaHash", b, "resized">>, tune |-> Tune(Allocate(b), TierFor(Allocate(b)[1])),
          tier |-> TierFor(Allocate(b)[1])]>>

\* main: the names of the rows, in the order they are scored in.
Sized(family, sizes) == [k \in DOMAIN sizes |-> <<family, sizes[k]>>]
Lineup(budgets, want, jxl) ==
  LET Of(family, names) == IF want = {} \/ family \in want THEN names ELSE <<>> IN
  Of("chromahash", FlattenSeq([k \in DOMAIN budgets |-> [i \in DOMAIN ChromaHashAt(budgets[k]) |->
                                                           ChromaHashAt(budgets[k])[i].variant]]))
    \o Of("thumbhash", <<<<"ThumbHash">>>>)
    \o Of("blurhash", Sized("BlurHash", <<2, 3, 4, 5, 6, 7, 8>>))
    \o Of("lqip-modern", Sized("lqip-modern", <<8, 12, 16, 24, 32, 48>>))
    \o Of("rawrgb565", Sized("RawRGB565", budgets))
    \o Of("webp", Sized("WebP", budgets)) \o Of("jpeg", Sized("JPEG", budgets))
    \o Of("avif", Sized("AVIF", budgets)) \o (IF jxl THEN Of("jxl", Sized("JXL", budgets)) ELSE <<>>)

-----------------------------------------------------------------------------
(* Rows *)

Mean(series) == FoldLeft(LAMBDA m, v : IF v = Null THEN m ELSE <<m[1] + v, m[2] + 1>>, NoMean, series)

\* Mutant: an image that is refused is one of no bytes.
SeriesOfNothing(key, results) ==
  [i \in DOMAIN results |-> IF results[i] # Refused THEN results[i][key]
                            ELSE IF key = "bytes" THEN 0 ELSE Null]

\* A null in the place of what is refused, so that series are aligned with the corpus.
Series(key, results) == [i \in DOMAIN results |-> IF results[i] = Refused THEN Null ELSE results[i][key]]

\* perImageOf: a series of nothing is not there.
PerImageOf(series) == [key \in {k \in DOMAIN series : \E i \in DOMAIN series[k] : series[k][i] # Null} |-> series[key]]

Scored(results) == SelectSeq(results, LAMBDA r : r # Refused)

\* scoreChromaHash, scoreAdapter: no row where everything is refused.
ScoreAdapter(family, variant, results) ==
  IF Scored(results) = <<>> THEN NoRow
  ELSE [family |-> family, variant |-> variant,
        bytes |-> <<FoldLeft(LAMBDA s, r : s + r.bytes, 0, Scored(results)), Len(Scored(results))>>,
        metrics |-> [key \in SummaryMetrics |-> Mean(Series(key, results))],
        perImage |-> PerImageOf([key \in SummaryMetrics \cup {"bytes"} |-> Series(key, results)])]

-----------------------------------------------------------------------------
(* summarizeGuards *)

\* |log(bytes / anchor)|, as a ratio that is one or more.
Apart(bytes, anchor) ==
  IF bytes[1] >= anchor * bytes[2] THEN <<bytes[1], anchor * bytes[2]>> ELSE <<anchor * bytes[2], bytes[1]>>
Nearer(r, s) == r[1] * s[2] < s[1] * r[2]

\* Mutant: near in bytes, and not in their ratio.
NearestInBytes(row, anchors) ==
  LET Off(a) == Apart(row.bytes, a)[1] - Apart(row.bytes, a)[2] IN
  FoldLeft(LAMBDA best, a : IF Off(a) < Off(best) THEN a ELSE best, Head(anchors), anchors)

\* The first of the nearest.
Nearest(row, anchors) ==
  FoldLeft(LAMBDA best, a : IF Nearer(Apart(row.bytes, a), Apart(row.bytes, best)) THEN a ELSE best,
           Head(anchors), anchors)

Joins(row, anchors, anchor) ==
  /\ row.bytes[1] > 0
  /\ Nearest(row, anchors) = anchor
  /\ ~Nearer(NeighbourhoodRatio, Apart(row.bytes, anchor))

\* One row of a family, the closest, in the place where the family first came.
Placed(group, row, anchor) ==
  IF \A i \in DOMAIN group : group[i].family # row.family THEN Append(group, row)
  ELSE [i \in DOMAIN group |->
          IF group[i].family = row.family /\ Nearer(Apart(row.bytes, anchor), Apart(group[i].bytes, anchor))
            THEN row ELSE group[i]]
Group(rows, anchors, anchor) ==
  FoldLeft(LAMBDA group, row : IF Joins(row, anchors, anchor) THEN Placed(group, row, anchor) ELSE group,
           <<>>, rows)

\* Means by cross-multiplication.
Less(a, b) == a[1] * b[2] < b[1] * a[2]
Ahead(key, a, b) == IF key \in LowerIsBetter THEN Less(a, b) ELSE Less(b, a)
Absolute(x) == IF x < 0 THEN 0 - x ELSE x

\* Mutant: the tolerance is relative on every metric.
BeatsInPart(key, a, b) ==
  Ahead(key, a, b) /\ TieRel * Absolute(a[1] * b[2] - b[1] * a[2]) > Absolute(b[1]) * a[2]

\* beats: by more than the tie tolerance.
Beats(key, a, b) ==
  IF key = "ssimulacra2" THEN a[1] * b[2] - b[1] * a[2] > TieSsim2 * a[2] * b[2]
  ELSE Ahead(key, a, b) /\ TieRel * Absolute(a[1] * b[2] - b[1] * a[2]) > Absolute(b[1]) * a[2]

\* The first of the best that was measured.
Top(group, key) ==
  FoldLeft(LAMBDA top, row :
             IF row.metrics[key] = NoMean THEN top
             ELSE IF top = NoRow THEN row
             ELSE IF Ahead(key, row.metrics[key], top.metrics[key]) THEN row ELSE top,
           NoRow, group)

LostGuards(ours, tops) ==
  {key \in Guards : tops[key] # NoRow /\ ours.metrics[key] # NoMean
                    /\ Beats(key, tops[key].metrics[key], ours.metrics[key])}

Verdict(ours, group, tops) ==
  LET top == tops["ciede2000"]
      ties == top # NoRow /\ ours.metrics["ciede2000"] # NoMean
                /\ ~Beats("ciede2000", top.metrics["ciede2000"], ours.metrics["ciede2000"]) IN
  IF Len(group) = 1 THEN "unopposed"
  ELSE IF ~ties THEN "behind"
  ELSE IF LostGuards(ours, tops) = {} THEN (IF top.variant = ours.variant THEN "sweep" ELSE "tie, guards clean")
  ELSE (IF top.variant = ours.variant THEN "colour only" ELSE "tie, loses guards")

\* One byte neighbourhood; its group is not empty.
Neighbourhood(anchor, group, tops, own) ==
  [anchor |-> anchor, variants |-> [i \in DOMAIN group |-> group[i].variant],
   winners |-> [key \in SummaryMetrics |->
                  IF tops[key] = NoRow THEN NoRow ELSE <<tops[key].variant, tops[key].metrics[key]>>],
   lostGuards |-> IF own = <<>> THEN {} ELSE LostGuards(own[1], tops),
   verdict |-> IF own = <<>> THEN "absent" ELSE Verdict(own[1], group, tops)]

Summarized(anchor, group) ==
  Neighbourhood(anchor, group, [key \in SummaryMetrics |-> Top(group, key)],
                SelectSeq(group, LAMBDA r : r.family = "ChromaHash"))

\* By anchor, those that some row joins; anchors are sorted.
SummarizeGuards(rows, anchors) ==
  FoldLeft(LAMBDA out, anchor :
             IF \E i \in DOMAIN rows : Joins(rows[i], anchors, anchor)
               THEN Append(out, Summarized(anchor, Group(rows, anchors, anchor))) ELSE out,
           <<>>, anchors)

-----------------------------------------------------------------------------
(* The committed result, and --summarize *)

Stored(rows) ==
  [i \in DOMAIN rows |-> [label |-> rows[i].variant, family |-> rows[i].family, perImage |-> rows[i].perImage]]

MeanOf(row, key) == IF key \in DOMAIN row.perImage THEN Mean(row.perImage[key]) ELSE NoMean

SummarizeExisting(file, anchors) ==
  SummarizeGuards(
    [i \in DOMAIN file |->
       [family |-> file[i].family, variant |-> file[i].label,
        bytes |-> IF MeanOf(file[i], "bytes") = NoMean THEN <<0, 1>> ELSE MeanOf(file[i], "bytes"),
        metrics |-> [key \in SummaryMetrics |-> MeanOf(file[i], key)],
        perImage |-> file[i].perImage]],
    anchors)

-----------------------------------------------------------------------------
(* rd/report.ts: entries hold the results of an image, [name, bytes, scores] *)

Point(name, results) ==
  [variant |-> name,
   bytes |-> <<FoldLeft(LAMBDA s, r : s + r.bytes, 0, results), Len(results)>>,
   metrics |-> [key \in SummaryMetrics \ {"dssim"} |-> Mean([i \in DOMAIN results |-> results[i][key]])],
   imageCount |-> Len(results)]

Named(entries, name) == SelectSeq(FlattenSeq(entries), LAMBDA r : r.name = name)

\* computeRdCurves: the points of a family by bytes, families as they come.
Points(entries, variants, family) ==
  SortSeq(FoldLeft(LAMBDA points, v :
                     IF v.family # family \/ Named(entries, v.name) = <<>> THEN points
                     ELSE Append(points, Point(v.name, Named(entries, v.name))),
                   <<>>, variants),
          LAMBDA p, q : Less(p.bytes, q.bytes))

ComputeRdCurves(entries, variants) ==
  FoldLeft(LAMBDA curves, v :
             IF \/ Named(entries, v.name) = <<>>
                \/ \E i \in DOMAIN curves : curves[i].format = v.family
               THEN curves
             ELSE Append(curves, [format |-> v.family, points |-> Points(entries, variants, v.family)]),
           <<>>, variants)
=============================================================================
