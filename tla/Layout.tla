------------------------------- MODULE Layout -------------------------------
(***************************************************************************)
(* tools/comparison/src/aspect.ts, report-layout.ts and what report.ts     *)
(* counts for them: how far a page moves when the image replaces its       *)
(* placeholder.                                                            *)
(*                                                                         *)
(* An entry is [original, small, results], a result [name, intrinsic]. A   *)
(* shape is <<width, height>>; a format that carries none is Absent. An    *)
(* error is a ratio of shapes <<x, y>> with x >= y, its logarithm left out.*)
(***************************************************************************)
EXTENDS Integers, Sequences, FiniteSets, SequencesExt

Absent == <<>>
Unmeasured == <<>>

-----------------------------------------------------------------------------
(* aspect.ts *)

Magnitude(x) == IF x < 0 THEN 0 - x ELSE x
Flat(shape) == shape[1] <= 0 \/ shape[2] <= 0
LessRatio(p, q) == p[1] * q[2] < q[1] * p[2]

\* aspectFidelity: at a container as wide as the unit, the reflow is a fraction of it.
AspectFidelity(intrinsic, target) ==
  IF intrinsic = Absent \/ Flat(intrinsic) \/ Flat(target) THEN Unmeasured
  ELSE LET d == intrinsic[1] * target[2]
           t == target[1] * intrinsic[2] IN
       [error |-> IF d >= t THEN <<d, t>> ELSE <<t, d>>,
        reflow |-> <<d - t, target[1] * intrinsic[1]>>]

EncoderInputFloor(entry) == AspectFidelity(entry.small, entry.original)

-----------------------------------------------------------------------------
(* report.ts *)

Of(entry, name) == SelectSeq(entry.results, LAMBDA r : r.name = name)

Aspects(entries, name) ==
  SelectSeq(FlattenSeq([i \in DOMAIN entries |->
                          [k \in DOMAIN Of(entries[i], name) |->
                             AspectFidelity(Of(entries[i], name)[k].intrinsic, entries[i].original)]]),
            LAMBDA a : a # Unmeasured)

Worst(aspects) ==
  FoldLeft(LAMBDA worst, a : IF LessRatio(worst, <<Magnitude(a.reflow[1]), a.reflow[2]>>)
                               THEN <<Magnitude(a.reflow[1]), a.reflow[2]>> ELSE worst, <<0, 1>>, aspects)

\* Mutant: what has no aspect is said to carry none.
AbsentWithout(results, aspects) == aspects = <<>>

\* A reason is shown if nothing was measured and some result says that it is absent.
SaysAbsent(results, aspects) ==
  aspects = <<>> /\ \E i \in DOMAIN results : results[i].intrinsic = Absent

Stat(name, results, aspects) ==
  [name |-> name, images |-> Len(results), aspectImages |-> Len(aspects),
   maxAbsReflow |-> IF aspects = <<>> THEN Unmeasured ELSE Worst(aspects),
   absent |-> SaysAbsent(results, aspects)]

\* computeFormatStats, of the entries that the tab is about.
ComputeFormatStats(entries, names) ==
  [k \in DOMAIN names |->
     Stat(names[k], FlattenSeq([i \in DOMAIN entries |-> Of(entries[i], names[k])]), Aspects(entries, names[k]))]

-----------------------------------------------------------------------------
(* report-layout.ts *)

\* layoutTable: the ranked rows, those with the best number starred, and the absent.
Ranked(stats) ==
  SortSeq(SelectSeq(stats, LAMBDA s : s.aspectImages > 0),
          LAMBDA s, t : LessRatio(s.maxAbsReflow, t.maxAbsReflow))

Starred(ranked) ==
  [i \in DOMAIN ranked |->
     [name |-> ranked[i].name, images |-> ranked[i].aspectImages, worst |-> ranked[i].maxAbsReflow,
      winner |-> ~LessRatio(ranked[1].maxAbsReflow, ranked[i].maxAbsReflow)]]

LayoutTable(stats) ==
  [rows |-> Starred(Ranked(stats)),
   absent |-> SelectSeq(stats, LAMBDA s : s.aspectImages = 0 /\ s.absent)]

\* pickDiverse: even strides through the entries by their shapes, the narrowest first.
PickDiverse(entries, n) ==
  LET sorted == SortSeq(SelectSeq(entries, LAMBDA e : ~Flat(e.original)),
                        LAMBDA d, e : LessRatio(d.original, e.original))
      Stride(i) == 1 + (2 * i * (Len(sorted) - 1) + n - 1) \div (2 * (n - 1)) IN
  IF Len(sorted) <= n THEN sorted
  ELSE FoldLeft(LAMBDA out, i : IF sorted[Stride(i - 1)] \in Range(out) THEN out
                                ELSE Append(out, sorted[Stride(i - 1)]),
                <<>>, [i \in 1 .. n |-> i])

\* What is drawn: the declared shapes of those images.
Diagrams(entries) ==
  FlattenSeq([i \in DOMAIN entries |->
    SelectSeq([k \in DOMAIN entries[i].results |->
                 [label |-> entries[i].results[k].name,
                  reflow |-> AspectFidelity(entries[i].results[k].intrinsic, entries[i].original)]],
              LAMBDA d : d.reflow # Unmeasured)])

RenderLayoutTab(entries, names) ==
  IF entries = <<>> THEN [table |-> LayoutTable(<<>>), diagrams |-> <<>>]
  ELSE [table |-> LayoutTable(ComputeFormatStats(entries, names)),
        diagrams |-> Diagrams(PickDiverse(entries, 4))]
=============================================================================
