--------------------------- MODULE MCMetricCache ----------------------------
(***************************************************************************)
(* Instances of MetricCache for TLC: two processes that may overlap or     *)
(* follow one another, the first with two calls at a time. And, in states  *)
(* of their own, what the columns of a report say of pictures that are     *)
(* scored through it, and what the comparisons of formats make of that:    *)
(* every case is a state.                                                  *)
(***************************************************************************)
EXTENDS MetricCache, Integers, Sequences, SequencesExt

VARIABLE page   \* what is said; NoPage where processes run

CONSTANT NoPage

MCMetrics == {"ciede2000", "psnr", "dssim"}

-----------------------------------------------------------------------------
(* Columns of one picture *)

\* What iqa-cli says of a decode: anything, and of some nothing.
Code(file) == FoldLeft(LAMBDA sum, x : 2 * sum + x, 0, Tail(file))
MCSays(metric, picture) ==
  LET v == (picture.scene * (Code(picture.data) + 1) + (IF picture.over = "black" THEN 5 ELSE 0)
              + (IF metric = "dssim" THEN 3 ELSE 0) + (IF picture.grown = "lanczos" THEN 2 ELSE 0)) % 7 IN
  IF v = 6 THEN 0 - 1 ELSE v

\* Files grow with the quality, but in odd scenes by fits and starts.
MCBytes(image, file) ==
  (IF file[1] = "webp" THEN 6 ELSE 9) + file[2] * file[3]
    - (IF image.scene % 2 = 1 /\ file[3] % 3 = 0 THEN 7 ELSE 0)

MCNatural(image, tier) == IF image.small[1] >= image.small[2] THEN <<6 * tier, 4 * tier>> ELSE <<4 * tier, 6 * tier>>

Col == INSTANCE Columns WITH
  Metrics <- MCMetrics, BlurredMetrics <- {"ciede2000"}, Says <- MCSays, DimLadder <- <<4, 6, 8>>,
  QualityMin <- 1, QualityMax <- 6, Bytes <- MCBytes, Natural <- MCNatural

Tab == INSTANCE Layout
Budget == INSTANCE RdBudget

Configs ==
  {[policy |-> policy, blurred |-> blurred, backdrops |-> backdrops, alpha |-> blurred,
    artifacts |-> ~blurred, edge |-> "off"] :
     policy \in {"gamma", "lanczos"}, blurred \in BOOLEAN, backdrops \in {<<"white">>, <<"white", "black">>}}

Files ==
  {[width |-> 9, height |-> 6, orientation |-> 1], [width |-> 4, height |-> 7, orientation |-> 6],
   [width |-> 3, height |-> 2, orientation |-> 1], [width |-> 1, height |-> 700, orientation |-> 8]}

Images ==
  {[scene |-> scene, opaque |-> opaque, original |-> loaded.original, small |-> loaded.small,
    reference |-> loaded.reference] :
     scene \in 1 .. 4, opaque \in BOOLEAN, loaded \in {Col!LoadImage(file) : file \in Files}}

Codec(codec, target, floorFallback) ==
  [codec |-> codec, target |-> target, floorFallback |-> floorFallback]

Lineups ==
  {<<Codec("webp", one, FALSE), Codec("avif", two, FALSE), Codec("webp", 9, TRUE)>> :
     one \in {14, 30}, two \in {12, 30}}

HashColumns == [tier : 1 .. 4, capToSource : BOOLEAN, native : BOOLEAN]

ColumnPages ==
  {[kind |-> "codecs", image |-> image, config |-> config, columns |-> lineup,
    results |-> Col!CodecColumns(config, image, lineup)] :
     image \in Images, config \in Configs, lineup \in Lineups}
  \cup
  {[kind |-> "hash", image |-> image, config |-> config, column |-> column, renders |-> renders,
    result |-> Col!ChromaHashColumn(config, image, column, renders)] :
     image \in Images, config \in Configs, column \in HashColumns, renders \in BOOLEAN}
  \cup
  {[kind |-> "rasters", loaded |-> Col!LoadImage([width |-> w, height |-> h, orientation |-> o])] :
     w \in {1, 99, 101, 513, 2000}, h \in {1, 67, 100, 512, 1999}, o \in {1, 6}}
  \cup
  {[kind |-> "raw", image |-> image, target |-> target,
    result |-> Col!RawColumn(CHOOSE config \in Configs : config.backdrops = <<"white">>, image, target)] :
     image \in {i \in Images : i.scene = 1}, target \in 1 .. 60}
  \cup
  {[kind |-> "pixel", rgb |-> <<v, 255 - v, (v * 7) % 256>>] : v \in 0 .. 255}

-----------------------------------------------------------------------------
(* The layout tab: what columns of up to three images declare *)

Names == <<"BlurHash", "ThumbHash", "raw">>

\* A row of pixels may not be within the bytes, and then there is no result.
Declared(config, image, target) ==
  <<[name |-> "BlurHash", intrinsic |-> Col!LibraryColumn(config, image, "BlurHash", <<1, 1>>).declared],
    [name |-> "ThumbHash", intrinsic |-> Col!LibraryColumn(config, image, "ThumbHash", MCNatural(image, 1)).declared]>>
    \o (IF Col!RawColumn(config, image, target) = Col!NoColumn THEN <<>>
        ELSE <<[name |-> "raw", intrinsic |-> Col!RawColumn(config, image, target).declared]>>)

EntriesOf(target) ==
  {[original |-> image.original, small |-> image.small,
    results |-> Declared(CHOOSE config \in Configs : TRUE, image, target)] :
     image \in {i \in Images : i.scene = 1 /\ i.opaque}}
    \cup {[original |-> <<3000, 2000>>, small |-> <<100, 67>>, results |-> <<>>]}

LayoutPages ==
  UNION {{[kind |-> "layout", entries |-> entries, tab |-> Tab!RenderLayoutTab(entries, Names)] :
            entries \in UNION {[1 .. n -> EntriesOf(target)] : n \in {0, 1, 3}} \cup
                       {SetToSeq(EntriesOf(target))}} :
           target \in {1, 18, 5000}}

-----------------------------------------------------------------------------
(* Budgets: four columns over two images *)

Got(bytes, ciede, ssim, butter, dssim) ==
  [bytes |-> bytes, ciede2000 |-> ciede, ssimulacra2 |-> ssim, butteraugli |-> butter, dssim |-> dssim]
None == 0 - 1

Ours == {<<Got(32, 100, 80, 100, 100), Got(32, 102, 82, 100, None)>>,
         <<Got(36, 100, 80, 100, 100), Got(36, 101, 82, 99, 100)>>,
         <<Got(40, None, 80, 100, 100), Got(40, None, 81, 100, 100)>>}
Resized == {<<Got(30, 90, 84, 90, 90), Got(30, 90, 84, 90, 90)>>,
            <<Got(48, 101, 80, 104, 100), Got(48, 100, 80, 104, 100)>>,
            <<Got(36, 101, 70, 0, None), Got(36, 101, 0, 0, None)>>}
Rivals == {<<Got(32, 100, 81, 100, 100), Got(32, 102, 84, 97, 100)>>,
           <<Got(32, 110, 84, 100, 104), Budget!Refused>>,
           <<Got(40, 99, 79, 104, 98), Got(40, 100, 82, 100, None)>>,
           <<Got(36, 90, 80, 100, 100), Got(37, 91, 81, 101, 102)>>,
           <<Got(60, 80, 90, 90, 90), Budget!Refused>>,
           <<Budget!Refused, Budget!Refused>>}

\* A column of the four, in the order that they are scored in.
Column(family, variant, results) == [family |-> family, name |-> variant, results |-> results]
Measured ==
  {<<Column("ChromaHash", "ChromaHash@32B", ours), Column("ChromaHash", "ChromaHash@b (resized)", resized),
     Column("RawRGB565", "RawRGB565", raw), Column("WEBP", "WEBP", webp)>> :
     ours \in Ours, resized \in Resized, raw \in Rivals, webp \in Rivals}
    \cup
  {<<Column("ThumbHash", "ThumbHash", hash), Column("WEBP", "WEBP@a", webp), Column("WEBP", "WEBP@b", rival)>> :
     hash \in Rivals, webp \in Rivals, rival \in Rivals}

RowsOf(columns) ==
  SelectSeq([k \in DOMAIN columns |->
               Budget!ScoreAdapter(columns[k].family, columns[k].name, columns[k].results)],
            LAMBDA row : row # Budget!NoRow)

\* The same results as the report holds them: image by image.
EntriesOfRd(columns) ==
  [i \in 1 .. 2 |->
     LET here == SelectSeq(columns, LAMBDA c : c.results[i] # Budget!Refused) IN
     [k \in DOMAIN here |-> [name |-> here[k].name] @@ here[k].results[i]]]

BudgetPage(columns, rows, anchors) ==
  [kind |-> "budget", columns |-> columns, rows |-> rows, anchors |-> anchors,
   printed |-> Budget!SummarizeGuards(rows, anchors),
   again |-> Budget!SummarizeExisting(Budget!Stored(rows), anchors),
   reversed |-> Budget!SummarizeGuards(Reverse(rows), anchors),
   curves |-> Budget!ComputeRdCurves(EntriesOfRd(columns), columns)]

BudgetPages ==
  {BudgetPage(columns, RowsOf(columns), anchors) :
     columns \in Measured, anchors \in {<<32>>, <<32, 40, 48>>, <<24, 36>>}}
  \cup
  {[kind |-> "ladder", target |-> target, run |-> Budget!ChromaHashAt(target)] :
     target \in 1 .. 260 \cup {411, 700, 1000, 1623, 3000}}
  \cup
  {[kind |-> "lineup", asked |-> asked, jxl |-> jxl,
    names |-> Budget!Lineup(<<5, 16, 21, 24, 32, 48, 64>>, asked, jxl)] :
     asked \in {{}, {"chromahash", "jxl"}, {"webp"}}, jxl \in BOOLEAN}

Pages == ColumnPages \cup LayoutPages \cup BudgetPages

-----------------------------------------------------------------------------
\* A file at a long edge, at the least quality and, where size grows with the
\* quality, at the highest that is in the budget.
Least(column, edge) == <<column.codec, edge, 1>>
Fits(image, column, file) == MCBytes(image, file) <= column.target
Highest(image, column, edge) ==
  CHOOSE q \in 1 .. 6 : /\ Fits(image, column, <<column.codec, edge, q>>)
                        /\ \A r \in q + 1 .. 6 : ~Fits(image, column, <<column.codec, edge, r>>)

\* A column says of a picture what is true of it alone. A codec's is within its
\* bytes, or is the floor that its name says where nothing is within them, and only
\* then; no long edge had a better picture to offer, by the number that is shown;
\* its scores are all that were asked for and belong to that file, whatever the
\* search skipped and whatever the columns before it encoded. ChromaHash's declares
\* the raster of its hash and not the cap on the decode, and is not scored through
\* the resampler where it says that it renders. And the rasters that all of them
\* work on are upright, inside their caps and never enlarged (codec-thumb.ts,
\* byte-target.ts, chromahash.ts, image-loader.ts).
HashesAndCodecsAreHonest ==
  /\ page.kind = "codecs" => \A k \in DOMAIN page.columns :
       LET column == page.columns[k]
           file == page.results[k].file
           image == page.image
           rungs == Range(Col!Ladder(image, <<4, 6, 8>>))
           able == {edge \in rungs : Fits(image, column, Least(column, edge))} IN
       /\ page.results[k] = Col!CodecColumns(page.config, image, <<column>>)[1]
       /\ (file = Col!NoFile) = (able = {} /\ ~column.floorFallback)
       /\ file # Col!NoFile =>
            LET shown == page.results[k].scores[1] IN
            /\ file[1] = column.codec
            /\ IF able # {} THEN Fits(image, column, file)
               ELSE \A edge \in rungs : edge >= file[2] /\ MCBytes(image, file) <= MCBytes(image, Least(column, file[2]))
            /\ image.scene % 2 = 0 => \A edge \in able :
                 ~Col!Better(Col!RankedBy(page.config, image,
                                          <<column.codec, edge, Highest(image, column, edge)>>),
                             shown.metrics["ciede2000"])
            /\ (shown.artifacts # <<>>) = page.config.artifacts
            /\ \A m \in MCMetrics : \E picture \in {Col!Decode(image, file)} :
                 image.opaque =>
                   \E says \in {MCSays(m, Col!UpscaleRgba(picture, image.reference, page.config.policy))} :
                     shown.metrics[m][1] = (IF says = Col!Null THEN 0 ELSE shown.metrics[m][2] * says)
  /\ page.kind = "hash" =>
       LET said == page.result IN
       IF page.column.native /\ ~page.renders THEN said.scores = <<>>
       ELSE /\ said.declared = MCNatural(page.image, page.column.tier)
            /\ page.column.native =>
                 \A policy \in {"gamma", "lanczos"} :
                   said = Col!ChromaHashColumn([page.config EXCEPT !.policy = policy], page.image, page.column, TRUE)
  /\ page.kind = "rasters" =>
       \A a, b \in 1 .. 2 :
         LET original == page.loaded.original IN
         /\ page.loaded.small[a] \in 1 .. 100 /\ page.loaded.reference[a] \in 1 .. 512
         /\ page.loaded.small[a] <= page.loaded.reference[a] /\ page.loaded.reference[a] <= original[a]
         /\ original[a] <= original[b] => page.loaded.small[a] <= page.loaded.small[b]
                                          /\ page.loaded.reference[a] <= page.loaded.reference[b]

\* The control of raw pixels has as many of them as its bytes hold: no number of
\* rows that it did not come to would have had more. And a word of a pixel loses
\* nothing but the bits it has no room for, so that packing it again changes
\* nothing and black and white stay what they are (raw-pixels.ts).
ControlsAreGenerous ==
  /\ page.kind = "raw" =>
       LET size == page.image.small
           Of(m) == Col!Across(size, m) * m * 2
           fitting == {m \in 1 .. size[2] : Of(m) <= page.target} IN
       /\ (page.result = Col!NoColumn) = (fitting = {})
       /\ fitting # {} => /\ page.result.bytes <= page.target
                          /\ \A m \in fitting : Of(m) <= page.result.bytes
                          /\ page.result.declared[1] <= size[1] /\ page.result.declared[2] <= size[2]
  /\ page.kind = "pixel" => \E packed \in {Col!PackRgb565(page.rgb)} : \E back \in {Col!UnpackRgb565(packed)} :
       /\ Col!PackRgb565(back) = packed
       /\ \A c \in 1 .. 3 : /\ back[c] - page.rgb[c] \in (0 - 7) .. 7
                            /\ page.rgb[c] \in {0, 255} => back[c] = page.rgb[c]

\* What the layout tab says of a format is about that format: it is ranked on the
\* images where it declared a shape, is called shapeless only where it said that it
\* is, and is in neither list where it has no results. A star is for the least of
\* the worst jumps, and nothing that is starred jumps further on any image than
\* another does on its worst. The control that is as large as the encoder's input
\* moves the page as much as that input does, and the images that are drawn include
\* one as narrow and one as wide as any (aspect.ts, report-layout.ts).
LayoutIsTold ==
  page.kind = "layout" =>
    LET rows == page.tab.table.rows
        absent == page.tab.table.absent
        Results(name) == {[entry |-> e, intrinsic |-> r.intrinsic] :
                            e \in Range(page.entries), r \in {x \in UNION {Range(d.results) : d \in Range(page.entries)} :
                                                               x.name = name}}
        Real(name) == {x \in Results(name) : [name |-> name, intrinsic |-> x.intrinsic] \in Range(x.entry.results)}
        Jump(x) == Tab!AspectFidelity(x.intrinsic, x.entry.original).reflow IN
    /\ \A k \in DOMAIN Names :
         LET name == Names[k]
             real == Real(name) IN
         /\ (\E i \in DOMAIN rows : rows[i].name = name) = (\E x \in real : x.intrinsic # Tab!Absent)
         /\ (\E i \in DOMAIN absent : absent[i].name = name)
              = (real # {} /\ \A x \in real : x.intrinsic = Tab!Absent)
    /\ \A i, j \in DOMAIN rows :
         /\ i < j => ~Tab!LessRatio(rows[j].worst, rows[i].worst) /\ rows[i].name # rows[j].name
         /\ rows[i].winner => \A x \in Real(rows[i].name) :
              ~Tab!LessRatio(rows[j].worst, <<Tab!Magnitude(Jump(x)[1]), Jump(x)[2]>>)
    /\ rows = <<>> \/ \E i \in DOMAIN rows : rows[i].winner
    /\ \A x \in Real("raw") : x.intrinsic = x.entry.small =>
         Tab!AspectFidelity(x.intrinsic, x.entry.original) = Tab!EncoderInputFloor(x.entry)
    /\ \E drawn \in {Tab!PickDiverse(page.entries, 4)} :
         /\ Len(drawn) <= 4 /\ Len(page.tab.diagrams) <= Len(drawn) * Len(Names)
         /\ \A e \in Range(page.entries) : \E d, f \in Range(drawn) :
              ~Tab!LessRatio(e.original, d.original) /\ ~Tab!LessRatio(f.original, e.original)

\* Near an anchor is what is not nearer to another, or as near to an earlier one.
Belongs(row, anchors, k) ==
  LET Gap(j) == Budget!Apart(row.bytes, anchors[j]) IN
  /\ 5 * Gap(k)[1] <= 6 * Gap(k)[2]
  /\ \A j \in DOMAIN anchors :
       IF j < k THEN Budget!Nearer(Gap(k), Gap(j)) ELSE ~Budget!Nearer(Gap(j), Gap(k))

\* By more than one point of SSIMULACRA2, or than two parts in a hundred.
Clearly(key, a, b) ==
  /\ a # Budget!NoMean /\ b # Budget!NoMean
  /\ IF key = "ssimulacra2" THEN a[1] * b[2] > b[1] * a[2] + a[2] * b[2]
     ELSE 50 * a[1] * b[2] < 49 * b[1] * a[2]

Clean == {"sweep", "tie, guards clean"}
Tops == {"sweep", "colour only"}

\* A verdict is about what competes there: each format once, at its closest size,
\* and nothing that is scored for another budget. It is clean only if no rival that
\* was measured is better by more than the tolerance on any metric, credits a lead
\* in colour to nobody who is behind, and does not depend on the order in which
\* formats were scored except where two are equal.
VerdictIsEarned(n, k) ==
  LET near == {row \in Range(page.rows) : Belongs(row, page.anchors, k)}
      group == {row \in near : \E i \in DOMAIN n.variants : n.variants[i] = row.variant}
      Own(rows) == {row \in rows : row.family = "ChromaHash"}
      Gap(row) == Budget!Apart(row.bytes, n.anchor) IN
  /\ Cardinality(group) = Len(n.variants)
  /\ \A row \in near : \E one \in group : one.family = row.family /\ ~Budget!Nearer(Gap(row), Gap(one))
  /\ \A one, other \in group : one.family = other.family => one = other
  /\ (n.verdict = "absent") = (Own(near) = {})
  /\ \A mine \in Own(group) :
       LET rivals == group \ {mine}
           Behind(key) == \E r \in rivals : Clearly(key, r.metrics[key], mine.metrics[key]) IN
       /\ (n.verdict = "unopposed") = (rivals = {})
       /\ n.lostGuards = {key \in Budget!Guards : Behind(key)}
       /\ n.verdict \in Clean => \A key \in Budget!SummaryMetrics : ~Behind(key)
       /\ n.verdict \in Tops => \A r \in rivals :
            r.metrics["ciede2000"] = Budget!NoMean
              \/ ~Budget!Less(r.metrics["ciede2000"], mine.metrics["ciede2000"])
       /\ n.verdict = "behind" => mine.metrics["ciede2000"] = Budget!NoMean \/ Behind("ciede2000")
  /\ Budget!SummarizeGuards(SelectSeq(page.rows, LAMBDA row : row \in near), page.anchors) = <<n>>

\* What --summarize derives from a committed result is what the run printed; and
\* a curve of the report has a point for each column that has a result, with the
\* means that rd-budget has of the same results, by size.
BudgetsAreJudged ==
  /\ page.kind = "budget" =>
       /\ page.again = page.printed
       /\ \A i \in DOMAIN page.printed : \E k \in DOMAIN page.anchors :
            page.anchors[k] = page.printed[i].anchor /\ VerdictIsEarned(page.printed[i], k)
       /\ \A i \in DOMAIN page.printed :
            LET n == page.printed[i]
                m == page.reversed[i] IN
            Range(n.variants) = Range(m.variants) =>
              /\ n.lostGuards = m.lostGuards
              /\ (n.verdict = m.verdict \/ {n.verdict, m.verdict} = Clean
                   \/ {n.verdict, m.verdict} = {"colour only", "tie, loses guards"})
       /\ \A i \in DOMAIN page.rows : Cardinality({<<c, p>> \in {<<x, y>> : x \in DOMAIN page.curves, y \in 1 .. 2} :
            /\ p \in DOMAIN page.curves[c].points
            /\ page.curves[c].format = page.rows[i].family
            /\ \E point \in {page.curves[c].points[p]} :
                 /\ point.variant = page.rows[i].variant /\ point.bytes = page.rows[i].bytes
                 /\ \A key \in DOMAIN point.metrics : point.metrics[key] = page.rows[i].metrics[key]
                 /\ p = 1 \/ ~Budget!Less(point.bytes, page.curves[c].points[p - 1].bytes)}) = 1
  /\ page.kind = "ladder" =>
       /\ (page.run = <<>>) = (page.target < 7)
       /\ \A i \in DOMAIN page.run : page.run[i].tune # Budget!NotTuned =>
            \E bytes \in {Budget!BodyLenBytes(page.run[i].tune, page.run[i].tier)} :
              /\ 5 * bytes <= 6 * page.target /\ 5 * page.target <= 6 * bytes
              /\ page.run[i].tier = 1 => bytes = page.target
  /\ page.kind = "lineup" => \A i, j \in DOMAIN page.names : page.names[i] = page.names[j] => i = j

\* A report's columns, the layout tab and the budgets say what is so.
ColumnsAreHonest ==
  page # NoPage => HashesAndCodecsAreHonest /\ ControlsAreGenerous /\ LayoutIsTold /\ BudgetsAreJudged

-----------------------------------------------------------------------------
(* Processes *)

CONSTANTS p1, p2, t1, t2, t3, x1

MCOwner == [t \in Tasks |-> IF t = t3 THEN p2 ELSE p1]

\* psnr of identical images is not finite: a null that is a score.
MCAlways == {"ciede2000", "psnr"}
MCRequests == {MCMetrics, MCAlways, {"dssim"}, {}}
Symmetry == Permutations({t1, t2})

MCScore == [x \in (1 .. LastBinary) \X Pairs \X MCMetrics |->
              IF x[3] = "psnr" THEN NotComputed ELSE x]

MCInit ==
  \/ Init /\ page = NoPage
  \/ /\ Init /\ pair = [t \in Tasks |-> CHOOSE x \in Pairs : TRUE] /\ want = [t \in Tasks |-> {}]
     /\ page \in Pages

MCNext == IF page = NoPage THEN Next /\ UNCHANGED page ELSE UNCHANGED <<vars, page>>
MCSpec == MCInit /\ [][MCNext]_<<vars, page>>
=============================================================================
