------------------------------ MODULE Columns -------------------------------
(***************************************************************************)
(* The two rasters of a picture that everything else works on, and how a   *)
(* decode is scored against the larger of them (image-loader.ts and        *)
(* metrics.ts). And what the columns of the report say of one picture: a   *)
(* codec that is given a number of bytes (adapters/codec-thumb.ts and      *)
(* rd/byte-target.ts), ChromaHash (adapters/chromahash.ts) and the others. *)
(*                                                                         *)
(* A decode is known by what was done to it: [scene, data, opaque, size,   *)
(* over, grown, blurred]. A score is a mean <<sum, count>> over backdrops; *)
(* with nothing counted it is null.                                        *)
(*                                                                         *)
(* The columns of a picture are computed one after the other. Those of the *)
(* codecs share what they encoded: the memo maps a key to a file, which is *)
(* known by the codec, the long edge and the quality that it is made with. *)
(***************************************************************************)
EXTENDS Integers, Sequences, FiniteSets, SequencesExt, TLC

CONSTANTS
  Metrics,          \* the fields of MetricResult
  BlurredMetrics,   \* BLURRED_METRICS
  Says(_, _),       \* what iqa-cli says of a decode by a metric: a number, or Null
  DimLadder,        \* DIM_LADDER: long edges, the smallest first
  QualityMin, QualityMax,
  Bytes(_, _),      \* the size of the file that a codec makes of a scene
  Natural(_, _)     \* the raster that a hash of a scene declares at a tier

Null == 0 - 1
Unscored == <<0, 0>>
Off == "off"

Larger(x, y) == IF x > y THEN x ELSE y

-----------------------------------------------------------------------------
(* image-loader.ts *)

EncoderCap == 100
ReferenceCap == 512

\* orientedSize: the camera was held upright, or on its side.
OrientedSize(file) ==
  IF file.orientation \in 5 .. 8 THEN <<file.height, file.width>> ELSE <<file.width, file.height>>

\* Math.round of a length at a scale that brings both edges under the cap, and
\* enlarges neither.
Scaled(edge, size, cap) ==
  LET long == Larger(size[1], size[2]) IN
  IF long <= cap THEN edge ELSE Larger(1, (2 * edge * cap + long) \div (2 * long))

Within(size, cap) == <<Scaled(size[1], size, cap), Scaled(size[2], size, cap)>>

\* loadImage; a file without dimensions is an error.
LoadImage(file) ==
  LET original == OrientedSize(file) IN
  [original |-> original, small |-> Within(original, EncoderCap),
   reference |-> Within(original, ReferenceCap)]

-----------------------------------------------------------------------------
(* metrics.ts *)

\* flattenOverBackdrop: an opaque picture stays as it is.
FlattenOverBackdrop(picture, backdrop) ==
  IF picture.opaque THEN picture ELSE [picture EXCEPT !.opaque = TRUE, !.over = backdrop]

\* upscaleRgba: nothing is resampled that has the size already.
UpscaleRgba(picture, size, policy) ==
  IF picture.size = size THEN picture ELSE [picture EXCEPT !.size = size, !.grown = policy]

BlurRgba(picture) == [picture EXCEPT !.blurred = TRUE]

\* computeIqaMetrics, for the metrics that are asked for.
IqaMetrics(picture, only) == [m \in Metrics |-> IF m \in only THEN Says(m, picture) ELSE Null]

\* meanOrNull and averageMetrics: field by field, over what is not null.
AverageMetrics(sets) ==
  [m \in Metrics |->
     LET known == {k \in DOMAIN sets : sets[k][m] # Null} IN
     <<FoldLeft(LAMBDA sum, k : sum + IF k \in known THEN sets[k][m] ELSE 0, 0,
                [k \in DOMAIN sets |-> k]),
       Cardinality(known)>>]

\* MetricOptions: everything, or what the search for a budget ranks by.
Everything == [only |-> Metrics, skipBlurred |-> FALSE, skipArtifacts |-> FALSE]

\* computeAllMetrics. The artifacts are taken over the first backdrop and of the
\* decode as it is; the rest over each of them and at the size of the reference.
ComputeAllMetrics(config, options, size, decoded) ==
  LET flat == [k \in DOMAIN config.backdrops |-> FlattenOverBackdrop(decoded, config.backdrops[k])]
      AtRef(k) == UpscaleRgba(flat[k], size, config.policy) IN
  [metrics |-> AverageMetrics([k \in DOMAIN flat |-> IqaMetrics(AtRef(k), options.only)]),
   blurred |-> IF config.blurred /\ ~options.skipBlurred
                 THEN AverageMetrics([k \in DOMAIN flat |-> IqaMetrics(BlurRgba(AtRef(k)), BlurredMetrics)])
                 ELSE [m \in Metrics |-> Unscored],
   artifacts |-> IF config.artifacts /\ ~options.skipArtifacts
                   THEN <<flat[1], config.edge>> ELSE <<>>,
   alphaMae |-> IF config.alpha THEN <<decoded>> ELSE <<>>]

-----------------------------------------------------------------------------
(* Columns: encoding *)

NoFile == <<>>

\* Mutant: the codec is left out of the key.
CacheKeyOfAny(codec, longEdge, quality) == <<longEdge, quality>>

CacheKey(codec, longEdge, quality) == <<codec, longEdge, quality>>

\* encodeAt: the memo after it, where the file is found under its key.
EncodeAt(memo, codec, longEdge, quality) ==
  LET key == CacheKey(codec, longEdge, quality) IN
  IF key \in DOMAIN memo THEN memo ELSE memo @@ (key :> <<codec, longEdge, quality>>)

Encoded(memo, codec, longEdge, quality) == memo[CacheKey(codec, longEdge, quality)]

\* decode: the scene, its longer edge brought to that of the file; JPEG has no alpha.
Decode(image, file) ==
  [scene |-> image.scene, data |-> file, opaque |-> image.opaque \/ file[1] = "jpeg",
   size |-> Within(image.small, file[2]), over |-> Off, grown |-> Off, blurred |-> FALSE]

-----------------------------------------------------------------------------
(* rd/byte-target.ts *)

\* Halving until the qualities that fit and those that do not are neighbours.
Probed(image, codec, longEdge, target, s, memo, quality) ==
  IF Bytes(image, Encoded(memo, codec, longEdge, quality)) <= target
    THEN [s EXCEPT !.lo = quality, !.memo = memo]
    ELSE [s EXCEPT !.hi = quality, !.memo = memo]

Halve(image, codec, longEdge, target, s) ==
  IF s.hi - s.lo <= 1 THEN s
  ELSE LET mid == (s.lo + s.hi) \div 2 IN
       Probed(image, codec, longEdge, target, s, EncodeAt(s.memo, codec, longEdge, mid), mid)

Search(image, memo, codec, longEdge, target) ==
  FoldLeft(LAMBDA s, i : Halve(image, codec, longEdge, target, s),
           [lo |-> QualityMin, hi |-> QualityMax, memo |-> memo], [i \in 1 .. QualityMax |-> i])

At(s, codec, longEdge, quality) ==
  [file |-> Encoded(s, codec, longEdge, quality), memo |-> s]

\* maxQualityWithinBudget: [file, memo].
MaxQualityWithinBudget(image, memo, codec, longEdge, target) ==
  LET Fits(m, q) == Bytes(image, Encoded(m, codec, longEdge, q)) <= target
      Between(s) == At(s.memo, codec, longEdge, s.lo)
      AtMax(m) == IF Fits(m, QualityMax) THEN At(m, codec, longEdge, QualityMax)
                  ELSE Between(Search(image, m, codec, longEdge, target))
      AtMin(m) == IF ~Fits(m, QualityMin) THEN [file |-> NoFile, memo |-> m]
                  ELSE AtMax(EncodeAt(m, codec, longEdge, QualityMax)) IN
  AtMin(EncodeAt(memo, codec, longEdge, QualityMin))

\* RANKING_METRICS, and what is skipped beside them.
Ranking == [only |-> {"ciede2000"}, skipBlurred |-> TRUE, skipArtifacts |-> TRUE]

RankedBy(config, image, file) ==
  ComputeAllMetrics(config, Ranking, image.reference, Decode(image, file)).metrics["ciede2000"]

\* betterCiede
Better(a, b) == a # Unscored /\ (b # Unscored => a[1] * b[2] < b[1] * a[2])

Ladder(image, rungs) ==
  LET long == Larger(image.small[1], image.small[2])
      below == SelectSeq(rungs, LAMBDA d : d <= long) IN
  IF below = <<>> THEN <<long>> ELSE below

Best(best, fit, ciede) ==
  IF best.file = NoFile \/ Better(ciede, best.ciede)
    THEN [file |-> fit.file, memo |-> fit.memo, ciede |-> ciede]
    ELSE [best EXCEPT !.memo = fit.memo]

Rung(config, image, best, fit) ==
  IF fit.file = NoFile THEN [best EXCEPT !.memo = fit.memo]
  ELSE Best(best, fit, RankedBy(config, image, fit.file))

\* findCodecVariantForBudget: the first of the best, [file, memo, ciede].
FindCodecVariant(config, image, memo, codec, target, rungs) ==
  FoldLeft(LAMBDA best, longEdge :
             Rung(config, image, best,
                  MaxQualityWithinBudget(image, best.memo, codec, longEdge, target)),
           [file |-> NoFile, memo |-> memo, ciede |-> Unscored], Ladder(image, rungs))

-----------------------------------------------------------------------------
(* adapters/codec-thumb.ts: a column is [codec, target, floorFallback] *)

FloorEdge(image) == Head(Ladder(image, <<4>>))

AtFloor(config, image, memo, codec) ==
  FindCodecVariant(config, image, memo, codec,
                   Bytes(image, Encoded(memo, codec, FloorEdge(image), QualityMin)), <<FloorEdge(image)>>)

\* Without a fallback the floor is encoded for the message of the error.
Floored(config, image, column, found) ==
  LET memo == EncodeAt(found.memo, column.codec, FloorEdge(image), QualityMin) IN
  IF found.file # NoFile THEN found
  ELSE IF column.floorFallback THEN AtFloor(config, image, memo, column.codec)
  ELSE [found EXCEPT !.memo = memo]

\* process: the picture that won is scored again, with everything.
Published(config, image, done, chosen) ==
  [memo |-> chosen.memo,
   results |-> Append(done.results,
     [file |-> chosen.file,
      scores |-> IF chosen.file = NoFile THEN <<>>
                 ELSE <<ComputeAllMetrics(config, Everything, image.reference,
                                          Decode(image, chosen.file))>>])]

\* The codecs' columns of a picture, in their order.
CodecColumns(config, image, columns) ==
  FoldLeft(LAMBDA done, column :
             Published(config, image, done,
               Floored(config, image, column,
                 FindCodecVariant(config, image, done.memo, column.codec, column.target, DimLadder))),
           [memo |-> <<>>, results |-> <<>>], columns).results

-----------------------------------------------------------------------------
(* adapters/chromahash.ts: a column is [tier, capToSource, native] *)

\* decodeViaRust and decode_capped_to_with: each axis under its cap.
DecodedSize(image, column, capped) ==
  LET natural == Natural(image, column.tier) IN
  IF capped THEN [a \in 1 .. 2 |-> IF natural[a] < image.small[a] THEN natural[a] ELSE image.small[a]]
  ELSE natural

\* Whether the cap may have bound, so that the declared size is another decode's.
CappedOut(image, column, size) ==
  column.native \/ (column.capToSource /\ (size[1] >= image.small[1] \/ size[2] >= image.small[2]))

Refused == [declared |-> <<0, 0>>, scores |-> <<>>]

\* process: a binary that cannot render is an error, not another row's numbers.
ChromaHashColumn(config, image, column, supportsRender) ==
  LET size == IF column.native THEN image.reference ELSE DecodedSize(image, column, column.capToSource)
      picture == [scene |-> image.scene, data |-> <<"chromahash", column.tier>>, opaque |-> image.opaque,
                  size |-> size, over |-> Off, grown |-> Off, blurred |-> FALSE] IN
  IF column.native /\ ~supportsRender THEN Refused
  ELSE [declared |-> IF CappedOut(image, column, size) THEN DecodedSize(image, column, FALSE) ELSE size,
        scores |-> <<ComputeAllMetrics(config, Everything, image.reference, picture)>>]
-----------------------------------------------------------------------------
(* adapters/raw-pixels.ts: a column is its number of bytes *)

BytesPerPixel == 2

\* Columns of a grid of so many rows: Math.round(m * aspect), inside the source.
Across(size, m) ==
  LET n == Larger(1, (2 * m * size[1] + size[2]) \div (2 * size[2])) IN
  IF n < size[1] THEN n ELSE size[1]

\* Mutant: a grid that is as large as the budget is too large.
ChooseGridBelow(size, target) ==
  LET Pixels(m) == Across(size, m) * m
      fitting == {m \in 1 .. size[2] : \A k \in 1 .. m : BytesPerPixel * Pixels(k) < target} IN
  IF fitting = {} THEN NoFile
  ELSE LET m == CHOOSE m \in fitting : \A k \in fitting : Pixels(k) <= Pixels(m) IN <<Across(size, m), m>>

\* chooseGrid: the rows are tried from one on, until a grid is too large.
ChooseGrid(size, target) ==
  LET Pixels(m) == Across(size, m) * m
      fitting == {m \in 1 .. size[2] : \A k \in 1 .. m : BytesPerPixel * Pixels(k) <= target} IN
  IF fitting = {} THEN NoFile
  ELSE LET m == CHOOSE m \in fitting : \A k \in fitting : Pixels(k) < Pixels(m) \/ (Pixels(k) = Pixels(m) /\ m <= k) IN
       <<Across(size, m), m>>

\* packRgb565 and unpackRgb565, of one pixel; the bits are repeated below.
PackRgb565(rgb) ==
  LET word == (rgb[1] \div 8) * 2048 + (rgb[2] \div 4) * 32 + rgb[3] \div 8 IN <<word \div 256, word % 256>>
UnpackRgb565(packed) ==
  LET word == packed[1] * 256 + packed[2]
      Five(x) == x * 8 + x \div 4 IN
  <<Five(word \div 2048), (word \div 32 % 64) * 4 + (word \div 32 % 64) \div 16, Five(word % 32)>>

NoColumn == <<>>

\* process: a result, or none where not a row of pixels is within the bytes.
RawColumn(config, image, target) ==
  LET grid == ChooseGrid(image.small, target)
      flat == [scene |-> image.scene, data |-> <<"raw">> \o grid, opaque |-> TRUE, size |-> grid,
               over |-> IF image.opaque THEN Off ELSE "white", grown |-> Off, blurred |-> FALSE] IN
  IF grid = NoFile THEN NoColumn
  ELSE [bytes |-> BytesPerPixel * grid[1] * grid[2], declared |-> grid,
        scores |-> ComputeAllMetrics(config, Everything, image.reference, flat)]

-----------------------------------------------------------------------------
(* adapters/blurhash.ts, thumbhash.ts, lqip-modern.ts and unpic.ts *)

Absent == <<>>
RasterLongEdge == 64

\* The raster of a stack of gradients has the shape of the source, small or large.
Rasterized(size) ==
  LET long == Larger(size[1], size[2])
      Edge(a) == Larger(1, (2 * size[a] * RasterLongEdge + long) \div (2 * long)) IN
  <<Edge(1), Edge(2)>>

\* The size that a decode is asked for, where the payload carries none.
AskedFor(image) == [BlurHash |-> <<32, 32>>, unpic |-> Rasterized(image.small)]

\* A payload of its own size declares it, and the others declare nothing.
LibraryColumn(config, image, family, own) ==
  LET asked == AskedFor(image)
      opaque == image.opaque \/ family \in DOMAIN asked
      size == IF family \in DOMAIN asked THEN asked[family] ELSE own IN
  [declared |-> IF family \in DOMAIN asked THEN Absent ELSE own,
   size |-> size,
   scores |-> ComputeAllMetrics(config, Everything, image.reference,
                [scene |-> image.scene, data |-> <<family>>, opaque |-> opaque, size |-> size,
                 over |-> IF family = "unpic" THEN "white" ELSE Off, grown |-> Off, blurred |-> FALSE])]
=============================================================================
