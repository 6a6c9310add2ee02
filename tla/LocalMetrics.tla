---------------------------- MODULE LocalMetrics ----------------------------
(***************************************************************************)
(* tools/comparison/src/metrics: the metrics that the harness computes     *)
(* itself. Ringing is what of a decode lies outside the range that the     *)
(* reference has nearby (local.ts). Spurious detail is what a decode has   *)
(* at a frequency where the reference has less, and the deficit is the     *)
(* reverse (spurious.ts).                                                  *)
(*                                                                         *)
(* A plane is one channel, a sequence of rows of whole levels: every score *)
(* is a sum over the channels of what is defined here of one. A sum of     *)
(* squares is not taken: what matters is which of its terms is not zero.   *)
(***************************************************************************)
EXTENDS Statistics

CONSTANTS
  Basis,      \* Basis[n]: the n cosines of n samples, in parts of BasisUnit
  BasisUnit

Width(plane) == Len(plane[1])
Height(plane) == Len(plane)
Transposed(plane) == [x \in 1 .. Width(plane) |-> [y \in 1 .. Height(plane) |-> plane[y][x]]]
RoundedDiv(a, b) == (2 * a + b) \div (2 * b)

-----------------------------------------------------------------------------
(* Ringing *)

WindowSamples == 2    \* the radius of a window, in decoded samples
DeadZone == 1
BiasFactor == 4

\* Mutant: no window is wider than a few pixels, however few the decoded samples are.
RadiusCapped(refW, refH, decW, decH) == 1

\* A window holds all that a decoded sample may have averaged; only the image bounds it.
WindowRadius(refW, refH, decW, decH) ==
  LET Reach(ref, dec) == (WindowSamples * ref + dec - 1) \div dec IN
  Greatest(1, Least(Greatest(Reach(refW, decW), Reach(refH, decH)), Greatest(refW, refH)))

Beats(a, b, extreme) == a = b \/ (a < b <=> extreme = "min")

\* The next index goes to the end of the deque, when those there that it beats have gone.
Pushed(deque, line, j, extreme) ==
  IF j > Len(line) THEN deque
  ELSE {k \in deque : \E l \in deque : l >= k /\ ~Beats(line[j], line[l], extreme)} \cup {j}

\* slidingMin1D and slidingMax1D: the deque, by the indices in it, loses its head to
\* the window that moves on; what is read of it is its head.
Sliding(line, r, extreme) ==
  LET deque[j \in 0 .. Len(line) + r] ==
        IF j = 0 THEN {} ELSE {k \in Pushed(deque[j - 1], line, j, extreme) : k >= j - 2 * r} IN
  [i \in 1 .. Len(line) |-> line[Min(deque[i + r])]]

\* The least and the greatest of every window, along the rows and then the columns.
Envelope(plane, r) ==
  LET Both(extreme) ==
        LET rows == [y \in 1 .. Height(plane) |-> Sliding(plane[y], r, extreme)] IN
        Transposed([x \in 1 .. Width(plane) |-> Sliding(Transposed(rows)[x], r, extreme)]) IN
  [min |-> Both("min"), max |-> Both("max")]

\* The decoded sample that each pixel of the reference shows.
NearestPlane(dec, refW, refH) ==
  LET At(i, samples, pixels) == 1 + Least(samples - 1, ((2 * i - 1) * samples) \div (2 * pixels)) IN
  [y \in 1 .. refH |-> [x \in 1 .. refW |-> dec[At(y, Height(dec), refH)][At(x, Width(dec), refW)]]]

\* The sum and the size of the window about a pixel.
BoxMean(plane, r) ==
  LET Lo(i) == Greatest(1, i - r)
      Hi(i, n) == Least(n, i + r) IN
  [y \in 1 .. Height(plane) |-> [x \in 1 .. Width(plane) |->
     [sum  |-> Sum([j \in 1 .. Hi(y, Height(plane)) - Lo(y) + 1 |->
                      Sum(SubSeq(plane[Lo(y) + j - 1], Lo(x), Hi(x, Width(plane))))]),
      size |-> (Hi(y, Height(plane)) - Lo(y) + 1) * (Hi(x, Width(plane)) - Lo(x) + 1)]]]

\* computeRinging: size times how far each pixel lies outside the reference's
\* local range, both as it is and less the error that is smooth about it.
Excursions(ref, dec) ==
  LET r == WindowRadius(Width(ref), Height(ref), Width(dec), Height(dec))
      shown == NearestPlane(dec, Width(ref), Height(ref))
      local == Envelope(ref, r)
      bias == BoxMean([y \in DOMAIN ref |-> [x \in DOMAIN ref[y] |-> shown[y][x] - ref[y][x]]],
                      BiasFactor * r) IN
  [y \in DOMAIN ref |-> [x \in DOMAIN ref[y] |->
     LET smooth == bias[y][x].sum
         size == bias[y][x].size
         over == size * (shown[y][x] - local.max[y][x] - DeadZone)
         under == size * (local.min[y][x] - shown[y][x] - DeadZone) IN
     IF Least(over, over - smooth) > 0 THEN Least(over, over - smooth)
     ELSE Greatest(0, Least(under, under + smooth))]]

-----------------------------------------------------------------------------
(* Spurious detail *)

\* The pixels that a grid's sample averages, of n samples over m pixels.
Box(i, n, m) ==
  LET lo == ((i - 1) * m) \div n IN lo + 1 .. Greatest(lo + 1, (i * m) \div n)

AreaPlane(plane, w, h) ==
  IF w = Width(plane) /\ h = Height(plane) THEN plane
  ELSE [y \in 1 .. h |-> [x \in 1 .. w |->
          LET box == Box(y, h, Height(plane)) \X Box(x, w, Width(plane)) IN
          RoundedDiv(FoldSet(LAMBDA p, sum : sum + plane[p[1]][p[2]], 0, box), Cardinality(box))]]

\* Mutant: each axis is capped by itself.
GridByAxis(decW, decH, refW, refH, maxEdge) ==
  [w |-> Least(decW, Least(maxEdge, refW)), h |-> Least(decH, Least(maxEdge, refH))]

\* The decode's raster, no longer than maxEdge and no finer than the reference.
AnalysisGrid(decW, decH, refW, refH, maxEdge) ==
  LET factors == {<<maxEdge, Greatest(decW, decH)>>, <<refW, decW>>, <<refH, decH>>}
      k == CHOOSE f \in factors : \A g \in factors : f[1] * g[2] <= g[1] * f[2]
      Down(n) == Greatest(1, RoundedDiv(n * k[1], k[2])) IN
  IF k[1] >= k[2] THEN [w |-> decW, h |-> decH] ELSE [w |-> Down(decW), h |-> Down(decH)]

\* The coefficients of a plane, in parts of BasisUnit squared; rows, then columns.
Dct2(plane) ==
  LET Along(line) ==
        [k \in DOMAIN line |-> Sum([i \in DOMAIN line |-> line[i] * Basis[Len(line)][k][i]])]
      rows == Transposed([y \in DOMAIN plane |-> Along(plane[y])]) IN
  Transposed([x \in DOMAIN rows |-> Along(rows[x])])

\* The reference goes to the grid the way the decode does, where the decode is a low-pass.
IdealPlane(ref, decW, decH, w, h) ==
  IF decW <= Width(ref) /\ decH <= Height(ref) /\ (w # decW \/ h # decH)
    THEN AreaPlane(AreaPlane(ref, decW, decH), w, h)
    ELSE AreaPlane(ref, w, h)

Magnitude(n) == IF n < 0 THEN 0 - n ELSE n

\* The orientation of a frequency: which third of a quarter turn it lies in.
Band(k, l, w, h) ==
  LET across == (l * w) * (l * w)
      along == (k * h) * (k * h) IN
  IF 3 * across < along THEN "vertical" ELSE IF across > 3 * along THEN "horizontal" ELSE "diagonal"

\* computeSpurious: the excess and the deficit of every frequency but the mean's,
\* or Null where there is no other.
Spectrum(ref, dec, maxEdge) ==
  LET grid == AnalysisGrid(Width(dec), Height(dec), Width(ref), Height(ref), maxEdge)
      has == Dct2(AreaPlane(dec, grid.w, grid.h))
      ideal == Dct2(IdealPlane(ref, Width(dec), Height(dec), grid.w, grid.h))
      zone == BasisUnit * BasisUnit IN
  IF grid.w * grid.h < 2 THEN Null
  ELSE [f \in (0 .. grid.w - 1) \X (0 .. grid.h - 1) \ {<<0, 0>>} |->
          LET d == Magnitude(has[f[2] + 1][f[1] + 1])
              i == Magnitude(ideal[f[2] + 1][f[1] + 1]) IN
          [spurious |-> Greatest(0, d - i - zone), deficit |-> Greatest(0, i - d - zone),
           band     |-> Band(f[1], f[2], grid.w, grid.h)]]
=============================================================================
