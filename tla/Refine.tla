------------------------------- MODULE Refine -------------------------------
(***************************************************************************)
(* rust/src/encode.rs: from the channels of an image to the codes of its   *)
(* hash. The DC, scale and AC codes of L, a and b are quantised and then   *)
(* refined by coordinate descent on the decoded pixels: a pass tries every *)
(* scale code, every DC code and every AC code in turn, one action each.   *)
(*                                                                         *)
(* Numbers are integers on a grid of a few pixels, so that "the same       *)
(* reconstruction" is equality; the rounding of f64 is not modelled. The   *)
(* cosines of a frequency are a constant, Basis, the companded levels a    *)
(* table, Deq, and the colour conversion a sum that couples the channels   *)
(* and is clipped like the real one. As shipped, gain_at and the synthesis *)
(* window are 1, the deadzone is off and ac_nearest is on. Coefficients    *)
(* have one width, and there is no chroma from luma: it disables the       *)
(* refinement. Pixels are scored on the encoder's grid (refine_grid 0).    *)
(***************************************************************************)
EXTENDS Integers, Sequences, FiniteSetsExt

CONSTANTS
  Height, Width, \* the grid of pixels
  Freqs,         \* frequencies
  Basis,         \* their value at each pixel
  Sel,           \* the frequencies selected for each channel, in order
  Live,          \* those the encoder input can represent
  MaxIdx,        \* largest AC code, 2^bits - 2
  Deq,           \* the companded level of each AC code
  ScaleMax,      \* largest scale code
  ScaleStep,     \* linear grid of the scale codes
  ScaleGrid,     \* the grid the decoder reads them on, dequantize_scale
  DcMax,         \* largest DC code, 127
  DcStep,        \* and what one code stands for
  RefineDelta, RefinePasses,
  Inputs         \* images and options of encode_with

Channels == {"l", "a", "b"}
Order == <<"l", "a", "b">>
Pixels == (1 .. Height) \X (1 .. Width)
White == DcMax * DcStep
DcCentre == (DcMax + 1) \div 2
Zero == MaxIdx \div 2
Top == Deq[MaxIdx]

ASSUME GridAssumption ==
  /\ Height \in Nat \ {0} /\ Width \in Nat \ {0}
  /\ Basis \in [Freqs -> [Pixels -> Int]]
  /\ Sel \in [Channels -> Seq(Freqs)]
  /\ Live \subseteq Freqs
ASSUME CodeAssumption ==
  /\ MaxIdx \in Nat \ {0} /\ MaxIdx % 2 = 0
  /\ Deq \in [0 .. MaxIdx -> Int] /\ Deq[Zero] = 0
  /\ \A q, r \in 0 .. MaxIdx : q < r => Deq[q] < Deq[r]
  /\ ScaleMax \in Nat \ {0} /\ ScaleStep \in Nat \ {0}
  /\ DcMax \in Nat \ {0} /\ DcMax % 2 = 1 /\ DcStep \in Nat \ {0}
  /\ RefineDelta \in Nat \ {0} /\ RefinePasses \in Nat \ {0}

\* As shipped (scale_mu = 0), the search and the decoder read scales on one grid.
ASSUME ScaleAssumption == ScaleGrid = [q \in 0 .. ScaleMax |-> q * ScaleStep]

\* An image: the mean of each channel, its coefficients at the selected
\* frequencies, none at a dead one (dct.rs), and the rest of its pixels. And the
\* options that matter here.
ASSUME InputAssumption ==
  \A x \in Inputs :
    /\ x.mean \in [Channels -> Int]
    /\ \A c \in Channels :
         /\ x.values[c] \in Seq(Int) /\ Len(x.values[c]) = Len(Sel[c])
         /\ \A i \in 1 .. Len(Sel[c]) : Sel[c][i] \notin Live => x.values[c][i] = 0
    /\ x.rest \in [Channels -> [Pixels -> Int]]
    /\ x.scaleFit \in 0 .. 2
    /\ {x.dcSearch, x.shared, x.clips, x.earlyExit, x.refineDc, x.refineScale}
         \subseteq BOOLEAN

VARIABLES
  in,         \* the image and the options
  target,     \* its pixels as the objective sees them
  dc, scl,    \* DC and scale codes
  codes,      \* AC codes, in selection order
  recon,      \* the pixels of each channel that the codes stand for
  best,       \* the error of recon
  pass,       \* the pass under way, and the error when it started
  passStart,
  at,         \* the next coordinate of the pass
  done

vars == <<in, target, dc, scl, codes, recon, best, pass, passStart, at, done>>

-----------------------------------------------------------------------------
(* Values of codes. *)

Clamp(x, lo, hi) == IF x < lo THEN lo ELSE IF x > hi THEN hi ELSE x
Abs(x) == IF x < 0 THEN -x ELSE x
Sq(x) == x * x
RoundTo(x, step) == (2 * x + step) \div (2 * step)

dc_val(c, q) == IF c = "l" THEN q * DcStep ELSE (q - DcCentre) * DcStep

dc_lo(c) == IF c = "l" THEN 0 ELSE 1

\* The scale the search scores with.
scale_val(q) == q * ScaleStep

ac_val(q, scale) == Deq[q] * scale

\* The scale code that the decoder reads for a channel: with b_scale_from_a
\* the field of b is not in the hash.
ScaleField(x, s, c) == IF x.shared /\ c = "b" THEN s["a"] ELSE s[c]

\* f[1] + ... + f[n].
Total(f, n) == LET s[k \in 0 .. n] == IF k = 0 THEN 0 ELSE s[k - 1] + f[k] IN s[n]

\* A sum of selected frequencies.
Sum(c, val) ==
  [p \in Pixels |-> Total([i \in 1 .. Len(val) |-> val[i] * Basis[Sel[c][i]][p]], Len(val))]

\* What the decoder makes of the codes of a channel.
Decode(c) ==
  LET scale == ScaleGrid[ScaleField(in, scl, c)]
      ac == Sum(c, [i \in 1 .. Len(codes[c]) |-> ac_val(codes[c][i], scale)])
  IN [p \in Pixels |-> dc_val(c, dc[c]) + ac[p]]

-----------------------------------------------------------------------------
(* The objective. *)

\* L is clamped, the channels are mixed and each mix is clipped.
map(clips, l, a, b) ==
  LET rgb == LET y == IF clips THEN Clamp(l, 0, White) ELSE l
             IN <<y + a, y - a, y - b>>
  IN IF clips THEN [k \in 1 .. 3 |-> Clamp(rgb[k], 0, White)] ELSE rgb

Distance(m, t) == Sq(m[1] - t[1]) + Sq(m[2] - t[2]) + Sq(m[3] - t[3])

Source(x, c) ==
  LET ac == Sum(c, x.values[c]) IN [p \in Pixels |-> x.mean[c] + ac[p] + x.rest[c][p]]

MapPixel(x, r, p) == map(x.clips, r["l"][p], r["a"][p], r["b"][p])

Target(x) ==
  LET s == [c \in Channels |-> Source(x, c)] IN [p \in Pixels |-> MapPixel(x, s, p)]

\* Rows are summed one after the other.
RowSse(r, y) ==
  Total([x \in 1 .. Width |-> Distance(MapPixel(in, r, <<y, x>>), target[<<y, x>>])], Width)
SseOfRows(r, n) == Total([y \in 1 .. n |-> RowSse(r, y)], n)

sse(r) == SseOfRows(r, Height)

add_basis(dst, f, d) == [p \in Pixels |-> dst[p] + d * Basis[f][p]]

\* Mutant: the sum is abandoned one short of the bound.
StopsShort(sum, bound) == sum >= bound - 1

\* The sum is abandoned after the first row where it has reached the bound.
Stops(sum, bound) == sum >= bound

Score(r, early, bound) ==
  LET rows == {n \in 1 .. Height : early /\ Stops(SseOfRows(r, n), bound)}
  IN SseOfRows(r, IF rows # {} THEN Min(rows) ELSE Height)

-----------------------------------------------------------------------------
(* Quantisation, before the refinement. An amplitude stands for the level  *)
(* Top, a scale for the level 1.                                           *)

\* The code whose level is nearest, the lower of two, the exact zero at no
\* amplitude.
quantize_one(v, amp) ==
  IF amp = 0 THEN Zero
  ELSE LET err(q) == Abs(Deq[q] * amp - v * Top)
       IN CHOOSE q \in 0 .. MaxIdx : \A r \in 0 .. MaxIdx :
            err(q) < err(r) \/ (err(q) = err(r) /\ q <= r)

quantize_all(v, amp) == [i \in 1 .. Len(v) |-> quantize_one(v[i], amp)]

quantize_scale(raw) ==
  CHOOSE q \in 0 .. ScaleMax : \A r \in 0 .. ScaleMax :
    LET err(s) == Abs(ScaleGrid[s] * Top - raw)
    IN err(q) < err(r) \/ (err(q) = err(r) /\ q >= r)

channel_sse(v, s) ==
  LET q == quantize_all(v, s * Top)
  IN Total([i \in 1 .. Len(v) |-> Sq(ac_val(q[i], s) - v[i])], Len(v))

\* The scale code and the AC codes of a channel: normalised by the largest
\* coefficient, by the scale the decoder will use, or by the best of all.
quantize_ac_channel(v, fit) ==
  LET raw == Max({0} \cup {Abs(v[i]) : i \in 1 .. Len(v)})
      nominal == quantize_scale(raw)
      sseAt(s) == channel_sse(v, ScaleGrid[s])
      fitted == IF raw = 0 THEN 0
                ELSE CHOOSE s \in 1 .. ScaleMax : \A r \in 1 .. ScaleMax :
                       sseAt(s) < sseAt(r) \/ (sseAt(s) = sseAt(r) /\ s <= r)
      code == IF fit = 2 THEN fitted ELSE nominal
      amp == IF fit = 0 THEN raw ELSE ScaleGrid[code] * Top
  IN [scl |-> code, codes |-> quantize_all(v, amp)]

\* The codes of all channels: b may have to do with the scale of a.
Quantized(x) ==
  [c \in Channels |->
     LET a == quantize_ac_channel(x.values["a"], x.scaleFit)
     IN IF x.shared /\ c = "b"
        THEN [scl |-> a.scl,
              codes |-> quantize_all(x.values["b"], ScaleGrid[a.scl] * Top)]
        ELSE quantize_ac_channel(x.values[c], x.scaleFit)]

Flat(q) == [c \in Channels |-> dc_val(c, q[c])]

FlatError(x, q) ==
  LET shown(v) == map(TRUE, v["l"], v["a"], v["b"])
  IN Distance(shown(Flat(q)), shown(x.mean))

NominalDc(x) ==
  [c \in Channels |->
     LET zero == IF c = "l" THEN 0 ELSE DcCentre
     IN Clamp(RoundTo(x.mean[c] + zero * DcStep, DcStep), dc_lo(c), DcMax)]

\* The DC codes next to the nominal ones that decode to the nearest flat
\* colour. Which of two that are as near is left open.
DcChoices(x) ==
  LET near == {q \in [Channels -> 0 .. DcMax] : \A c \in Channels :
                 q[c] \in {Clamp(NominalDc(x)[c] + d, dc_lo(c), DcMax) : d \in -1 .. 1}}
  IN IF x.dcSearch
     THEN {q \in near : \A r \in near : FlatError(x, q) <= FlatError(x, r)}
     ELSE {NominalDc(x)}

-----------------------------------------------------------------------------
(* The refinement. *)

Alive(c, i) == Sel[c][i] \in Live

\* What the search takes the codes of a channel for: dead ones count nothing.
build(c, q, s, cc) ==
  LET ac == Sum(c, [i \in 1 .. Len(cc) |->
                      IF Alive(c, i) THEN ac_val(cc[i], scale_val(s)) ELSE 0])
  IN [p \in Pixels |-> dc_val(c, q) + ac[p]]

\* The coordinates of a pass, in the order they are tried.
Coordinates(x) ==
  LET each(kind) == [k \in 1 .. 3 |-> [kind |-> kind, c |-> Order[k], i |-> 0]]
      ac(c) == [i \in 1 .. Len(Sel[c]) |-> [kind |-> "ac", c |-> c, i |-> i]]
  IN (IF x.refineScale /\ ~x.shared THEN each("scale") ELSE <<>>)
       \o (IF x.refineDc THEN each("dc") ELSE <<>>)
       \o ac("l") \o ac("a") \o ac("b")

\* The code of a coordinate.
Present(k) ==
  CASE k.kind = "scale" -> scl[k.c] [] k.kind = "dc" -> dc[k.c] [] k.kind = "ac" -> codes[k.c][k.i]

\* Codes next to cur, in the order they are tried.
Near(cur, offsets, lo, hi) == [k \in 1 .. Len(offsets) |-> Clamp(cur + offsets[k], lo, hi)]

AcOffsets == [k \in 1 .. 2 * RefineDelta |->
                IF k % 2 = 1 THEN -((k + 1) \div 2) ELSE k \div 2]

\* A dead frequency is passed over.
Candidates(k) ==
  CASE k.kind = "scale" -> Near(Present(k), <<-2, -1, 1, 2>>, 0, ScaleMax)
    [] k.kind = "dc" -> Near(Present(k), <<-1, 1>>, dc_lo(k.c), DcMax)
    [] k.kind = "ac" -> IF Alive(k.c, k.i) THEN Near(Present(k), AcOffsets, 0, MaxIdx) ELSE <<>>

\* A new scale comes with new AC codes.
Requantized(c, s) == quantize_all(in.values[c], scale_val(s) * Top)

\* The reconstruction of a channel with one coordinate changed: built anew
\* for a scale code, by the difference for the others.
Changed(k, q) ==
  CASE k.kind = "scale" -> build(k.c, dc[k.c], q, Requantized(k.c, q))
    [] k.kind = "dc" ->
         LET d == dc_val(k.c, q) - dc_val(k.c, dc[k.c])
         IN [p \in Pixels |-> recon[k.c][p] + d]
    [] k.kind = "ac" ->
         LET s == scale_val(scl[k.c])
         IN add_basis(recon[k.c], Sel[k.c][k.i],
                      ac_val(q, s) - ac_val(codes[k.c][k.i], s))

Wins(e, err) == e < err

\* The best candidate of a coordinate and its error, the present code if none
\* is better. The scale codes are always scored in full. chosen[n] is what is
\* left after n of the candidates.
Pick(k, early) ==
  LET codesTried == Candidates(k)
      chosen[n \in 0 .. Len(codesTried)] ==
        IF n = 0 THEN [moved |-> FALSE, code |-> Present(k), err |-> best]
        ELSE LET acc == chosen[n - 1]
                 q == codesTried[n]
                 e == Score([recon EXCEPT ![k.c] = Changed(k, q)],
                            early /\ k.kind # "scale", acc.err)
             IN IF q # Present(k) /\ Wins(e, acc.err)
                  THEN [moved |-> TRUE, code |-> q, err |-> e] ELSE acc
  IN chosen[Len(codesTried)]

Plan == Coordinates(in)
Here == Plan[at]

Init ==
  /\ in \in Inputs
  /\ target = Target(in)
  /\ dc \in DcChoices(in)
  /\ scl = [c \in Channels |-> Quantized(in)[c].scl]
  /\ codes = [c \in Channels |-> Quantized(in)[c].codes]
  /\ recon = [c \in Channels |-> build(c, dc[c], scl[c], codes[c])]
  /\ best = sse(recon)
  /\ pass = 1
  /\ passStart = best
  /\ at = 1
  /\ done = FALSE

Turn(kind) == ~done /\ at <= Len(Plan) /\ Here.kind = kind
Accept(pick) ==
  /\ recon' = [recon EXCEPT ![Here.c] = Changed(Here, pick.code)]
  /\ best' = pick.err

\* Mutant: the AC codes stay those of the old scale.
ScaleMoveAlone ==
  /\ Turn("scale")
  /\ LET pick == Pick(Here, in.earlyExit)
     IN /\ pick.moved
        /\ scl' = [scl EXCEPT ![Here.c] = pick.code]
        /\ Accept(pick)
  /\ at' = at + 1
  /\ UNCHANGED <<in, target, dc, codes, pass, passStart, done>>

ScaleMove ==
  /\ Turn("scale")
  /\ LET pick == Pick(Here, in.earlyExit)
     IN /\ pick.moved
        /\ scl' = [scl EXCEPT ![Here.c] = pick.code]
        /\ codes' = [codes EXCEPT ![Here.c] = Requantized(Here.c, pick.code)]
        /\ Accept(pick)
  /\ at' = at + 1
  /\ UNCHANGED <<in, target, dc, pass, passStart, done>>

DcMove ==
  /\ Turn("dc")
  /\ LET pick == Pick(Here, in.earlyExit)
     IN /\ pick.moved
        /\ dc' = [dc EXCEPT ![Here.c] = pick.code]
        /\ Accept(pick)
  /\ at' = at + 1
  /\ UNCHANGED <<in, target, scl, codes, pass, passStart, done>>

AcMove ==
  /\ Turn("ac")
  /\ LET pick == Pick(Here, in.earlyExit)
     IN /\ pick.moved
        /\ codes' = [codes EXCEPT ![Here.c][Here.i] = pick.code]
        /\ Accept(pick)
  /\ at' = at + 1
  /\ UNCHANGED <<in, target, dc, scl, pass, passStart, done>>

\* No candidate is better.
Keep ==
  /\ ~done /\ at <= Len(Plan)
  /\ ~Pick(Here, in.earlyExit).moved
  /\ at' = at + 1
  /\ UNCHANGED <<in, target, dc, scl, codes, recon, best, pass, passStart, done>>

\* Mutant: a pass that gained little is the last one.
StalledSoon == 2 * best >= passStart

Stalled == best >= passStart

NextPass ==
  /\ ~done /\ at > Len(Plan)
  /\ ~Stalled /\ pass < RefinePasses
  /\ pass' = pass + 1
  /\ passStart' = best
  /\ at' = 1
  /\ UNCHANGED <<in, target, dc, scl, codes, recon, best, done>>

Finish ==
  /\ ~done /\ at > Len(Plan)
  /\ Stalled \/ pass = RefinePasses
  /\ done' = TRUE
  /\ UNCHANGED <<in, target, dc, scl, codes, recon, best, pass, passStart, at>>

\* The codes go on to the bit writer.
Refined == done /\ UNCHANGED vars

Next == ScaleMove \/ DcMove \/ AcMove \/ Keep \/ NextPass \/ Finish \/ Refined

Spec == Init /\ [][Next]_vars

-----------------------------------------------------------------------------
(* Properties. *)

\* Every code fits its field, and chroma DC codes are never 0.
TypeOK ==
  /\ in \in Inputs /\ target \in [Pixels -> Seq(Int)]
  /\ \A c \in Channels :
       /\ dc[c] \in 0 .. DcMax /\ (c # "l" => dc[c] # 0)
       /\ scl[c] \in 0 .. ScaleMax
       /\ codes[c] \in [1 .. Len(Sel[c]) -> 0 .. MaxIdx]
  /\ recon \in [Channels -> [Pixels -> Int]]
  /\ best \in Nat
  /\ pass \in 1 .. RefinePasses /\ passStart \in Nat
  /\ at \in 1 .. Len(Plan) + 1 /\ done \in BOOLEAN

\* The search never works on a stale picture: the pixels it keeps by adding
\* differences are those a decoder of the present codes shows, frequencies that
\* the search skips and a shared scale included, and the error it compares
\* with is their error in full, not a sum that an early exit cut short. Nor does
\* that exit decide anything: at every point of a pass the choice is the same,
\* code and error, as with complete sums.
ScoredIsDecoded ==
  /\ \A c \in Channels : recon[c] = Decode(c)
  /\ best = sse(recon)
  /\ ~done /\ at <= Len(Plan) => Pick(Here, TRUE) = Pick(Here, FALSE)

\* A refinement that ends before its last pass has nothing left to gain: no
\* candidate of any coordinate is better than the codes it returns.
EndsAtOptimum ==
  done /\ pass < RefinePasses => \A k \in 1 .. Len(Plan) : ~Pick(Plan[k], FALSE).moved
=============================================================================
