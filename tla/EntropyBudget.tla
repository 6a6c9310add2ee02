--------------------------- MODULE EntropyBudget ---------------------------
(***************************************************************************)
(* tools/comparison/src/entropy-budget.ts: how many bits the coefficients  *)
(* of a layout would take in each of five codes, and which layout each     *)
(* code lets into a byte budget. The tables of a code are trained on all   *)
(* images but the one that it codes.                                       *)
(*                                                                         *)
(* An image is its codes at one layout, [l, a, b], each in the order of    *)
(* selection. The price of a symbol is the probability that a code gives   *)
(* it, as a fraction, and Bits is the length that the code makes of it.    *)
(***************************************************************************)
EXTENDS Integers, Sequences, FiniteSets, SequencesExt

CONSTANT
  Bits(_, _)    \* minus the logarithm of a fraction, rounded for the model

PrefixBits == 54
Strengths == <<1, 2, 4, 8, 16, 32, 64, 128>>     \* BACKOFF_ALPHAS, in halves

LOCAL Sum(s) == FoldLeft(LAMBDA x, y : x + y, 0, s)
LOCAL Larger(x, y) == IF x > y THEN x ELSE y

AcFixedBits(l) == l.nL * l.lBits + 2 * l.nC * l.cBits

\* alphabet: a field of so many bits has an odd number of levels.
Alphabet(bits) == 2 ^ bits - 1

-----------------------------------------------------------------------------
(* Counts *)

Groups == {"luma", "chroma"}

\* What an image has at a place of a group: one symbol, or one of each channel.
At(image, group, i) == IF group = "luma" THEN <<image.l[i]>> ELSE <<image.a[i], image.b[i]>>

Places(image, group) == IF group = "luma" THEN DOMAIN image.l ELSE DOMAIN image.a
Times(symbols, v) == Cardinality({k \in DOMAIN symbols : symbols[k] = v})

\* idxL and idxC: a table for each place.
Index(images, group, i, v) == Sum([n \in DOMAIN images |-> Times(At(images[n], group, i), v)])

\* ownL and ownC, and the pools of all images.
Own(image, group, v) ==
  Sum([i \in Places(image, group) |-> Times(At(image, group, i), v)])
Pool(images, group, v) == Sum([n \in DOMAIN images |-> Own(images[n], group, v)])

\* Leave one out: all tables less what this image gave to them.
Others(images, n, group, v) == Pool(images, group, v) - Own(images[n], group, v)
OthersTotal(images, n, group, a) ==
  Sum([v \in 1 .. a |-> Others(images, n, group, v - 1)])

\* Mutant: an image gives one symbol to a table of a place.
OthersAtOnce(images, n, group, i, v) == Larger(0, Index(images, group, i, v) - 1)

OthersAt(images, n, group, i, v) ==
  Larger(0, Index(images, group, i, v) - Times(At(images[n], group, i), v))

\* How many symbols the other images have at a place.
WidthAt(images, group) == (IF group = "luma" THEN 1 ELSE 2) * (Len(images) - 1)

-----------------------------------------------------------------------------
(* Prices *)

TablePrice(images, n, group, a, v) ==
  <<Others(images, n, group, v) + 1, OthersTotal(images, n, group, a) + a>>

ContextPrice(images, n, group, a, i, v) ==
  <<OthersAt(images, n, group, i, v) + 1, WidthAt(images, group) + a>>

\* The same table, which leans on the order-0 table with some strength.
BackoffPrice(images, n, group, a, i, v, strength) ==
  LET prior == TablePrice(images, n, group, a, v) IN
  <<2 * OthersAt(images, n, group, i, v) * prior[2] + strength * prior[1],
    prior[2] * (2 * WidthAt(images, group) + strength)>>

\* A model that starts uniform and has seen what the image coded so far.
AdaptivePrice(coded, a, v) == <<Times(coded, v) + 1, Len(coded) + a>>

\* The symbols of a group in the order in which they are coded.
Coded(image, group) == FlattenSeq([i \in Places(image, group) |-> At(image, group, i)])

-----------------------------------------------------------------------------
(* scoreLayout *)

Length(prices) == Sum([k \in DOMAIN prices |-> Bits(prices[k][1], prices[k][2])])

\* One price for each symbol, by the place where it stands.
Priced(image, group, Price(_, _)) ==
  FlattenSeq([i \in Places(image, group) |->
    [k \in DOMAIN At(image, group, i) |-> Price(i, At(image, group, i)[k])]])

OfImage(images, n, Price(_, _, _)) ==
  Length(Priced(images[n], "luma", LAMBDA i, v : Price("luma", i, v)))
    + Length(Priced(images[n], "chroma", LAMBDA i, v : Price("chroma", i, v)))

TableCost(images, n, alphabets) ==
  OfImage(images, n,
          LAMBDA group, i, v : TablePrice(images, n, group, alphabets[group], v))

ContextCost(images, n, alphabets) ==
  OfImage(images, n,
          LAMBDA group, i, v : ContextPrice(images, n, group, alphabets[group], i, v))

BackoffCost(images, n, alphabets, strength) ==
  OfImage(images, n,
          LAMBDA group, i, v : BackoffPrice(images, n, group, alphabets[group], i, v, strength))

AdaptiveCost(images, n, alphabets) ==
  Sum([g \in 1 .. 2 |->
     LET group == <<"luma", "chroma">>[g]
         coded == Coded(images[n], group) IN
     Length([k \in DOMAIN coded |->
               AdaptivePrice(SubSeq(coded, 1, k - 1), alphabets[group], coded[k])])])

Over(images, Cost(_)) == Sum([n \in DOMAIN images |-> Cost(n)])

\* The first of the strengths that cost least over all images.
BackoffChosen(images, alphabets) ==
  LET total == [k \in DOMAIN Strengths |->
                  Over(images, LAMBDA n : BackoffCost(images, n, alphabets, Strengths[k]))] IN
  CHOOSE k \in DOMAIN Strengths :
    /\ \A j \in DOMAIN Strengths : total[k] <= total[j]
    /\ \A j \in 1 .. k - 1 : total[k] < total[j]

\* What each code needs for the coefficients of all images together.
ScoreLayout(images, alphabets) ==
  LET best == Strengths[BackoffChosen(images, alphabets)] IN
  [order0  |-> Over(images, LAMBDA n : AdaptiveCost(images, n, alphabets)),
   table   |-> Over(images, LAMBDA n : TableCost(images, n, alphabets)),
   context |-> Over(images, LAMBDA n : ContextCost(images, n, alphabets)),
   backoff |-> Over(images, LAMBDA n : BackoffCost(images, n, alphabets, best))]

Coders == {"fixed", "order0", "table", "context", "backoff"}

\* The codes that bring the images, on average, into the budget.
Fits(images, l, bytes) ==
  LET alphabets == [luma |-> Alphabet(l.lBits), chroma |-> Alphabet(l.cBits)]
      score == ScoreLayout(images, alphabets)
      Needs(coder) ==
        IF coder = "fixed" THEN Len(images) * AcFixedBits(l) ELSE score[coder] IN
  {coder \in Coders : Len(images) * PrefixBits + Needs(coder) <= 8 * bytes * Len(images)}

-----------------------------------------------------------------------------
(* The layouts that are candidates for a budget *)

Shipped == [nL |-> 26, lBits |-> 5, nC |-> 9, cBits |-> 4]
MaxL == 180
MaxC == 60
PrecisionFamilies == <<<<5, 4>>, <<4, 3>>, <<3, 2>>, <<4, 4>>, <<5, 3>>, <<3, 3>>, <<6, 5>>, <<6, 4>>>>
LcRatios == <<<<26, 9>>, <<3, 2>>, <<2, 1>>, <<4, 1>>, <<6, 1>>>>

LevelOf(tier) == Larger(0, tier - 1)
ScaleOf(tier) == 4 ^ LevelOf(tier)

\* Neither far below the budget nor out of the reach of any code.
InBand(l, bytes, tier) ==
  LET fixed == ScaleOf(tier) * AcFixedBits(l)
      budget == 8 * bytes - PrefixBits IN
  10 * fixed >= 9 * budget /\ 10 * fixed <= 26 * budget

Shape(family, ratio, nC) ==
  [nL |-> (2 * ratio[1] * nC + ratio[2]) \div (2 * ratio[2]), lBits |-> family[1],
   nC |-> nC, cBits |-> family[2]]

\* A layout belongs to the first ratio that gives it; the shipped one is always there.
CandidateLayouts(bytes, tier) ==
  LET Allowed(l) == l.nL \in 1 .. MaxL /\ l.nC \in 1 .. MaxC
      Of(r) == {l \in {Shape(family, LcRatios[r], nC) : family \in Range(PrecisionFamilies), nC \in 1 .. MaxC} :
                  Allowed(l) /\ InBand(l, bytes, tier)}
                 \cup (IF r = 1 THEN {Shipped} ELSE {}) IN
  UNION {{[layout |-> l, ratio |-> r] : l \in Of(r) \ UNION {Of(q) : q \in 1 .. r - 1}} :
           r \in DOMAIN LcRatios}

-----------------------------------------------------------------------------
(* What is picked of the rows: [layout, ratio, coefficients, fixed, fits, ciede] *)

\* largestFitting: the first with the most coefficients, then the most bits.
LargestFitting(rows, coder, among) ==
  LET fitting == {i \in among : coder \in rows[i].fits}
      Beats(i, j) == \/ rows[i].coefficients > rows[j].coefficients
                     \/ /\ rows[i].coefficients = rows[j].coefficients
                        /\ rows[i].fixed > rows[j].fixed IN
  {i \in fitting : \A j \in fitting : ~Beats(j, i) /\ (j < i => Beats(i, j))}

OfFamily(rows, family) ==
  {i \in DOMAIN rows : rows[i].ratio = 1 /\ <<rows[i].layout.lBits, rows[i].layout.cBits>> = family}

IsShippedShape(rows) == OfFamily(rows, <<Shipped.lBits, Shipped.cBits>>)

\* remember: what is worth a measurement.
ScoredPool(rows) ==
  LET Kept == {IsShippedShape(rows), DOMAIN rows}
                \cup {OfFamily(rows, family) : family \in Range(PrecisionFamilies)} IN
  UNION {LargestFitting(rows, coder, among) : coder \in Coders, among \in Kept}

NoScore == 0 - 1      \* no image of it was scored

\* bestQuality: of what was scored and fits.
BestQuality(rows, coder) ==
  LET able == {i \in ScoredPool(rows) : coder \in rows[i].fits /\ rows[i].ciede # NoScore} IN
  {i \in able : \A j \in able : rows[i].ciede <= rows[j].ciede}
=============================================================================
