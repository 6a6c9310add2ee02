------------------------------ MODULE MCRefine ------------------------------
(* A grid of 2 x 2 pixels, two frequencies for luma and two for chroma, of  *)
(* which the second is dead.                                                *)
EXTENDS Refine

Wave(f, p) ==
  LET x == IF p[2] = 1 THEN 1 ELSE -1
      y == IF p[1] = 1 THEN 1 ELSE -1
  IN CASE f = "10" -> x [] f = "01" -> y [] f = "11" -> x * y [] f = "20" -> 1

MCFreqs == {"10", "01", "11", "20"}
MCBasis == [f \in MCFreqs |-> [p \in (1 .. 2) \X (1 .. 2) |-> Wave(f, p)]]
MCSel == [l |-> <<"10", "01">>, a |-> <<"10", "20">>, b |-> <<"10", "20">>]
MCLive == {"10", "01"}
MCDeq == [q \in 0 .. 6 |-> <<-4, -2, -1, 0, 1, 2, 4>>[q + 1]]
MCLinear == [q \in 0 .. 3 |-> q]

Options(fit, search, shared, clips, early, rdc, rscale) ==
  [scaleFit |-> fit, dcSearch |-> search, shared |-> shared, clips |-> clips,
   earlyExit |-> early, refineDc |-> rdc, refineScale |-> rscale]

MCOptions == {
  Options(0, TRUE, FALSE, TRUE, TRUE, TRUE, TRUE),
  Options(1, TRUE, TRUE, TRUE, TRUE, TRUE, TRUE),
  Options(2, FALSE, FALSE, FALSE, FALSE, TRUE, TRUE),
  Options(2, TRUE, FALSE, TRUE, FALSE, FALSE, FALSE)}

MCImages ==
  {[mean |-> [l |-> ml, a |-> ma, b |-> mb],
    values |-> [l |-> <<l1, l2>>, a |-> <<a1, 0>>, b |-> <<b1, 0>>],
    rest |-> [c \in {"l", "a", "b"} |->
                [p \in (1 .. 2) \X (1 .. 2) |-> IF c = "l" THEN r * Wave("11", p) ELSE 0]]] :
     ml \in {3, 5}, ma \in {0, 1}, mb \in {-3, 1},
     l1 \in {0, 2}, l2 \in {-1, 3}, a1 \in {0, 1}, b1 \in {0, 2}, r \in {0, 1}}

\* The L of a pixel is at most white.
MCInputs ==
  LET shown(i) == \A p \in Pixels : Source(i, "l")[p] \in 0 .. White
      both(i, o) ==
        [k \in DOMAIN i \cup DOMAIN o |-> IF k \in DOMAIN i THEN i[k] ELSE o[k]]
  IN {both(i, o) : i \in {j \in MCImages : shown(j)}, o \in MCOptions}
=============================================================================
