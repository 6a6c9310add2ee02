--------------------------- MODULE MCCSharpBatch ----------------------------
(***************************************************************************)
(* Instances of CSharpBatch for TLC. An int has 8 bits here instead of 32: *)
(* the products that wrap around are then small enough to enumerate.       *)
(***************************************************************************)
EXTENDS CSharpBatch, TLC

CONSTANTS c1, c2, w1, w2

Image(w, h, len, q) == [Width |-> w, Height |-> h, Length |-> len, Quality |-> q]

good == Image(1, 1, 4, 1)
other == Image(2, 3, 24, 0)
short == Image(2, 3, 20, 0)       \* Rgba is too short
empty == Image(0, 3, 0, 1)        \* no pixels
tier == Image(1, 1, 4, 5)         \* a reserved tier code
wraps == Image(8, 9, 32, 1)       \* 8 * 9 * 4 = 288, which is 32 in 8 bits

AllImages == {good, other, short, empty, tier, wraps}
AllEncode == [i \in AllImages |-> <<"hash", i>>]

MCBatches == {<<>>, <<good, other, good>>, <<other, good>>, <<good, short>>,
              <<other, empty>>, <<good, tier>>, <<other, wraps>>}
WrapBatches == {<<good, wraps>>, <<wraps>>, <<good, other>>}

=============================================================================
