---------------------------- MODULE MCWireFormat ----------------------------
(***************************************************************************)
(* Layouts for TLC: the shipped one, and small ones that differ from it in *)
(* every width and count, with each option of the sweeps on in some.       *)
(***************************************************************************)
EXTENDS TsDecode, TLC

Tiny == [l_tiers |-> <<<<2, 3>>, <<2, 2>>>>, c_count |-> 2, c_bits |-> 1,
         la_tiers |-> <<<<1, 3>>, <<2, 1>>>>, ca_count |-> 1, ca_bits |-> 2,
         a_count |-> 2, a_bits |-> 3]
Thin == [l_tiers |-> <<<<1, 3>>, <<1, 2>>>>, c_count |-> 1, c_bits |-> 2,
         la_tiers |-> <<<<0, 3>>, <<1, 2>>>>, ca_count |-> 0, ca_bits |-> 2,
         a_count |-> 1, a_bits |-> 1]

Small == [layout |-> Tiny, layout_upper |-> Thin, layout_compact |-> Thin,
          aspect_bits |-> 3, l_dc_bits |-> 2, a_dc_bits |-> 1, b_dc_bits |-> 3,
          l_scale_bits |-> 2, a_scale_bits |-> 1, b_scale_bits |-> 2,
          b_scale_from_a |-> FALSE, cfl_bits |-> 0,
          alpha_dc_bits |-> 2, alpha_scale_bits |-> 1,
          interleave |-> FALSE, trunc_bytes |-> 0]

Shared == [Small EXCEPT !.b_scale_from_a = TRUE]
CfL == [Shared EXCEPT !.cfl_bits = 2]
Embedded == [Small EXCEPT !.interleave = TRUE]
Progressive == [Embedded EXCEPT !.trunc_bytes = 4]

Swept == {Small, Shared, CfL, Embedded, Progressive, [CfL EXCEPT !.trunc_bytes = 3]}

\* A merged order that starts with one code of each channel and differs from
\* aspect to aspect: round robin over the channels, or over their reverse.
MCAspects == {"wide", "tall"}
MergedOf(u, q, p) ==
  LET h == ac_shape(u, FALSE, q)
      Place(f) == LET i == IF p = "wide" THEN f[2] ELSE l_count(h) + 1 - f[2]
                  IN  4 * i + (CASE f[1] = "L" -> 0 [] f[1] = "a" -> 1 [] f[1] = "b" -> 2)
  IN  SortSeq(Sequential(h), LAMBDA f, g : Place(f) < Place(g))
MCMerged == [x \in {u \in Swept : u.interleave} \X (0 .. MAX_TIER) \X MCAspects |->
               MergedOf(x[1], x[2], x[3])]

\* A wide raster and a tall one, of a quarter of the edge and of the weights' bits,
\* with as many frequencies as the codes need.
MCBaseSize == [wide |-> <<16, 4>>, tall |-> <<6, 11>>]

SweptAndShipped == Swept \cup {DEFAULT}

\* The descriptors of all tiers and modes, a reserved tier, a set reserved bit,
\* another version, and all lengths around those the descriptors imply.
MCBytes0 == {8 * q + 64 * a : q \in 0 .. 5, a \in {0, 1}} \cup {128, 1}
MCLengths == 0 .. 26
=============================================================================
