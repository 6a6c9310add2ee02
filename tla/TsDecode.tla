------------------------------ MODULE TsDecode ------------------------------
(***************************************************************************)
(* typescript/src: the second decoder of the format, kept by hand. Its     *)
(* header.ts has the layout of the shipped tunables as constants of its    *)
(* own and validates by them; decode.ts counts its way through the bits    *)
(* and orders the frequencies that they belong to. Both are pure, so they  *)
(* are operators of the string that module WireFormat's encoder packed.    *)
(*                                                                         *)
(* A read past the end is not a failure here: it yields zeros.             *)
(***************************************************************************)
EXTENDS WireFormat, Sequences

CONSTANTS
  BaseSize,   \* baseOutputSize: the raster of an aspect code at level 0
  SEL_Q,      \* the fractional bits of the selection weights (12),
  SEL_W,      \* those of the key (16),
  ANISO_Q12,  \* and the two weights on that grid
  SEL_HV_Q12

\* In the code one edge is 32 and the other at least 2: aspects end at 16:1.
ASSUME SelectionAssumption ==
  /\ BaseSize \in [Aspects -> (Nat \ {0}) \X (Nat \ {0})]
  /\ \A p \in Aspects : BaseSize[p][1] * BaseSize[p][2] > 28
  /\ SEL_Q \in Nat /\ SEL_W \in 0 .. 4 * SEL_Q
  /\ ANISO_Q12 \in Nat /\ SEL_HV_Q12 \in -(2 ^ SEL_Q) .. 2 ^ SEL_Q
\* A fact of arithmetic that the provers do not know.
ASSUME PowersAssumption == \A n \in 0 .. 4 * SEL_Q : 2 ^ n \in Nat \ {0}

-----------------------------------------------------------------------------
(* header.ts *)

LAYOUT_B == [lBands |-> <<<<26, 5>>, <<0, 5>>>>, cCount |-> 9, cBits |-> 4,
             laBands |-> <<<<22, 4>>, <<0, 4>>>>, caCount |-> 3, caBits |-> 3,
             aCount |-> 28, aBits |-> 3]
LAYOUT_T0 == [lBands |-> <<<<28, 4>>, <<0, 4>>>>, cCount |-> 15, cBits |-> 3,
              laBands |-> <<<<22, 4>>, <<0, 4>>>>, caCount |-> 3, caBits |-> 3,
              aCount |-> 28, aBits |-> 3]
LAYOUT_TC == [lBands |-> <<<<19, 4>>, <<0, 4>>>>, cCount |-> 6, cBits |-> 3,
              laBands |-> <<<<12, 4>>, <<0, 4>>>>, caCount |-> 1, caBits |-> 3,
              aCount |-> 16, aBits |-> 3]

DESCRIPTOR_BITS == 16
Fixed == <<<<"l_dc", 7>>, <<"a_dc", 7>>, <<"b_dc", 7>>,
           <<"l_scale", 6>>, <<"a_scale", 6>>, <<"b_scale", 5>>>>
PREFIX_BITS == DESCRIPTOR_BITS + 7 + 7 + 7 + 6 + 6 + 5
AlphaFixed == <<<<"alpha_dc", 5>>, <<"alpha_scale", 4>>>>
ALPHA_PREFIX_BITS == 5 + 4

renderLevel(q) == IF q > 1 THEN q - 1 ELSE 0
tierCountScale(q) == 2 ^ (2 * renderLevel(q))

tierLayout(q) ==
  CASE q = COMPACT_TIER -> LAYOUT_TC
    [] q = DEFAULT_TIER -> LAYOUT_T0
    [] OTHER -> LAYOUT_B

\* Mutant: the alpha plane is counted at the default tier's row for all of them.
AlphaAcDefault(q) == <<tierLayout(DEFAULT_TIER).aCount * tierCountScale(q), tierLayout(q).aBits>>

\* Counts of a mode at a tier, as bodyLenBytes and renderAtSize each take them.
Bands(q, a) == LET y == tierLayout(q) IN
  [i \in 1 .. 2 |-> LET band == (IF a THEN y.laBands ELSE y.lBands)[i]
                    IN  <<band[1] * tierCountScale(q), band[2]>>]
Chroma(q, a) == LET y == tierLayout(q) IN
  IF a THEN <<y.caCount * tierCountScale(q), y.caBits>> ELSE <<y.cCount * tierCountScale(q), y.cBits>>
AlphaAc(q) == <<tierLayout(q).aCount * tierCountScale(q), tierLayout(q).aBits>>

Bits(run) == run[1] * run[2]

bodyLenBytes(q, a) ==
  (PREFIX_BITS + (IF a THEN ALPHA_PREFIX_BITS + Bits(AlphaAc(q)) ELSE 0)
     + Bits(Bands(q, a)[1]) + Bits(Bands(q, a)[2]) + 2 * Bits(Chroma(q, a)) + 7) \div 8

\* assertHash.
TsAccepts ==
  /\ len >= 2
  /\ b0 % 8 = FORMAT_VERSION /\ (b0 \div 8) % 8 <= MAX_TIER /\ b0 \div 128 = 0
  /\ len = bodyLenBytes((b0 \div 8) % 8, (b0 \div 64) % 2 = 1)

-----------------------------------------------------------------------------
(* decode.ts: what is read, and from where *)

readBits(pos, w) == [k \in 0 .. w - 1 |-> IF pos + k \in DOMAIN bits THEN bits[pos + k] ELSE {}]

\* Codes first + 1 .. first + run[1] of a channel.
CodeRun(channel, first, run) == [i \in 1 .. run[1] |-> <<<<channel, first + i>>, run[2]>>]

Header(fields) == [i \in DOMAIN fields |-> <<<<fields[i][1], 1>>, fields[i][2]>>]

\* The reads of renderAtSize, in their order, each <<field, width>>.
Reads(q, a) ==
  Header(Fixed)
    \o (IF a THEN Header(AlphaFixed) ELSE <<>>)
    \o CodeRun("L", 0, Bands(q, a)[1]) \o CodeRun("L", Bands(q, a)[1][1], Bands(q, a)[2])
    \o CodeRun("a", 0, Chroma(q, a)) \o CodeRun("b", 0, Chroma(q, a))
    \o (IF a THEN CodeRun("alpha", 0, AlphaAc(q)) ELSE <<>>)

\* bitpos, when each is read.
Bitpos(reads) ==
  LET at[i \in 1 .. Len(reads)] == IF i = 1 THEN DESCRIPTOR_BITS ELSE at[i - 1] + reads[i - 1][2]
  IN  at

TsRendered(q, a) ==
  LET reads == Reads(q, a)
      at == Bitpos(reads)
  IN  [f \in {reads[i][1] : i \in DOMAIN reads} |->
         LET i == CHOOSE i \in DOMAIN reads : reads[i][1] = f IN readBits(at[i], reads[i][2])]

\* averageColor: the alpha DC behind the fixed prefix.
TsAveraged(a) ==
  LET fixed == Header(SubSeq(Fixed, 1, 3))
      at == Bitpos(fixed)
  IN  [f \in {fixed[i][1] : i \in 1 .. 3} \cup (IF a THEN {<<"alpha_dc", 1>>} ELSE {}) |->
         IF f[1] = "alpha_dc" THEN readBits(PREFIX_BITS, AlphaFixed[1][2])
         ELSE LET i == CHOOSE i \in 1 .. 3 : fixed[i][1] = f IN readBits(at[i], fixed[i][2])]

-----------------------------------------------------------------------------
(* The frequencies that the codes stand for *)

SEL_ONE == 2 ^ SEL_Q

\* decodeOutputSize: the rounded base size, shifted.
OutputSize(p, q) == <<BaseSize[p][1] * 2 ^ renderLevel(q), BaseSize[p][2] * 2 ^ renderLevel(q)>>

Truncated(n, d) == IF n >= 0 THEN n \div d ELSE -((-n) \div d)

\* selectionKey, on integers: none of its numbers reaches 2^53.
SelectionKey(px, py) ==
  LET sq == px * px
      tq == py * py
      x == Truncated((sq - tq) * SEL_ONE, sq + tq)
      u == (SEL_ONE + ANISO_Q12) * SEL_ONE - ((ANISO_Q12 * x * x) \div SEL_ONE)
      v == SEL_ONE * SEL_ONE + SEL_HV_Q12 * x
  IN  IF ANISO_Q12 = 0 /\ SEL_HV_Q12 = 0 THEN (sq + tq) * 2 ^ SEL_W
      ELSE (sq + tq) * ((u * v) \div 2 ^ (4 * SEL_Q - SEL_W))

Candidates(p, q) ==
  LET size == OutputSize(p, q)
  IN  {<<SelectionKey(c[1] * size[2], c[2] * size[1]), c[1], c[2]>> :
         c \in ((0 .. size[1] - 1) \X (0 .. size[2] - 1)) \ {<<0, 0>>}}

Before(c, d) ==
  \/ c[1] < d[1]
  \/ c[1] = d[1] /\ (c[2] < d[2] \/ (c[2] = d[2] /\ c[3] < d[3]))

\* selectCoefficients sorts for each channel anew and keeps the first k.
SelectCoefficients(p, q, k) ==
  {c \in Candidates(p, q) : Cardinality({d \in Candidates(p, q) : Before(d, c)}) < k}

\* prepareChannel keeps what a raster can show: decode and decodeCapped.
Shown(selected, w, h) == {c \in selected : c[2] < w /\ c[3] < h}

-----------------------------------------------------------------------------
\* The codes that renderAtSize finds a frequency for, in the natural raster.
Placed(p, q, k) ==
  LET size == OutputSize(p, q) IN Cardinality(Shown(SelectCoefficients(p, q, k), size[1], size[2]))

(* The two decoders tell the same strings apart, and what either accepts they  *)
(* read alike: TypeScript's copy of the table, its order and its widths give   *)
(* each field of an encoded hash whole, average_color's too, and not a bit past *)
(* the end; and there is a frequency for every code, at any aspect.            *)
TsAgrees ==
  rpc \in {"accepted", "rejected"} /\ t = DEFAULT =>
    /\ TsAccepts <=> rpc = "accepted"
    /\ rpc = "accepted" =>
         /\ LET reads == Reads(rtier, ralpha) IN
            Bitpos(reads)[Len(reads)] + reads[Len(reads)][2] \in 8 * len - 7 .. 8 * len
         /\ \A k \in {Bands(rtier, ralpha)[1][1] + Bands(rtier, ralpha)[2][1], Chroma(rtier, ralpha)[1],
                      IF ralpha THEN AlphaAc(rtier)[1] ELSE 0} :
              Placed(aspect, rtier, k) = k
         /\ wpc = "packed" =>
              /\ TsRendered(tier, has_alpha) =
                   [f \in (DOMAIN TsRendered(tier, has_alpha)) |-> Whole(f, WrittenWidth(f))]
              /\ Codes(Shape) \subseteq DOMAIN TsRendered(tier, has_alpha)
              /\ \A f \in DOMAIN TsAveraged(has_alpha) :
                   TsAveraged(has_alpha)[f] = Whole(f, WrittenWidth(f))
=============================================================================
