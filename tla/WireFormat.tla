----------------------------- MODULE WireFormat -----------------------------
(***************************************************************************)
(* The bytes of a hash: how encode.rs packs header fields and AC codes,    *)
(* how lib.rs validates a string of bytes, and how decode.rs walks it      *)
(* again, for any layout the tunables describe.                            *)
(*                                                                         *)
(* Encoder and decoder each keep a bit position of their own and share no  *)
(* table of offsets: the format is the order and the widths of the calls   *)
(* each makes. What a field holds is abstracted to stamps <<field, k>>,    *)
(* bit k of that field, so that two fields written over each other, or a   *)
(* field read from a wrong place, are told apart whatever their values.    *)
(***************************************************************************)
EXTENDS Integers, FiniteSets

CONSTANTS
  Tunables,   \* the layouts; see TunablesAssumption for the fields
  Tiers,      \* quality tiers an encoder is asked for
  Aspects,    \* codes of the aspect field
  Merged,     \* interleaved_order, for <<tunables, tier, aspect>>
  Bytes0,     \* first bytes, and
  Lengths     \* lengths, of strings that come from somewhere else

FORMAT_VERSION == 0
MAX_TIER == 4
COMPACT_TIER == 0
DEFAULT_TIER == 1

-----------------------------------------------------------------------------
(* The layout (constants.rs) *)

Table == [1 .. 2 -> Nat \X (Nat \ {0})]

AcLayout == [l_tiers : Table, c_count : Nat, c_bits : Nat \ {0},
             la_tiers : Table, ca_count : Nat, ca_bits : Nat \ {0},
             a_count : Nat, a_bits : Nat \ {0}]

\* A width of 0 is allowed only where the code can do without the field.
TunablesAssumption ==
  Tunables \subseteq
    [layout : AcLayout, layout_upper : AcLayout, layout_compact : AcLayout,
     aspect_bits : Nat, l_dc_bits : Nat, a_dc_bits : Nat, b_dc_bits : Nat,
     l_scale_bits : Nat, a_scale_bits : Nat, b_scale_bits : Nat,
     b_scale_from_a : BOOLEAN, cfl_bits : Nat,
     alpha_dc_bits : Nat, alpha_scale_bits : Nat,
     interleave : BOOLEAN, trunc_bytes : Nat]
ASSUME TunablesAssumption
ASSUME TiersAssumption == Tiers \subseteq 0 .. MAX_TIER
ASSUME ForeignAssumption == Bytes0 \subseteq 0 .. 255 /\ Lengths \subseteq Nat

\* The rows of the format, and the layout that the shipped codec has.
LayoutB == [l_tiers |-> <<<<26, 5>>, <<0, 5>>>>, c_count |-> 9, c_bits |-> 4,
            la_tiers |-> <<<<22, 4>>, <<0, 4>>>>, ca_count |-> 3, ca_bits |-> 3,
            a_count |-> 28, a_bits |-> 3]
LayoutT0 == [l_tiers |-> <<<<28, 4>>, <<0, 4>>>>, c_count |-> 15, c_bits |-> 3,
             la_tiers |-> <<<<22, 4>>, <<0, 4>>>>, ca_count |-> 3, ca_bits |-> 3,
             a_count |-> 28, a_bits |-> 3]
LayoutTC == [l_tiers |-> <<<<19, 4>>, <<0, 4>>>>, c_count |-> 6, c_bits |-> 3,
             la_tiers |-> <<<<12, 4>>, <<0, 4>>>>, ca_count |-> 1, ca_bits |-> 3,
             a_count |-> 16, a_bits |-> 3]

DEFAULT == [layout |-> LayoutT0, layout_upper |-> LayoutB, layout_compact |-> LayoutTC,
            aspect_bits |-> 8, l_dc_bits |-> 7, a_dc_bits |-> 7, b_dc_bits |-> 7,
            l_scale_bits |-> 6, a_scale_bits |-> 6, b_scale_bits |-> 5,
            b_scale_from_a |-> FALSE, cfl_bits |-> 0,
            alpha_dc_bits |-> 5, alpha_scale_bits |-> 4,
            interleave |-> FALSE, trunc_bytes |-> 0]

\* Codes 0 and 1 share level 0.
render_level(q) == IF q = 0 THEN 0 ELSE q - 1

tier_count_scale(q) == 4 ^ render_level(q)

tier_layout(u, q) ==
  CASE q = COMPACT_TIER -> u.layout_compact
    [] q = DEFAULT_TIER -> u.layout
    [] OTHER -> u.layout_upper

\* Counts grow with the tier, widths do not.
ac_shape(u, a, q) ==
  LET y == tier_layout(u, q)
      s == tier_count_scale(q)
      l == IF a THEN y.la_tiers ELSE y.l_tiers
  IN  [l0 |-> l[1][1] * s, l0_bits |-> l[1][2],
       l1 |-> l[2][1] * s, l1_bits |-> l[2][2],
       c |-> (IF a THEN y.ca_count ELSE y.c_count) * s,
       c_bits |-> IF a THEN y.ca_bits ELSE y.c_bits,
       alpha |-> IF a THEN y.a_count * s ELSE 0, alpha_bits |-> y.a_bits]

l_count(h) == h.l0 + h.l1

ac_payload_bits(h) ==
  h.l0 * h.l0_bits + h.l1 * h.l1_bits + 2 * h.c * h.c_bits + h.alpha * h.alpha_bits

prefix_bits(u) ==
  8 + u.aspect_bits + u.l_dc_bits + u.a_dc_bits + u.b_dc_bits
    + u.l_scale_bits + u.a_scale_bits + (IF u.b_scale_from_a THEN 0 ELSE u.b_scale_bits)
    + 2 * u.cfl_bits

alpha_prefix(u, a) == IF a THEN u.alpha_dc_bits + u.alpha_scale_bits ELSE 0

div_ceil8(n) == (n + 7) \div 8

body_len_bytes(u, a, q) ==
  div_ceil8(prefix_bits(u) + ac_payload_bits(ac_shape(u, a, q)) + alpha_prefix(u, a))

-----------------------------------------------------------------------------
(* Fields and the order of the AC codes *)

HeaderNames == {"aspect", "l_dc", "a_dc", "b_dc", "l_scale", "a_scale", "b_scale",
                "cfl_a", "cfl_b", "alpha_dc", "alpha_scale"}

HeaderWidth(u, f) ==
  CASE f = "aspect" -> u.aspect_bits
    [] f = "l_dc" -> u.l_dc_bits
    [] f = "a_dc" -> u.a_dc_bits
    [] f = "b_dc" -> u.b_dc_bits
    [] f = "l_scale" -> u.l_scale_bits
    [] f = "a_scale" -> u.a_scale_bits
    [] f = "b_scale" -> u.b_scale_bits
    [] f \in {"cfl_a", "cfl_b"} -> u.cfl_bits
    [] f = "alpha_dc" -> u.alpha_dc_bits
    [] f = "alpha_scale" -> u.alpha_scale_bits

\* AC codes are <<channel, index>>.
Codes(h) == ({"L"} \X (1 .. l_count(h))) \cup ({"a", "b"} \X (1 .. h.c))
              \cup ({"alpha"} \X (1 .. h.alpha))

MergedCodes(h) == {f \in Codes(h) : f[1] # "alpha"}

\* One loop after the other: both luma tiers, a, b, alpha.
Sequential(h) ==
  LET A == l_count(h)
      B == A + h.c
      Z == B + h.c
  IN  [k \in 1 .. Z + h.alpha |->
        IF k <= A THEN <<"L", k>>
        ELSE IF k <= B THEN <<"a", k - A>>
        ELSE IF k <= Z THEN <<"b", k - B>>
        ELSE <<"alpha", k - Z>>]

CodeCount(h) == l_count(h) + 2 * h.c + h.alpha

\* Mutant: the second luma tier takes the width of the first.
bits_at_first(h, f) ==
  CASE f[1] = "L" -> h.l0_bits
    [] f[1] \in {"a", "b"} -> h.c_bits
    [] f[1] = "alpha" -> h.alpha_bits

\* The encoder's width of a code.
bits_at(h, f) ==
  CASE f[1] = "L" -> (IF f[2] <= h.l0 THEN h.l0_bits ELSE h.l1_bits)
    [] f[1] \in {"a", "b"} -> h.c_bits
    [] f[1] = "alpha" -> h.alpha_bits

\* The decoder's: it fills a table of luma widths before it reads.
l_bits_at(h) == [i \in 1 .. l_count(h) |-> IF i \in 1 .. h.l0 THEN h.l0_bits ELSE h.l1_bits]

read_bits_at(h, f) ==
  CASE f[1] = "L" -> l_bits_at(h)[f[2]]
    [] f[1] \in {"a", "b"} -> h.c_bits
    [] f[1] = "alpha" -> h.alpha_bits

\* The merged order is a permutation of the luma and chroma codes, computed
\* from the selections of an aspect and a tier, the same on both sides.
ASSUME MergedAssumption ==
  \A u \in Tunables, q \in 0 .. MAX_TIER, p \in Aspects :
    u.interleave =>
      LET h == ac_shape(u, FALSE, q)
          m == Merged[<<u, q, p>>]
      IN  /\ m \in [1 .. CodeCount(h) -> MergedCodes(h)]
          /\ \A i, j \in 1 .. CodeCount(h) : m[i] = m[j] => i = j

-----------------------------------------------------------------------------
VARIABLES
  t,          \* the tunables, the same for encoder and decoder
  tier, has_alpha, aspect,    \* what the encoder stores in the descriptor
  len,        \* the length of the string, in bytes
  b0,         \* its byte 0
  bits,       \* its bits, from bit 0: the stamps ORed into each
  wpc,        \* the field the encoder writes next; "absent" for a foreign string
  wpos,       \* the encoder's bitpos
  wdone,      \* AC codes it has written
  rpc,        \* the field the decoder reads next
  rpos,       \* the decoder's bitpos
  rdone,      \* AC codes it has read
  rtier, ralpha, raspect,     \* the descriptor as the decoder sees it
  got         \* what the decoder read, by field

encoderVars == <<t, tier, has_alpha, aspect, len, b0, bits, wpc, wpos, wdone>>
decoderVars == <<rpc, rpos, rdone, rtier, ralpha, raspect, got>>
vars == <<encoderVars, decoderVars>>

\* The exact-zero code, which takes no bits from the string.
Centre == <<>>

Blank(n) == [p \in 0 .. 8 * n - 1 |-> {}]

\* What a read of field f returns if it is there, whole and alone.
Whole(f, w) == [k \in 0 .. w - 1 |-> {<<f, k>>}]

\* A foreign string may hold anything: its bits are left blank.
Init ==
  /\ t \in Tunables /\ aspect \in Aspects
  /\ \/ /\ wpc = "alloc" /\ tier \in Tiers /\ has_alpha \in BOOLEAN
        /\ len = 0 /\ b0 = 0
     \/ /\ wpc = "absent" /\ tier = DEFAULT_TIER /\ has_alpha = FALSE
        /\ len \in Lengths /\ b0 \in Bytes0
  /\ bits = Blank(len)
  /\ wpos = 0 /\ wdone = 0
  /\ rpc = "idle" /\ rpos = 0 /\ rdone = 0
  /\ rtier = 0 /\ ralpha = FALSE /\ raspect = aspect
  /\ got = <<>>

-----------------------------------------------------------------------------
(* The encoder (encode.rs) *)

Shape == ac_shape(t, has_alpha, tier)

Descriptor == FORMAT_VERSION + 8 * tier + (IF has_alpha THEN 64 ELSE 0)

Alloc ==
  /\ wpc = "alloc"
  /\ len' = body_len_bytes(t, has_alpha, tier)
  /\ bits' = Blank(len')
  /\ b0' = Descriptor
  /\ wpos' = 8 /\ wpc' = "aspect"
  /\ UNCHANGED <<t, tier, has_alpha, aspect, wdone, decoderVars>>

\* put() indexes no byte past the string: otherwise it panics.
WFits(w) == w = 0 \/ wpos + w <= 8 * len

Put(f, w) ==
  /\ bits' = [p \in DOMAIN bits |->
                IF p \in wpos .. wpos + w - 1 THEN bits[p] \cup {<<f, p - wpos>>}
                                              ELSE bits[p]]
  /\ wpos' = wpos + w

AfterWrite(f) ==
  LET payload == IF has_alpha THEN "alpha_dc" ELSE "ac"
      cfl == IF t.cfl_bits > 0 THEN "cfl_a" ELSE payload
  IN  CASE f = "aspect" -> "l_dc"
        [] f = "l_dc" -> "a_dc"
        [] f = "a_dc" -> "b_dc"
        [] f = "b_dc" -> "l_scale"
        [] f = "l_scale" -> "a_scale"
        [] f = "a_scale" -> (IF t.b_scale_from_a THEN cfl ELSE "b_scale")
        [] f = "b_scale" -> cfl
        [] f = "cfl_a" -> "cfl_b"
        [] f = "cfl_b" -> payload
        [] f = "alpha_dc" -> "alpha_scale"
        [] f = "alpha_scale" -> "ac"

PutField ==
  /\ wpc \in HeaderNames /\ WFits(HeaderWidth(t, wpc))
  /\ Put(<<wpc, 1>>, HeaderWidth(t, wpc))
  /\ wpc' = AfterWrite(wpc)
  /\ UNCHANGED <<t, tier, has_alpha, aspect, len, b0, wdone, decoderVars>>

WriteOrder == IF t.interleave /\ ~ has_alpha THEN Merged[<<t, tier, aspect>>]
                                             ELSE Sequential(Shape)

PutCode ==
  /\ wpc = "ac" /\ wdone < CodeCount(Shape)
  /\ LET f == WriteOrder[wdone + 1]
     IN  WFits(bits_at(Shape, f)) /\ Put(f, bits_at(Shape, f))
  /\ wdone' = wdone + 1
  /\ UNCHANGED <<t, tier, has_alpha, aspect, len, b0, wpc, decoderVars>>

Packed ==
  /\ wpc = "ac" /\ wdone = CodeCount(Shape)
  /\ wpc' = "packed"
  /\ UNCHANGED <<t, tier, has_alpha, aspect, len, b0, bits, wpos, wdone, decoderVars>>

-----------------------------------------------------------------------------
(* from_bytes (lib.rs) *)

VersionOf(b) == b % 8
TierOf(b) == (b \div 8) % 8
AlphaOf(b) == (b \div 64) % 2 = 1
ReservedOf(b) == b \div 128

Accepts ==
  /\ len >= div_ceil8(prefix_bits(t))
  /\ VersionOf(b0) = FORMAT_VERSION /\ TierOf(b0) <= MAX_TIER /\ ReservedOf(b0) = 0
  /\ len = body_len_bytes(t, AlphaOf(b0), TierOf(b0))

FromBytes ==
  /\ wpc \in {"packed", "absent"} /\ rpc = "idle"
  /\ IF Accepts THEN rpc' = "accepted" /\ rtier' = TierOf(b0) /\ ralpha' = AlphaOf(b0)
                ELSE rpc' = "rejected" /\ UNCHANGED <<rtier, ralpha>>
  /\ UNCHANGED <<encoderVars, rpos, rdone, raspect, got>>

-----------------------------------------------------------------------------
(* The decoder (decode.rs) *)

RShape == ac_shape(t, ralpha, rtier)

RFits(pos, w) == w = 0 \/ pos + w <= 8 * len

Read(pos, w) == [k \in 0 .. w - 1 |-> bits[pos + k]]

Got(f, v) == got' = [g \in DOMAIN got \cup {f} |-> IF g = f THEN v ELSE got[g]]

\* Mutant: the decoder expects the b scale wherever it comes from.
AfterReadWithB(f) ==
  LET payload == IF ralpha THEN "alpha_dc" ELSE "ac"
      cfl == IF t.cfl_bits > 0 THEN "cfl_a" ELSE payload
  IN  CASE f = "l_dc" -> "a_dc"
        [] f = "a_dc" -> "b_dc"
        [] f = "b_dc" -> "l_scale"
        [] f = "l_scale" -> "a_scale"
        [] f = "a_scale" -> "b_scale"
        [] f = "b_scale" -> cfl
        [] f = "cfl_a" -> "cfl_b"
        [] f = "cfl_b" -> payload
        [] f = "alpha_dc" -> "alpha_scale"
        [] f = "alpha_scale" -> "ac"

AfterRead(f) ==
  LET payload == IF ralpha THEN "alpha_dc" ELSE "ac"
      cfl == IF t.cfl_bits > 0 THEN "cfl_a" ELSE payload
  IN  CASE f = "l_dc" -> "a_dc"
        [] f = "a_dc" -> "b_dc"
        [] f = "b_dc" -> "l_scale"
        [] f = "l_scale" -> "a_scale"
        [] f = "a_scale" -> (IF t.b_scale_from_a THEN cfl ELSE "b_scale")
        [] f = "b_scale" -> cfl
        [] f = "cfl_a" -> "cfl_b"
        [] f = "cfl_b" -> payload
        [] f = "alpha_dc" -> "alpha_scale"
        [] f = "alpha_scale" -> "ac"

\* read_header_fields: the aspect decides on the order of the codes below.
ReadAspect ==
  /\ rpc = "accepted" /\ RFits(8, t.aspect_bits)
  /\ LET v == Read(8, t.aspect_bits)
     IN  /\ Got(<<"aspect", 1>>, v)
         /\ raspect' \in IF v = Whole(<<"aspect", 1>>, t.aspect_bits) THEN {aspect} ELSE Aspects
  /\ rpos' = 8 + t.aspect_bits /\ rpc' = "l_dc"
  /\ UNCHANGED <<encoderVars, rdone, rtier, ralpha>>

ReadField ==
  /\ rpc \in HeaderNames /\ RFits(rpos, HeaderWidth(t, rpc))
  /\ Got(<<rpc, 1>>, Read(rpos, HeaderWidth(t, rpc)))
  /\ rpos' = rpos + HeaderWidth(t, rpc)
  /\ rpc' = AfterRead(rpc)
  /\ UNCHANGED <<encoderVars, rdone, rtier, ralpha, raspect>>

ReadOrder == IF t.interleave /\ ~ ralpha THEN Merged[<<t, rtier, raspect>>]
                                         ELSE Sequential(RShape)

limit_bits ==
  IF t.trunc_bytes > 0 /\ t.trunc_bytes < len THEN 8 * t.trunc_bytes ELSE 8 * len

\* read_code asks for the whole code to be delivered; alpha is read plainly.
Delivered(f, w) == f[1] = "alpha" \/ rpos + w <= limit_bits

ReadCode ==
  /\ rpc = "ac" /\ rdone < CodeCount(RShape)
  /\ LET f == ReadOrder[rdone + 1]
         w == read_bits_at(RShape, f)
     IN  /\ Delivered(f, w) => RFits(rpos, w)
         /\ Got(f, IF Delivered(f, w) THEN Read(rpos, w) ELSE Centre)
         /\ rpos' = rpos + w
  /\ rdone' = rdone + 1
  /\ UNCHANGED <<encoderVars, rpc, rtier, ralpha, raspect>>

Rendered ==
  /\ rpc = "ac" /\ rdone = CodeCount(RShape)
  /\ rpc' = "rendered"
  /\ UNCHANGED <<encoderVars, rpos, rdone, rtier, ralpha, raspect, got>>

\* average_color_with finds the alpha DC by prefix_bits, not by reading on.
AlphaAt == prefix_bits(t)

AverageColor ==
  LET l == 8 + t.aspect_bits
      a == l + t.l_dc_bits
      b == a + t.a_dc_bits
      dcs == {<<"l_dc", l>>, <<"a_dc", a>>, <<"b_dc", b>>}
               \cup (IF ralpha THEN {<<"alpha_dc", AlphaAt>>} ELSE {})
  IN  /\ rpc = "accepted"
      /\ \A d \in dcs : RFits(d[2], HeaderWidth(t, d[1]))
      /\ got' = [f \in {<<d[1], 1>> : d \in dcs} |->
                   LET d == CHOOSE d \in dcs : d[1] = f[1]
                   IN  Read(d[2], HeaderWidth(t, d[1]))]
      /\ rpc' = "averaged"
      /\ UNCHANGED <<encoderVars, rpos, rdone, rtier, ralpha, raspect>>

-----------------------------------------------------------------------------
Encoder == Alloc \/ PutField \/ PutCode \/ Packed
Decoder == ReadAspect \/ ReadField \/ ReadCode \/ Rendered \/ AverageColor

Ended == rpc \in {"rejected", "rendered", "averaged"} /\ UNCHANGED vars

Next == Encoder \/ FromBytes \/ Decoder \/ Ended

Spec == Init /\ [][Next]_vars

-----------------------------------------------------------------------------
(* Properties *)

Names == HeaderNames \cup {"L", "a", "b", "alpha"}
Stamp == (Names \X Nat) \X Nat

\* Every variable has its type.
TypeOK ==
  /\ t \in Tunables /\ tier \in 0 .. MAX_TIER /\ has_alpha \in BOOLEAN /\ aspect \in Aspects
  /\ len \in Nat /\ b0 \in 0 .. 255
  /\ bits \in [0 .. 8 * len - 1 -> SUBSET Stamp]
  /\ wpc \in {"alloc", "ac", "packed", "absent"} \cup HeaderNames
  /\ wpos \in Nat /\ wdone \in 0 .. CodeCount(Shape)
  /\ rpc \in {"idle", "accepted", "rejected", "ac", "rendered", "averaged"} \cup HeaderNames
  /\ rpos \in Nat /\ rdone \in 0 .. CodeCount(RShape)
  /\ rtier \in 0 .. MAX_TIER /\ ralpha \in BOOLEAN /\ raspect \in Aspects
  /\ DOMAIN got \subseteq Names \X Nat

\* The encoder allocates before it writes, from a formula of its own: no put
\* of any layout lands past the end.
WritesInside ==
  /\ wpc \in HeaderNames => WFits(HeaderWidth(t, wpc))
  /\ wpc = "ac" /\ wdone < CodeCount(Shape) => WFits(bits_at(Shape, WriteOrder[wdone + 1]))

\* "an Ok value is guaranteed to decode without error": whatever from_bytes
\* accepts, from whatever source, the decoder reads no bit past its end.
ReadsInside ==
  /\ rpc = "accepted" =>
       /\ RFits(8, t.aspect_bits + t.l_dc_bits + t.a_dc_bits + t.b_dc_bits)
       /\ ralpha => RFits(AlphaAt, t.alpha_dc_bits)
  /\ rpc \in HeaderNames => RFits(rpos, HeaderWidth(t, rpc))
  /\ rpc = "ac" /\ rdone < CodeCount(RShape) =>
       LET f == ReadOrder[rdone + 1]
           w == read_bits_at(RShape, f)
       IN  Delivered(f, w) => RFits(rpos, w)

\* "Exact bit budget; trailing bits to the byte boundary are padding zeros":
\* every bit behind byte 0 belongs to one field, and less than a byte to none.
ExactBits ==
  wpc = "packed" =>
    /\ wpos = prefix_bits(t) + alpha_prefix(t, has_alpha) + ac_payload_bits(Shape)
    /\ 8 * len - wpos \in 0 .. 7
    /\ \A p \in DOMAIN bits :
         IF p \in 8 .. wpos - 1 THEN \E s \in bits[p] : bits[p] = {s} ELSE bits[p] = {}

\* Neither side of the format leaves the string, and nothing of it is left over:
\* the encoder's puts and the decoder's reads follow a length that a formula
\* gave, not their own count.
ExactBudget == WritesInside /\ ReadsInside /\ ExactBits

WrittenWidth(f) == IF f[1] \in HeaderNames THEN HeaderWidth(t, f[1]) ELSE bits_at(Shape, f)

\* Some bit of f was put past what a truncated decode is given.
PastLimit(f) == \E p \in DOMAIN bits : p >= limit_bits /\ \E s \in bits[p] : s[1] = f

\* What the encoder packs, from_bytes accepts and reads the same descriptor from.
\* Then the decoder gets each field as it was put, for every layout, or the
\* centre code for one that a truncated decode is not given; a render ends with
\* every code read.
RoundTrip ==
  wpc = "packed" =>
    /\ rpc # "idle" => rpc # "rejected" /\ rtier = tier /\ ralpha = has_alpha
    /\ \A f \in DOMAIN got :
         got[f] = IF f[1] \in {"L", "a", "b"} /\ PastLimit(f)
                    THEN Centre ELSE Whole(f, WrittenWidth(f))
    /\ rpc = "rendered" => Codes(Shape) \subseteq DOMAIN got

=============================================================================
