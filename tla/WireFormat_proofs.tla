-------------------------- MODULE WireFormat_proofs --------------------------
(***************************************************************************)
(* What holds of the wire format for every set of layouts, tier, aspect    *)
(* and order of the codes, and for every string from somewhere else; and   *)
(* the same of the second decoder, for the layout that is shipped.         *)
(***************************************************************************)
EXTENDS TsDecode, FiniteSetTheorems, SequenceTheorems, WellFoundedInduction, TLAPS

-----------------------------------------------------------------------------
(* Layouts                                                                     *)

LEMMA ProductIsNat == \A x, y \in Nat : x * y \in Nat
OBVIOUS

LEMMA ProductGrows ==
  ASSUME NEW x \in Nat, NEW y \in Nat, NEW z \in Nat, x <= y
  PROVE  x * z <= y * z
OBVIOUS

LEMMA NextProduct ==
  ASSUME NEW x \in Nat, NEW z \in Nat
  PROVE  (x + 1) * z = x * z + z
OBVIOUS

LEMMA Eighths ==
  ASSUME NEW n \in Nat
  PROVE  div_ceil8(n) \in Nat /\ n <= 8 * div_ceil8(n) /\ 8 * div_ceil8(n) <= n + 7
BY DEF div_ceil8

LEMMA EighthsGrow ==
  ASSUME NEW m \in Nat, NEW n \in Nat, m <= n
  PROVE  div_ceil8(m) <= div_ceil8(n)
BY DEF div_ceil8

LEMMA ScaleIsNat == ASSUME NEW q \in 0 .. MAX_TIER PROVE tier_count_scale(q) \in Nat
<1>1. 4 ^ 0 \in Nat /\ 4 ^ 1 \in Nat /\ 4 ^ 2 \in Nat /\ 4 ^ 3 \in Nat
  OBVIOUS
<1>2. render_level(q) = 0 \/ render_level(q) = 1 \/ render_level(q) = 2 \/ render_level(q) = 3
  BY DEF render_level, MAX_TIER
<1> QED
  BY <1>1, <1>2 DEF tier_count_scale

\* Counts and widths of the codes.
ShapeOK(h) ==
  /\ h.l0 \in Nat /\ h.l1 \in Nat /\ h.c \in Nat /\ h.alpha \in Nat
  /\ h.l0_bits \in Nat \ {0} /\ h.l1_bits \in Nat \ {0} /\ h.c_bits \in Nat \ {0}
  /\ h.alpha_bits \in Nat \ {0}

LEMMA ShapeIs ==
  ASSUME NEW u \in Tunables, NEW a \in BOOLEAN, NEW q \in 0 .. MAX_TIER
  PROVE  ShapeOK(ac_shape(u, a, q)) /\ (~ a => ac_shape(u, a, q).alpha = 0)
<1> DEFINE y == tier_layout(u, q)
           s == tier_count_scale(q)
           l == IF a THEN y.la_tiers ELSE y.l_tiers
<1>1. y \in AcLayout
  BY TunablesAssumption DEF TunablesAssumption, tier_layout
<1>2. s \in Nat
  BY ScaleIsNat
<1>3. l \in Table
  BY <1>1 DEF AcLayout
<1>4. l[1][1] \in Nat /\ l[1][2] \in Nat \ {0} /\ l[2][1] \in Nat /\ l[2][2] \in Nat \ {0}
  BY <1>3 DEF Table
<1>5. /\ y.c_count \in Nat /\ y.ca_count \in Nat /\ y.a_count \in Nat
      /\ y.c_bits \in Nat \ {0} /\ y.ca_bits \in Nat \ {0} /\ y.a_bits \in Nat \ {0}
  BY <1>1 DEF AcLayout
<1>6. ac_shape(u, a, q) =
        [l0 |-> l[1][1] * s, l0_bits |-> l[1][2],
         l1 |-> l[2][1] * s, l1_bits |-> l[2][2],
         c |-> (IF a THEN y.ca_count ELSE y.c_count) * s,
         c_bits |-> IF a THEN y.ca_bits ELSE y.c_bits,
         alpha |-> IF a THEN y.a_count * s ELSE 0, alpha_bits |-> y.a_bits]
  BY DEF ac_shape
<1> HIDE DEF y, s, l
<1>7. /\ l[1][1] * s \in Nat /\ l[2][1] * s \in Nat /\ y.a_count * s \in Nat
      /\ (IF a THEN y.ca_count ELSE y.c_count) * s \in Nat
  BY <1>2, <1>4, <1>5, ProductIsNat
<1> QED
  BY <1>4, <1>5, <1>6, <1>7 DEF ShapeOK

-----------------------------------------------------------------------------
(* The AC codes                                                                *)

L0(h) == {"L"} \X (1 .. h.l0)
L1(h) == {"L"} \X (h.l0 + 1 .. h.l0 + h.l1)
ChromaCodes(h) == {"a", "b"} \X (1 .. h.c)
AlphaCodes(h) == {"alpha"} \X (1 .. h.alpha)

LEMMA CodesSplit ==
  ASSUME NEW h, ShapeOK(h)
  PROVE  /\ Codes(h) = L0(h) \cup L1(h) \cup ChromaCodes(h) \cup AlphaCodes(h)
         /\ L0(h) \cap L1(h) = {} /\ L0(h) \cap ChromaCodes(h) = {} /\ L0(h) \cap AlphaCodes(h) = {}
         /\ L1(h) \cap ChromaCodes(h) = {} /\ L1(h) \cap AlphaCodes(h) = {} /\ ChromaCodes(h) \cap AlphaCodes(h) = {}
<1>1. h.l0 \in Nat /\ h.l1 \in Nat
  BY DEF ShapeOK
<1>2. 1 .. l_count(h) = (1 .. h.l0) \cup (h.l0 + 1 .. h.l0 + h.l1)
  BY <1>1 DEF l_count
<1>3. (1 .. h.l0) \cap (h.l0 + 1 .. h.l0 + h.l1) = {}
  BY <1>1
<1>4. Codes(h) = L0(h) \cup L1(h) \cup ChromaCodes(h) \cup AlphaCodes(h)
  BY <1>2 DEF Codes, L0, L1, ChromaCodes, AlphaCodes
<1>5. L0(h) \cap L1(h) = {}
  BY <1>3 DEF L0, L1
<1> QED
  BY <1>4, <1>5 DEF L0, L1, ChromaCodes, AlphaCodes

LEMMA Counts ==
  ASSUME NEW h, ShapeOK(h)
  PROVE  /\ IsFiniteSet(L0(h)) /\ Cardinality(L0(h)) = h.l0
         /\ IsFiniteSet(L1(h)) /\ Cardinality(L1(h)) = h.l1
         /\ IsFiniteSet(ChromaCodes(h)) /\ Cardinality(ChromaCodes(h)) = 2 * h.c
         /\ IsFiniteSet(AlphaCodes(h)) /\ Cardinality(AlphaCodes(h)) = h.alpha
         /\ IsFiniteSet(Codes(h)) /\ Cardinality(Codes(h)) = CodeCount(h)
<1>1. h.l0 \in Nat /\ h.l1 \in Nat /\ h.c \in Nat /\ h.alpha \in Nat
  BY DEF ShapeOK
<1>2. \A m \in Int, n \in Int : m <= n + 1 =>
        IsFiniteSet(m .. n) /\ Cardinality(m .. n) = n - m + 1
  <2> SUFFICES ASSUME NEW m \in Int, NEW n \in Int, m <= n + 1
               PROVE  IsFiniteSet(m .. n) /\ Cardinality(m .. n) = n - m + 1
    OBVIOUS
  <2>1. IsFiniteSet(m .. n) /\ Cardinality(m .. n) = IF m > n THEN 0 ELSE n - m + 1
    BY FS_Interval
  <2> QED
    BY <2>1
<1>3a. \A n \in Nat : IsFiniteSet(1 .. n) /\ Cardinality(1 .. n) = n
  <2> SUFFICES ASSUME NEW n \in Nat
               PROVE  IsFiniteSet(1 .. n) /\ Cardinality(1 .. n) = n
    OBVIOUS
  <2>1. 1 \in Int /\ n \in Int /\ 1 <= n + 1
    OBVIOUS
  <2>2. IsFiniteSet(1 .. n) /\ Cardinality(1 .. n) = n - 1 + 1
    BY <1>2, <2>1
  <2> QED
    BY <2>2
<1>3b. /\ IsFiniteSet(h.l0 + 1 .. h.l0 + h.l1)
       /\ Cardinality(h.l0 + 1 .. h.l0 + h.l1) = h.l1
  <2>1. h.l0 + 1 \in Int /\ h.l0 + h.l1 \in Int /\ h.l0 + 1 <= h.l0 + h.l1 + 1
    BY <1>1
  <2>2. PICK m \in Int, n \in Int : m = h.l0 + 1 /\ n = h.l0 + h.l1
    BY <2>1
  <2>3. IsFiniteSet(m .. n) /\ Cardinality(m .. n) = n - m + 1
    BY <1>2, <2>1, <2>2
  <2>4. n - m + 1 = h.l1
    BY <1>1, <2>2
  <2> QED
    BY <2>2, <2>3, <2>4
<1>3. /\ IsFiniteSet(1 .. h.l0) /\ Cardinality(1 .. h.l0) = h.l0
      /\ IsFiniteSet(h.l0 + 1 .. h.l0 + h.l1) /\ Cardinality(h.l0 + 1 .. h.l0 + h.l1) = h.l1
      /\ IsFiniteSet(1 .. h.c) /\ Cardinality(1 .. h.c) = h.c
      /\ IsFiniteSet(1 .. h.alpha) /\ Cardinality(1 .. h.alpha) = h.alpha
  BY <1>1, <1>3a, <1>3b
<1>4. \A x : IsFiniteSet({x}) /\ Cardinality({x}) = 1
  BY FS_Singleton
<1>5. IsFiniteSet({"a", "b"}) /\ Cardinality({"a", "b"}) = 2
  <2>1. {"a", "b"} = {"a"} \cup {"b"} /\ "b" \notin {"a"}
    OBVIOUS
  <2>2. IsFiniteSet({"a"} \cup {"b"}) /\ Cardinality({"a"} \cup {"b"}) = Cardinality({"a"}) + 1
    BY <1>4, <2>1, FS_AddElement
  <2> QED
    BY <1>4, <2>1, <2>2
<1>5a. ASSUME NEW S, NEW T, IsFiniteSet(S), IsFiniteSet(T)
       PROVE  IsFiniteSet(S \X T) /\ Cardinality(S \X T) = Cardinality(S) * Cardinality(T)
  BY <1>5a, FS_Product
<1>6. IsFiniteSet(L0(h)) /\ Cardinality(L0(h)) = h.l0
  <2>1. /\ IsFiniteSet(L0(h))
        /\ Cardinality(L0(h)) = Cardinality({"L"}) * Cardinality(1 .. h.l0)
    BY <1>3, <1>4, <1>5a DEF L0
  <2>2. Cardinality(L0(h)) = 1 * h.l0
    BY <1>3, <1>4, <2>1
  <2>3. 1 * h.l0 = h.l0
    BY <1>1
  <2> QED
    BY <2>1, <2>2, <2>3
<1>7. IsFiniteSet(L1(h)) /\ Cardinality(L1(h)) = h.l1
  <2>1. /\ IsFiniteSet(L1(h))
        /\ Cardinality(L1(h)) = Cardinality({"L"}) * Cardinality(h.l0 + 1 .. h.l0 + h.l1)
    BY <1>3, <1>4, <1>5a DEF L1
  <2>2. Cardinality(L1(h)) = 1 * h.l1
    BY <1>3, <1>4, <2>1
  <2>3. 1 * h.l1 = h.l1
    BY <1>1
  <2> QED
    BY <2>1, <2>2, <2>3
<1>8. IsFiniteSet(ChromaCodes(h)) /\ Cardinality(ChromaCodes(h)) = 2 * h.c
  <2>1. /\ IsFiniteSet(ChromaCodes(h))
        /\ Cardinality(ChromaCodes(h)) = Cardinality({"a", "b"}) * Cardinality(1 .. h.c)
    BY <1>3, <1>5, <1>5a DEF ChromaCodes
  <2> QED
    BY <1>1, <1>3, <1>5, <2>1
<1>9. IsFiniteSet(AlphaCodes(h)) /\ Cardinality(AlphaCodes(h)) = h.alpha
  <2>1. /\ IsFiniteSet(AlphaCodes(h))
        /\ Cardinality(AlphaCodes(h)) = Cardinality({"alpha"}) * Cardinality(1 .. h.alpha)
    BY <1>3, <1>4, <1>5a DEF AlphaCodes
  <2>2. Cardinality(AlphaCodes(h)) = 1 * h.alpha
    BY <1>3, <1>4, <2>1
  <2>3. 1 * h.alpha = h.alpha
    BY <1>1
  <2> QED
    BY <2>1, <2>2, <2>3
<1>9a. ASSUME NEW S, NEW T, IsFiniteSet(S), IsFiniteSet(T), S \cap T = {}
       PROVE  IsFiniteSet(S \cup T) /\ Cardinality(S \cup T) = Cardinality(S) + Cardinality(T)
  <2>1. Cardinality(S) \in Nat /\ Cardinality(T) \in Nat /\ Cardinality({}) = 0
    BY <1>9a, FS_CardinalityType, FS_EmptySet
  <2>2. /\ IsFiniteSet(S \cup T)
        /\ Cardinality(S \cup T) = Cardinality(S) + Cardinality(T) - Cardinality(S \cap T)
    BY <1>9a, FS_Union
  <2>3. Cardinality(S \cup T) = Cardinality(S) + Cardinality(T) - 0
    BY <1>9a, <2>1, <2>2
  <2> QED
    BY <2>1, <2>2, <2>3
<1>10. IsFiniteSet(Codes(h)) /\ Cardinality(Codes(h)) = CodeCount(h)
  <2> DEFINE A == L0(h) \cup L1(h)
             B == A \cup ChromaCodes(h)
  <2>1. IsFiniteSet(A) /\ Cardinality(A) = h.l0 + h.l1
    <3>1. L0(h) \cap L1(h) = {}
      BY CodesSplit
    <3> QED
      BY <1>1, <1>6, <1>7, <1>9a, <3>1
  <2>2. IsFiniteSet(B) /\ Cardinality(B) = h.l0 + h.l1 + 2 * h.c
    <3>1. A \cap ChromaCodes(h) = {}
      BY CodesSplit
    <3> HIDE DEF A
    <3> QED
      BY <1>1, <1>8, <1>9a, <2>1, <3>1
  <2>3. IsFiniteSet(B \cup AlphaCodes(h)) /\ Cardinality(B \cup AlphaCodes(h)) = h.l0 + h.l1 + 2 * h.c + h.alpha
    <3>1. B \cap AlphaCodes(h) = {}
      BY CodesSplit
    <3> HIDE DEF B
    <3> QED
      BY <1>1, <1>9, <1>9a, <2>2, <3>1
  <2>4. B \cup AlphaCodes(h) = Codes(h)
    BY CodesSplit
  <2> QED
    BY <2>3, <2>4 DEF CodeCount, l_count
<1> QED
  BY <1>6, <1>7, <1>8, <1>9, <1>10

\* The bits of a set of codes.
Spent(h, D) ==
  Cardinality(D \cap L0(h)) * h.l0_bits + Cardinality(D \cap L1(h)) * h.l1_bits
    + Cardinality(D \cap ChromaCodes(h)) * h.c_bits + Cardinality(D \cap AlphaCodes(h)) * h.alpha_bits

LEMMA PartsAreFinite ==
  ASSUME NEW h, ShapeOK(h), NEW D
  PROVE  /\ IsFiniteSet(D \cap L0(h)) /\ Cardinality(D \cap L0(h)) \in Nat
         /\ IsFiniteSet(D \cap L1(h)) /\ Cardinality(D \cap L1(h)) \in Nat
         /\ IsFiniteSet(D \cap ChromaCodes(h)) /\ Cardinality(D \cap ChromaCodes(h)) \in Nat
         /\ IsFiniteSet(D \cap AlphaCodes(h)) /\ Cardinality(D \cap AlphaCodes(h)) \in Nat
BY Counts, FS_Intersection, FS_CardinalityType

LEMMA SpentIsNat == ASSUME NEW h, ShapeOK(h), NEW D PROVE Spent(h, D) \in Nat
<1>1. /\ Cardinality(D \cap L0(h)) * h.l0_bits \in Nat
      /\ Cardinality(D \cap L1(h)) * h.l1_bits \in Nat
      /\ Cardinality(D \cap ChromaCodes(h)) * h.c_bits \in Nat
      /\ Cardinality(D \cap AlphaCodes(h)) * h.alpha_bits \in Nat
  BY PartsAreFinite, ProductIsNat DEF ShapeOK
<1> QED
  BY <1>1 DEF Spent

LEMMA SpentNone == ASSUME NEW h, ShapeOK(h) PROVE Spent(h, {}) = 0
<1>1. \A S : Cardinality({} \cap S) = 0
  <2>1. \A S : {} \cap S = {}
    OBVIOUS
  <2> QED
    BY <2>1, FS_EmptySet
<1> QED
  BY <1>1 DEF Spent, ShapeOK

LEMMA SpentAll == ASSUME NEW h, ShapeOK(h) PROVE Spent(h, Codes(h)) = ac_payload_bits(h)
<1>1. /\ Codes(h) \cap L0(h) = L0(h) /\ Codes(h) \cap L1(h) = L1(h)
      /\ Codes(h) \cap ChromaCodes(h) = ChromaCodes(h) /\ Codes(h) \cap AlphaCodes(h) = AlphaCodes(h)
  BY CodesSplit
<1>2. Spent(h, Codes(h))
        = h.l0 * h.l0_bits + h.l1 * h.l1_bits + (2 * h.c) * h.c_bits + h.alpha * h.alpha_bits
  BY <1>1, Counts DEF Spent
<1> QED
  BY <1>2 DEF ac_payload_bits

\* One part of a set to which a code is added.
LEMMA PartAdds ==
  ASSUME NEW S, IsFiniteSet(S), NEW D, NEW f, f \notin D
  PROVE  Cardinality((D \cup {f}) \cap S)
           = IF f \in S THEN Cardinality(D \cap S) + 1 ELSE Cardinality(D \cap S)
<1>1. IsFiniteSet(D \cap S)
  BY FS_Intersection
<1>2. CASE f \in S
  <2>1. (D \cup {f}) \cap S = (D \cap S) \cup {f} /\ f \notin D \cap S
    BY <1>2
  <2> QED
    BY <1>1, <1>2, <2>1, FS_AddElement
<1>3. CASE f \notin S
  <2>1. (D \cup {f}) \cap S = D \cap S
    BY <1>3
  <2> QED
    BY <1>3, <2>1
<1> QED
  BY <1>2, <1>3

LEMMA SpentAdds ==
  ASSUME NEW h, ShapeOK(h), NEW D, NEW f \in Codes(h), f \notin D
  PROVE  Spent(h, D \cup {f}) = Spent(h, D) + bits_at(h, f)
<1> DEFINE E == D \cup {f}
           n(S, T) == Cardinality(S \cap T)
<1>1. \A S : IsFiniteSet(S) => n(E, S) = IF f \in S THEN n(D, S) + 1 ELSE n(D, S)
  BY PartAdds
<1>2. /\ n(E, L0(h)) = IF f \in L0(h) THEN n(D, L0(h)) + 1 ELSE n(D, L0(h))
      /\ n(E, L1(h)) = IF f \in L1(h) THEN n(D, L1(h)) + 1 ELSE n(D, L1(h))
      /\ n(E, ChromaCodes(h)) = IF f \in ChromaCodes(h) THEN n(D, ChromaCodes(h)) + 1 ELSE n(D, ChromaCodes(h))
      /\ n(E, AlphaCodes(h)) = IF f \in AlphaCodes(h) THEN n(D, AlphaCodes(h)) + 1 ELSE n(D, AlphaCodes(h))
  BY <1>1, Counts
<1>3. /\ n(D, L0(h)) \in Nat /\ n(D, L1(h)) \in Nat /\ n(D, ChromaCodes(h)) \in Nat
      /\ n(D, AlphaCodes(h)) \in Nat
  BY PartsAreFinite
<1>4. /\ Spent(h, D) = n(D, L0(h)) * h.l0_bits + n(D, L1(h)) * h.l1_bits
                         + n(D, ChromaCodes(h)) * h.c_bits + n(D, AlphaCodes(h)) * h.alpha_bits
      /\ Spent(h, E) = n(E, L0(h)) * h.l0_bits + n(E, L1(h)) * h.l1_bits
                         + n(E, ChromaCodes(h)) * h.c_bits + n(E, AlphaCodes(h)) * h.alpha_bits
  BY DEF Spent
<1> HIDE DEF n, E
<1>5. PICK k0, k1, k2, k3, w0, w1, w2, w3 :
        /\ k0 = n(D, L0(h)) /\ k1 = n(D, L1(h)) /\ k2 = n(D, ChromaCodes(h)) /\ k3 = n(D, AlphaCodes(h))
        /\ w0 = h.l0_bits /\ w1 = h.l1_bits /\ w2 = h.c_bits /\ w3 = h.alpha_bits
  OBVIOUS
<1>6. /\ k0 \in Nat /\ k1 \in Nat /\ k2 \in Nat /\ k3 \in Nat
      /\ w0 \in Nat /\ w1 \in Nat /\ w2 \in Nat /\ w3 \in Nat
  BY <1>3, <1>5 DEF ShapeOK
<1>7. /\ k0 * w0 \in Nat /\ k1 * w1 \in Nat /\ k2 * w2 \in Nat /\ k3 * w3 \in Nat
      /\ (k0 + 1) * w0 = k0 * w0 + w0 /\ (k1 + 1) * w1 = k1 * w1 + w1
      /\ (k2 + 1) * w2 = k2 * w2 + w2 /\ (k3 + 1) * w3 = k3 * w3 + w3
  BY <1>6, ProductIsNat, NextProduct
<1>8. CASE f \in L0(h)
  <2>1. f \notin L1(h) /\ f \notin ChromaCodes(h) /\ f \notin AlphaCodes(h)
    BY <1>8, CodesSplit
  <2>2. bits_at(h, f) = w0
    BY <1>5, <1>8 DEF bits_at, L0, ShapeOK
  <2>3. /\ n(E, L0(h)) = k0 + 1 /\ n(E, L1(h)) = k1 /\ n(E, ChromaCodes(h)) = k2
        /\ n(E, AlphaCodes(h)) = k3
    BY <1>2, <1>5, <1>8, <2>1
  <2>4. Spent(h, E) = (k0 + 1) * w0 + k1 * w1 + k2 * w2 + k3 * w3
    BY <1>4, <1>5, <2>3
  <2>5. Spent(h, D) = k0 * w0 + k1 * w1 + k2 * w2 + k3 * w3
    BY <1>4, <1>5
  <2> QED
    BY <1>6, <1>7, <2>2, <2>4, <2>5 DEF E
<1>9. CASE f \in L1(h)
  <2>1. f \notin L0(h) /\ f \notin ChromaCodes(h) /\ f \notin AlphaCodes(h)
    BY <1>9, CodesSplit
  <2>2. bits_at(h, f) = w1
    BY <1>5, <1>9 DEF bits_at, L1, ShapeOK
  <2>3. /\ n(E, L0(h)) = k0 /\ n(E, L1(h)) = k1 + 1 /\ n(E, ChromaCodes(h)) = k2
        /\ n(E, AlphaCodes(h)) = k3
    BY <1>2, <1>5, <1>9, <2>1
  <2>4. Spent(h, E) = k0 * w0 + (k1 + 1) * w1 + k2 * w2 + k3 * w3
    BY <1>4, <1>5, <2>3
  <2>5. Spent(h, D) = k0 * w0 + k1 * w1 + k2 * w2 + k3 * w3
    BY <1>4, <1>5
  <2> QED
    BY <1>6, <1>7, <2>2, <2>4, <2>5 DEF E
<1>10. CASE f \in ChromaCodes(h)
  <2>1. f \notin L0(h) /\ f \notin L1(h) /\ f \notin AlphaCodes(h)
    BY <1>10, CodesSplit
  <2>2. bits_at(h, f) = w2
    BY <1>5, <1>10 DEF bits_at, ChromaCodes
  <2>3. /\ n(E, L0(h)) = k0 /\ n(E, L1(h)) = k1 /\ n(E, ChromaCodes(h)) = k2 + 1
        /\ n(E, AlphaCodes(h)) = k3
    BY <1>2, <1>5, <1>10, <2>1
  <2>4. Spent(h, E) = k0 * w0 + k1 * w1 + (k2 + 1) * w2 + k3 * w3
    BY <1>4, <1>5, <2>3
  <2>5. Spent(h, D) = k0 * w0 + k1 * w1 + k2 * w2 + k3 * w3
    BY <1>4, <1>5
  <2> QED
    BY <1>6, <1>7, <2>2, <2>4, <2>5 DEF E
<1>11. CASE f \in AlphaCodes(h)
  <2>1. f \notin L0(h) /\ f \notin L1(h) /\ f \notin ChromaCodes(h)
    BY <1>11, CodesSplit
  <2>2. bits_at(h, f) = w3
    BY <1>5, <1>11 DEF bits_at, AlphaCodes
  <2>3. /\ n(E, L0(h)) = k0 /\ n(E, L1(h)) = k1 /\ n(E, ChromaCodes(h)) = k2
        /\ n(E, AlphaCodes(h)) = k3 + 1
    BY <1>2, <1>5, <1>11, <2>1
  <2>4. Spent(h, E) = k0 * w0 + k1 * w1 + k2 * w2 + (k3 + 1) * w3
    BY <1>4, <1>5, <2>3
  <2>5. Spent(h, D) = k0 * w0 + k1 * w1 + k2 * w2 + k3 * w3
    BY <1>4, <1>5
  <2> QED
    BY <1>6, <1>7, <2>2, <2>4, <2>5 DEF E
<1> QED
  BY <1>8, <1>9, <1>10, <1>11, CodesSplit

LEMMA SpentGrows ==
  ASSUME NEW h, ShapeOK(h), NEW D, NEW E, D \subseteq E
  PROVE  Spent(h, D) <= Spent(h, E)
<1>1. \A S : IsFiniteSet(E \cap S) => Cardinality(D \cap S) <= Cardinality(E \cap S)
  <2>1. \A S : D \cap S \in SUBSET (E \cap S)
    OBVIOUS
  <2> QED
    BY <2>1, FS_Subset
<1>2. PICK j0, j1, j2, j3, k0, k1, k2, k3, w0, w1, w2, w3 :
        /\ j0 = Cardinality(D \cap L0(h)) /\ j1 = Cardinality(D \cap L1(h))
        /\ j2 = Cardinality(D \cap ChromaCodes(h)) /\ j3 = Cardinality(D \cap AlphaCodes(h))
        /\ k0 = Cardinality(E \cap L0(h)) /\ k1 = Cardinality(E \cap L1(h))
        /\ k2 = Cardinality(E \cap ChromaCodes(h)) /\ k3 = Cardinality(E \cap AlphaCodes(h))
        /\ w0 = h.l0_bits /\ w1 = h.l1_bits /\ w2 = h.c_bits /\ w3 = h.alpha_bits
  OBVIOUS
<1>3. /\ j0 \in Nat /\ j1 \in Nat /\ j2 \in Nat /\ j3 \in Nat
      /\ k0 \in Nat /\ k1 \in Nat /\ k2 \in Nat /\ k3 \in Nat
      /\ w0 \in Nat /\ w1 \in Nat /\ w2 \in Nat /\ w3 \in Nat
  BY <1>2, PartsAreFinite DEF ShapeOK
<1>4. j0 <= k0 /\ j1 <= k1 /\ j2 <= k2 /\ j3 <= k3
  BY <1>1, <1>2, PartsAreFinite
<1>5. /\ j0 * w0 <= k0 * w0 /\ j1 * w1 <= k1 * w1 /\ j2 * w2 <= k2 * w2 /\ j3 * w3 <= k3 * w3
  BY <1>3, <1>4, ProductGrows
<1>6. /\ j0 * w0 \in Nat /\ j1 * w1 \in Nat /\ j2 * w2 \in Nat /\ j3 * w3 \in Nat
      /\ k0 * w0 \in Nat /\ k1 * w1 \in Nat /\ k2 * w2 \in Nat /\ k3 * w3 \in Nat
  BY <1>3, ProductIsNat
<1>7. /\ Spent(h, D) = j0 * w0 + j1 * w1 + j2 * w2 + j3 * w3
      /\ Spent(h, E) = k0 * w0 + k1 * w1 + k2 * w2 + k3 * w3
  BY <1>2 DEF Spent
<1> QED
  BY <1>5, <1>6, <1>7

-----------------------------------------------------------------------------
(* The order of the codes, and the bit each starts at                          *)

\* A place for every code, one each.
IsOrder(o, h) ==
  /\ o \in [1 .. CodeCount(h) -> Codes(h)]
  /\ \A i, j \in 1 .. CodeCount(h) : o[i] = o[j] => i = j
  /\ \A f \in Codes(h) : \E i \in 1 .. CodeCount(h) : o[i] = f

Order(u, a, q, p) == IF u.interleave /\ ~ a THEN Merged[<<u, q, p>>]
                                            ELSE Sequential(ac_shape(u, a, q))

LEMMA CountIsNat == ASSUME NEW h, ShapeOK(h) PROVE CodeCount(h) \in Nat
BY DEF ShapeOK, CodeCount, l_count

LEMMA SequentialIsOrder == ASSUME NEW h, ShapeOK(h) PROVE IsOrder(Sequential(h), h)
<1> DEFINE A == l_count(h)
           B == A + h.c
           Z == B + h.c
           N == Z + h.alpha
           o == Sequential(h)
<1>1. h.c \in Nat /\ h.alpha \in Nat /\ A \in Nat /\ B \in Nat /\ Z \in Nat /\ N \in Nat
  BY DEF ShapeOK, l_count
<1>2. CodeCount(h) = N
  BY <1>1 DEF CodeCount
<1>3. o = [k \in 1 .. N |-> IF k <= A THEN <<"L", k>>
                            ELSE IF k <= B THEN <<"a", k - A>>
                            ELSE IF k <= Z THEN <<"b", k - B>>
                            ELSE <<"alpha", k - Z>>]
  BY DEF Sequential
<1>4. Codes(h) = ({"L"} \X (1 .. A)) \cup ({"a", "b"} \X (1 .. h.c)) \cup ({"alpha"} \X (1 .. h.alpha))
  BY DEF Codes
<1>5. B = A + h.c /\ Z = B + h.c /\ N = Z + h.alpha
  OBVIOUS
<1> HIDE DEF A, B, Z, N, o
<1>5c. A <= B /\ B <= Z /\ Z <= N
  BY <1>1, <1>5
<1>5a. \A k \in 1 .. N :
         /\ k <= A => o[k] = <<"L", k>>
         /\ ~ k <= A /\ k <= B => o[k] = <<"a", k - A>>
         /\ ~ k <= A /\ ~ k <= B /\ k <= Z => o[k] = <<"b", k - B>>
         /\ ~ k <= A /\ ~ k <= B /\ ~ k <= Z => o[k] = <<"alpha", k - Z>>
  BY <1>3, Zenon
<1>5b. ASSUME NEW k \in 1 .. N
       PROVE  \/ k \in 1 .. A /\ o[k] = <<"L", k>>
              \/ \E j \in 1 .. h.c : k = A + j /\ o[k] = <<"a", j>>
              \/ \E j \in 1 .. h.c : k = B + j /\ o[k] = <<"b", j>>
              \/ \E j \in 1 .. h.alpha : k = Z + j /\ o[k] = <<"alpha", j>>
  <2>1. CASE k <= A
    BY <1>1, <1>5a, <2>1
  <2>2. CASE ~ k <= A /\ k <= B
    <3>1. PICK j \in 1 .. h.c : k = A + j /\ j = k - A
      BY <1>1, <1>5, <2>2
    <3> QED
      BY <1>5a, <2>2, <3>1
  <2>3. CASE ~ k <= A /\ ~ k <= B /\ k <= Z
    <3>1. PICK j \in 1 .. h.c : k = B + j /\ j = k - B
      BY <1>1, <1>5, <2>3
    <3> QED
      BY <1>5a, <2>3, <3>1
  <2>4. CASE ~ k <= A /\ ~ k <= B /\ ~ k <= Z
    <3>1. PICK j \in 1 .. h.alpha : k = Z + j /\ j = k - Z
      BY <1>1, <1>5, <2>4
    <3> QED
      BY <1>5a, <2>4, <3>1
  <2> QED
    BY <2>1, <2>2, <2>3, <2>4
<1>6. o \in [1 .. N -> Codes(h)]
  <2>1. ASSUME NEW k \in 1 .. N PROVE o[k] \in Codes(h)
    BY <1>4, <1>5b
  <2> QED
    BY <1>3, <2>1
<1>7. \A i, j \in 1 .. N : o[i] = o[j] => i = j
  <2> SUFFICES ASSUME NEW i \in 1 .. N, NEW j \in 1 .. N, o[i] = o[j] PROVE i = j
    OBVIOUS
  <2> QED
    BY <1>5b
<1>8. ASSUME NEW f \in Codes(h) PROVE \E i \in 1 .. N : o[i] = f
  <2>1. CASE f \in {"L"} \X (1 .. A)
    <3>1. PICK k \in 1 .. A : f = <<"L", k>>
      BY <2>1
    <3>2. k \in 1 .. N /\ o[k] = f
      BY <1>1, <1>5, <1>5a, <3>1
    <3> QED
      BY <3>2
  <2>2. CASE f \in {"a", "b"} \X (1 .. h.c)
    <3>1. PICK k \in 1 .. h.c : f = <<"a", k>> \/ f = <<"b", k>>
      BY <2>2
    <3>2. CASE f = <<"a", k>>
      <4>1. PICK i \in 1 .. N : i = A + k /\ ~ i <= A /\ i <= B /\ i - A = k
        BY <1>1, <1>5
      <4> QED
        BY <1>5a, <3>2, <4>1
    <3>3. CASE f = <<"b", k>>
      <4>1. /\ B + k \in 1 .. N
            /\ ~ B + k <= A /\ ~ B + k <= B /\ B + k <= Z /\ B + k - B = k
        BY <1>1, <1>5
      <4>2. PICK i \in 1 .. N : i = B + k
        BY <4>1
      <4>3. ~ i <= A /\ ~ i <= B /\ i <= Z /\ i - B = k
        BY <1>1, <1>5, <4>2
      <4> QED
        BY <1>5a, <3>3, <4>3
    <3> QED
      BY <3>1, <3>2, <3>3
  <2>3. CASE f \in {"alpha"} \X (1 .. h.alpha)
    <3>1. PICK k \in 1 .. h.alpha : f = <<"alpha", k>>
      BY <2>3
    <3>2. /\ Z + k \in 1 .. N
          /\ ~ Z + k <= A /\ ~ Z + k <= B /\ ~ Z + k <= Z /\ Z + k - Z = k
      BY <1>1, <1>5
    <3>3. PICK i \in 1 .. N : i = Z + k
      BY <3>2
    <3>4. ~ i <= A /\ ~ i <= B /\ ~ i <= Z /\ i - Z = k
      BY <1>1, <1>5c, <3>3
    <3> QED
      BY <1>5a, <3>1, <3>4
  <2> QED
    BY <1>4, <1>8, <2>1, <2>2, <2>3
<1> QED
  BY <1>2, <1>6, <1>7, <1>8 DEF IsOrder, o

LEMMA OrderIs ==
  ASSUME NEW u \in Tunables, NEW a \in BOOLEAN, NEW q \in 0 .. MAX_TIER, NEW p \in Aspects
  PROVE  IsOrder(Order(u, a, q, p), ac_shape(u, a, q))
<1> DEFINE h == ac_shape(u, a, q)
           m == Merged[<<u, q, p>>]
           n == CodeCount(h)
<1>1. ShapeOK(h) /\ (~ a => h.alpha = 0)
  BY ShapeIs
<1>2. CASE ~ (u.interleave /\ ~ a)
  BY <1>1, <1>2, SequentialIsOrder DEF Order
<1>3. CASE u.interleave /\ ~ a
  <2>1. h = ac_shape(u, FALSE, q)
    BY <1>3
  <2>2. m \in [1 .. n -> MergedCodes(h)] /\ \A i, j \in 1 .. n : m[i] = m[j] => i = j
    BY <1>3, <2>1, MergedAssumption
  <2> HIDE DEF h, m, n
  <2>3. m \in [1 .. n -> Codes(h)]
    BY <2>2 DEF MergedCodes
  <2>4. m \in Injection(1 .. n, Codes(h))
    BY <2>2, <2>3 DEF Injection, IsInjective
  <2>5. n \in Nat /\ n = CodeCount(h)
    BY <1>1, CountIsNat DEF n
  <2>6. Cardinality(1 .. n) = n
    BY <2>5, FS_Interval
  <2>7. IsFiniteSet(Codes(h)) /\ Cardinality(Codes(h)) = n
    BY <1>1, <2>5, Counts
  <2>8. m \in Surjection(1 .. n, Codes(h))
    BY <2>4, <2>6, <2>7, FS_Injection
  <2>9. \A f \in Codes(h) : \E i \in 1 .. n : m[i] = f
    BY <2>8 DEF Surjection
  <2> QED
    BY <1>3, <2>2, <2>3, <2>5, <2>9 DEF IsOrder, Order, h, m
<1> QED
  BY <1>2, <1>3

\* Both sides have the same widths.
LEMMA WidthsAgree ==
  ASSUME NEW h, ShapeOK(h), NEW f \in Codes(h)
  PROVE  bits_at(h, f) \in Nat \ {0} /\ read_bits_at(h, f) = bits_at(h, f)
<1>1. CASE f \in {"L"} \X (1 .. l_count(h))
  BY <1>1 DEF ShapeOK, bits_at, read_bits_at, l_bits_at, l_count
<1>2. CASE f \in {"a", "b"} \X (1 .. h.c)
  BY <1>2 DEF ShapeOK, bits_at, read_bits_at
<1>3. CASE f \in {"alpha"} \X (1 .. h.alpha)
  BY <1>3 DEF ShapeOK, bits_at, read_bits_at
<1> QED
  BY <1>1, <1>2, <1>3 DEF Codes

\* The bit after the first n codes of an order.
FirstOf(o, n) == {o[j] : j \in 1 .. n}

Place(u, a, h, o, n) == prefix_bits(u) + alpha_prefix(u, a) + Spent(h, FirstOf(o, n))

LEMMA PrefixIsNat ==
  ASSUME NEW u \in Tunables, NEW a \in BOOLEAN
  PROVE  prefix_bits(u) \in Nat /\ alpha_prefix(u, a) \in Nat /\ prefix_bits(u) >= 8
<1>1. /\ u.aspect_bits \in Nat /\ u.l_dc_bits \in Nat /\ u.a_dc_bits \in Nat
      /\ u.b_dc_bits \in Nat /\ u.l_scale_bits \in Nat /\ u.a_scale_bits \in Nat
      /\ u.b_scale_bits \in Nat /\ u.cfl_bits \in Nat /\ u.alpha_dc_bits \in Nat
      /\ u.alpha_scale_bits \in Nat
  BY TunablesAssumption DEF TunablesAssumption
<1> QED
  BY <1>1 DEF prefix_bits, alpha_prefix

LEMMA Places ==
  ASSUME NEW u \in Tunables, NEW a \in BOOLEAN, NEW h, ShapeOK(h), NEW o, IsOrder(o, h)
  PROVE  /\ Place(u, a, h, o, 0) = prefix_bits(u) + alpha_prefix(u, a)
         /\ Place(u, a, h, o, CodeCount(h))
              = prefix_bits(u) + alpha_prefix(u, a) + ac_payload_bits(h)
         /\ \A n \in 0 .. CodeCount(h) :
              /\ Place(u, a, h, o, n) \in Nat
              /\ Place(u, a, h, o, n) >= 8
              /\ Place(u, a, h, o, n)
                   <= prefix_bits(u) + alpha_prefix(u, a) + ac_payload_bits(h)
         /\ \A n \in 0 .. CodeCount(h) - 1 :
              /\ o[n + 1] \in Codes(h)
              /\ Place(u, a, h, o, n + 1) = Place(u, a, h, o, n) + bits_at(h, o[n + 1])
<1> DEFINE N == CodeCount(h)
           x == prefix_bits(u) + alpha_prefix(u, a)
<1>1. N \in Nat /\ x \in Nat /\ x >= 8
  BY CountIsNat, PrefixIsNat
<1>2. /\ o \in [1 .. N -> Codes(h)]
      /\ \A i, j \in 1 .. N : o[i] = o[j] => i = j
      /\ \A f \in Codes(h) : \E i \in 1 .. N : o[i] = f
  BY DEF IsOrder
<1>3. \A n : Place(u, a, h, o, n) = x + Spent(h, FirstOf(o, n))
  BY DEF Place
<1> HIDE DEF N, x
<1>4. FirstOf(o, 0) = {}
  BY DEF FirstOf
<1>5. FirstOf(o, N) = Codes(h)
  BY <1>2 DEF FirstOf
<1>6. ASSUME NEW n \in 0 .. N
      PROVE  /\ FirstOf(o, n) \subseteq Codes(h)
             /\ Spent(h, FirstOf(o, n)) \in Nat
             /\ Spent(h, FirstOf(o, n)) <= ac_payload_bits(h)
  <2>1. FirstOf(o, n) \subseteq Codes(h)
    BY <1>1, <1>2 DEF FirstOf
  <2> QED
    BY <2>1, SpentIsNat, SpentGrows, SpentAll
<1>7. ASSUME NEW n \in 0 .. N - 1
      PROVE  /\ o[n + 1] \in Codes(h)
             /\ Spent(h, FirstOf(o, n + 1)) = Spent(h, FirstOf(o, n)) + bits_at(h, o[n + 1])
  <2>1. n + 1 \in 1 .. N
    BY <1>1
  <2>2. o[n + 1] \in Codes(h)
    BY <1>2, <2>1
  <2>3. FirstOf(o, n + 1) = FirstOf(o, n) \cup {o[n + 1]}
    <3>1. 1 .. n + 1 = (1 .. n) \cup {n + 1}
      BY <1>1
    <3> QED
      BY <3>1 DEF FirstOf
  <2>4. o[n + 1] \notin FirstOf(o, n)
    <3>1. \A j \in 1 .. n : j \in 1 .. N /\ j # n + 1
      BY <1>1
    <3> QED
      BY <1>2, <2>1, <3>1 DEF FirstOf
  <2> QED
    BY <2>2, <2>3, <2>4, SpentAdds
<1>8. Spent(h, FirstOf(o, 0)) = 0 /\ Spent(h, FirstOf(o, N)) = ac_payload_bits(h)
  BY <1>4, <1>5, SpentNone, SpentAll
<1>9. ac_payload_bits(h) \in Nat
  BY <1>1, <1>6, <1>8
<1>10. Place(u, a, h, o, 0) = x /\ Place(u, a, h, o, N) = x + ac_payload_bits(h)
  BY <1>1, <1>3, <1>8
<1>11. ASSUME NEW n \in 0 .. N
       PROVE  /\ Place(u, a, h, o, n) \in Nat /\ Place(u, a, h, o, n) >= 8
              /\ Place(u, a, h, o, n) <= x + ac_payload_bits(h)
  BY <1>1, <1>3, <1>6, <1>9
<1>12. ASSUME NEW n \in 0 .. N - 1
       PROVE  /\ o[n + 1] \in Codes(h)
              /\ Place(u, a, h, o, n + 1) = Place(u, a, h, o, n) + bits_at(h, o[n + 1])
  <2>1. n \in 0 .. N /\ Spent(h, FirstOf(o, n)) \in Nat
    BY <1>1, <1>6
  <2>2. bits_at(h, o[n + 1]) \in Nat
    BY <1>7, WidthsAgree
  <2>3. /\ Place(u, a, h, o, n + 1) = x + Spent(h, FirstOf(o, n + 1))
        /\ Place(u, a, h, o, n) = x + Spent(h, FirstOf(o, n))
    BY <1>3
  <2> QED
    BY <1>1, <1>7, <2>1, <2>2, <2>3
<1> QED
  BY <1>10, <1>11, <1>12 DEF N, x

-----------------------------------------------------------------------------
(* The header                                                                  *)

\* A layout may do without the scale of b and without the chroma from luma.
Has(u, a, n) ==
  /\ n = "b_scale" => ~ u.b_scale_from_a
  /\ n \in {"cfl_a", "cfl_b"} => u.cfl_bits > 0
  /\ n \in {"alpha_dc", "alpha_scale"} => a

\* The codes come after all of it.
Rank(n) ==
  CASE n = "aspect" -> 1 [] n = "l_dc" -> 2 [] n = "a_dc" -> 3 [] n = "b_dc" -> 4
    [] n = "l_scale" -> 5 [] n = "a_scale" -> 6 [] n = "b_scale" -> 7 [] n = "cfl_a" -> 8
    [] n = "cfl_b" -> 9 [] n = "alpha_dc" -> 10 [] n = "alpha_scale" -> 11
    [] OTHER -> 12

At(u, a, n) ==
  LET dc == 8 + u.aspect_bits
      scale == dc + u.l_dc_bits + u.a_dc_bits + u.b_dc_bits
  IN  CASE n = "aspect" -> 8
        [] n = "l_dc" -> dc
        [] n = "a_dc" -> dc + u.l_dc_bits
        [] n = "b_dc" -> dc + u.l_dc_bits + u.a_dc_bits
        [] n = "l_scale" -> scale
        [] n = "a_scale" -> scale + u.l_scale_bits
        [] n = "b_scale" -> scale + u.l_scale_bits + u.a_scale_bits
        [] n = "cfl_a" -> prefix_bits(u) - 2 * u.cfl_bits
        [] n = "cfl_b" -> prefix_bits(u) - u.cfl_bits
        [] n = "alpha_dc" -> prefix_bits(u)
        [] n = "alpha_scale" -> prefix_bits(u) + u.alpha_dc_bits
        [] OTHER -> prefix_bits(u) + alpha_prefix(u, a)

\* The field after n, for either side.
After(u, a, n) ==
  LET payload == IF a THEN "alpha_dc" ELSE "ac"
      cfl == IF u.cfl_bits > 0 THEN "cfl_a" ELSE payload
  IN  CASE n = "aspect" -> "l_dc"
        [] n = "l_dc" -> "a_dc"
        [] n = "a_dc" -> "b_dc"
        [] n = "b_dc" -> "l_scale"
        [] n = "l_scale" -> "a_scale"
        [] n = "a_scale" -> (IF u.b_scale_from_a THEN cfl ELSE "b_scale")
        [] n = "b_scale" -> cfl
        [] n = "cfl_a" -> "cfl_b"
        [] n = "cfl_b" -> payload
        [] n = "alpha_dc" -> "alpha_scale"
        [] n = "alpha_scale" -> "ac"

LEMMA WidthsAreNat ==
  ASSUME NEW u \in Tunables
  PROVE  /\ u.aspect_bits \in Nat /\ u.l_dc_bits \in Nat /\ u.a_dc_bits \in Nat
         /\ u.b_dc_bits \in Nat /\ u.l_scale_bits \in Nat /\ u.a_scale_bits \in Nat
         /\ u.b_scale_bits \in Nat /\ u.cfl_bits \in Nat /\ u.alpha_dc_bits \in Nat
         /\ u.alpha_scale_bits \in Nat
         /\ \A n \in HeaderNames : HeaderWidth(u, n) \in Nat
<1>1. /\ u.aspect_bits \in Nat /\ u.l_dc_bits \in Nat /\ u.a_dc_bits \in Nat
      /\ u.b_dc_bits \in Nat /\ u.l_scale_bits \in Nat /\ u.a_scale_bits \in Nat
      /\ u.b_scale_bits \in Nat /\ u.cfl_bits \in Nat /\ u.alpha_dc_bits \in Nat
      /\ u.alpha_scale_bits \in Nat
  BY TunablesAssumption DEF TunablesAssumption
<1> QED
  BY <1>1 DEF HeaderNames, HeaderWidth

\* A field ends where the next one starts, and before the codes.
LEMMA Chain ==
  ASSUME NEW u \in Tunables, NEW a \in BOOLEAN, NEW n \in HeaderNames, Has(u, a, n)
  PROVE  /\ At(u, a, n) \in Nat /\ At(u, a, n) >= 8
         /\ At(u, a, n) + HeaderWidth(u, n) <= prefix_bits(u) + alpha_prefix(u, a)
         /\ At(u, a, After(u, a, n)) = At(u, a, n) + HeaderWidth(u, n)
         /\ After(u, a, n) \in HeaderNames \cup {"ac"}
         /\ After(u, a, n) # "aspect"
         /\ Has(u, a, After(u, a, n))
<1>1. n = "aspect" \/ n = "l_dc" \/ n = "a_dc" \/ n = "b_dc" \/
      n = "l_scale" \/ n = "a_scale" \/ n = "b_scale" \/ n = "cfl_a" \/
      n = "cfl_b" \/ n = "alpha_dc" \/ n = "alpha_scale"
  BY DEF HeaderNames
<1>2. CASE n = "aspect"
  BY <1>2, WidthsAreNat DEF At, After, Has, HeaderNames, HeaderWidth, prefix_bits,
    alpha_prefix
<1>3. CASE n = "l_dc"
  BY <1>3, WidthsAreNat DEF At, After, Has, HeaderNames, HeaderWidth, prefix_bits,
    alpha_prefix
<1>4. CASE n = "a_dc"
  BY <1>4, WidthsAreNat DEF At, After, Has, HeaderNames, HeaderWidth, prefix_bits,
    alpha_prefix
<1>5. CASE n = "b_dc"
  BY <1>5, WidthsAreNat DEF At, After, Has, HeaderNames, HeaderWidth, prefix_bits,
    alpha_prefix
<1>6. CASE n = "l_scale"
  BY <1>6, WidthsAreNat DEF At, After, Has, HeaderNames, HeaderWidth, prefix_bits,
    alpha_prefix
<1>7. CASE n = "a_scale"
  BY <1>7, WidthsAreNat DEF At, After, Has, HeaderNames, HeaderWidth, prefix_bits,
    alpha_prefix
<1>8. CASE n = "b_scale"
  BY <1>8, WidthsAreNat DEF At, After, Has, HeaderNames, HeaderWidth, prefix_bits,
    alpha_prefix
<1>9. CASE n = "cfl_a"
  BY <1>9, WidthsAreNat DEF At, After, Has, HeaderNames, HeaderWidth, prefix_bits,
    alpha_prefix
<1>10. CASE n = "cfl_b"
  BY <1>10, WidthsAreNat DEF At, After, Has, HeaderNames, HeaderWidth, prefix_bits,
    alpha_prefix
<1>11. CASE n = "alpha_dc"
  BY <1>11, WidthsAreNat DEF At, After, Has, HeaderNames, HeaderWidth, prefix_bits,
    alpha_prefix
<1>12. CASE n = "alpha_scale"
  BY <1>12, WidthsAreNat DEF At, After, Has, HeaderNames, HeaderWidth, prefix_bits,
    alpha_prefix
<1> QED
  BY <1>1, <1>2, <1>3, <1>4, <1>5, <1>6, <1>7, <1>8, <1>9, <1>10, <1>11, <1>12

\* Only fields a layout does without are skipped.
LEMMA NoneSkipped ==
  ASSUME NEW u \in Tunables, NEW a \in BOOLEAN, NEW n \in HeaderNames, NEW m \in HeaderNames,
         Has(u, a, n), Has(u, a, m), Rank(m) < Rank(After(u, a, n))
  PROVE  Rank(m) < Rank(n) \/ m = n
<1>1. u.cfl_bits \in Nat
  BY WidthsAreNat
<1>2. n = "aspect" \/ n = "l_dc" \/ n = "a_dc" \/ n = "b_dc" \/
      n = "l_scale" \/ n = "a_scale" \/ n = "b_scale" \/ n = "cfl_a" \/
      n = "cfl_b" \/ n = "alpha_dc" \/ n = "alpha_scale"
  BY DEF HeaderNames
<1>3. CASE n = "aspect"
  BY <1>1, <1>3 DEF After, Has, HeaderNames, Rank
<1>4. CASE n = "l_dc"
  BY <1>1, <1>4 DEF After, Has, HeaderNames, Rank
<1>5. CASE n = "a_dc"
  BY <1>1, <1>5 DEF After, Has, HeaderNames, Rank
<1>6. CASE n = "b_dc"
  BY <1>1, <1>6 DEF After, Has, HeaderNames, Rank
<1>7. CASE n = "l_scale"
  BY <1>1, <1>7 DEF After, Has, HeaderNames, Rank
<1>8. CASE n = "a_scale"
  BY <1>1, <1>8 DEF After, Has, HeaderNames, Rank
<1>9. CASE n = "b_scale"
  BY <1>1, <1>9 DEF After, Has, HeaderNames, Rank
<1>10. CASE n = "cfl_a"
  BY <1>1, <1>10 DEF After, Has, HeaderNames, Rank
<1>11. CASE n = "cfl_b"
  BY <1>1, <1>11 DEF After, Has, HeaderNames, Rank
<1>12. CASE n = "alpha_dc"
  BY <1>1, <1>12 DEF After, Has, HeaderNames, Rank
<1>13. CASE n = "alpha_scale"
  BY <1>1, <1>13 DEF After, Has, HeaderNames, Rank
<1> QED
  BY <1>2, <1>3, <1>4, <1>5, <1>6, <1>7, <1>8, <1>9, <1>10, <1>11, <1>12, <1>13

LEMMA RanksEnd == \A n \in HeaderNames : 1 <= Rank(n) /\ Rank(n) < 12 /\ Rank("ac") = 12
BY DEF HeaderNames, Rank

-----------------------------------------------------------------------------
(* The bits of a string                                                        *)

Ored(b, f, x, w) ==
  [p \in DOMAIN b |-> IF p \in x .. x + w - 1 THEN b[p] \cup {<<f, p - x>>} ELSE b[p]]

\* Bits 8 to n - 1 belong to one field each, the others to none.
Cover(b, n) ==
  \A p \in DOMAIN b : IF p \in 8 .. n - 1 THEN \E s \in b[p] : b[p] = {s} ELSE b[p] = {}

\* Field f is at bit x, whole and alone.
Stored(b, f, x, w) == \A k \in 0 .. w - 1 : x + k \in DOMAIN b /\ b[x + k] = {<<f, k>>}

Headers(b, u, a, r, n) ==
  \A m \in HeaderNames : Has(u, a, m) /\ Rank(m) < r =>
    /\ Stored(b, <<m, 1>>, At(u, a, m), HeaderWidth(u, m))
    /\ At(u, a, m) + HeaderWidth(u, m) <= n

FirstCodes(b, u, a, h, o, c, n) ==
  \A i \in 1 .. c :
    /\ Stored(b, o[i], Place(u, a, h, o, i - 1), bits_at(h, o[i]))
    /\ Place(u, a, h, o, i - 1) + bits_at(h, o[i]) <= n

Owned(b, u, a, h, o, c) ==
  \A p \in DOMAIN b : \A s \in b[p] :
    \/ s[1][1] \in HeaderNames
    \/ \E i \in 1 .. c : /\ s[1] = o[i]
                         /\ Place(u, a, h, o, i - 1) <= p
                         /\ p < Place(u, a, h, o, i - 1) + bits_at(h, o[i])

\* The fields of a rank below r and the first c codes fill the string up to bit n.
Laid(b, u, a, h, o, r, c, n) ==
  /\ Cover(b, n) /\ Headers(b, u, a, r, n) /\ FirstCodes(b, u, a, h, o, c, n)
  /\ Owned(b, u, a, h, o, c)

LEMMA OredStores ==
  ASSUME NEW n \in Nat, NEW b, DOMAIN b = 0 .. n - 1, NEW f, NEW x \in Nat, NEW w \in Nat,
         x >= 8, x + w <= n, Cover(b, x)
  PROVE  /\ DOMAIN Ored(b, f, x, w) = 0 .. n - 1
         /\ Cover(Ored(b, f, x, w), x + w)
         /\ Stored(Ored(b, f, x, w), f, x, w)
         /\ \A g, y, v : y \in Nat /\ v \in Nat /\ y + v <= x /\ Stored(b, g, y, v)
                           => Stored(Ored(b, f, x, w), g, y, v)
         /\ \A p \in 0 .. n - 1 : \A s \in Ored(b, f, x, w)[p] :
              s \in b[p] \/ (s[1] = f /\ x <= p /\ p < x + w)
<1> DEFINE c == Ored(b, f, x, w)
<1>1. DOMAIN c = 0 .. n - 1
  BY DEF Ored
<1>2. \A p \in 0 .. n - 1 : c[p] = IF p \in x .. x + w - 1 THEN b[p] \cup {<<f, p - x>>} ELSE b[p]
  BY DEF Ored
<1> HIDE DEF c
<1>3. \A p \in 0 .. n - 1 : p >= x => b[p] = {}
  BY DEF Cover
<1>4. ASSUME NEW p \in 0 .. n - 1, p \in x .. x + w - 1 PROVE c[p] = {<<f, p - x>>}
  <2>0. p >= x
    BY <1>4
  <2>1a. c[p] = b[p] \cup {<<f, p - x>>}
    BY <1>2, <1>4, Zenon
  <2>1b. b[p] = {}
    BY <1>3, <2>0
  <2>2. \A e : {} \cup {e} = {e}
    OBVIOUS
  <2> QED
    BY <2>1a, <2>1b, <2>2, Zenon
<1>5. Cover(c, x + w)
  <2> SUFFICES ASSUME NEW p \in 0 .. n - 1
               PROVE  IF p \in 8 .. x + w - 1 THEN \E s \in c[p] : c[p] = {s} ELSE c[p] = {}
    BY <1>1 DEF Cover
  <2>1. CASE p \in x .. x + w - 1
    <3>1. c[p] = {<<f, p - x>>} /\ p \in 8 .. x + w - 1
      BY <1>4, <2>1
    <3> QED
      BY <3>1
  <2>2. CASE p \notin x .. x + w - 1
    <3>1. c[p] = b[p]
      BY <1>2, <2>2
    <3>2. p \in 8 .. x + w - 1 <=> p \in 8 .. x - 1
      BY <2>2
    <3> QED
      BY <3>1, <3>2 DEF Cover
  <2> QED
    BY <2>1, <2>2
<1>6. Stored(c, f, x, w)
  <2> SUFFICES ASSUME NEW k \in 0 .. w - 1
               PROVE  x + k \in DOMAIN c /\ c[x + k] = {<<f, k>>}
    BY DEF Stored
  <2>1. x + k \in 0 .. n - 1 /\ x + k \in x .. x + w - 1 /\ x + k - x = k
    OBVIOUS
  <2>2. c[x + k] = {<<f, x + k - x>>}
    BY <1>4, <2>1
  <2> QED
    BY <1>1, <2>1, <2>2
<1>7. ASSUME NEW g, NEW y \in Nat, NEW v \in Nat, y + v <= x, Stored(b, g, y, v)
      PROVE  Stored(c, g, y, v)
  <2> SUFFICES ASSUME NEW k \in 0 .. v - 1
               PROVE  y + k \in DOMAIN c /\ c[y + k] = {<<g, k>>}
    BY DEF Stored
  <2>1. y + k \in 0 .. n - 1 /\ b[y + k] = {<<g, k>>}
    BY <1>7 DEF Stored
  <2>2. y + k \notin x .. x + w - 1
    BY <1>7
  <2> QED
    BY <1>1, <1>2, <2>1, <2>2
<1>8. ASSUME NEW p \in 0 .. n - 1, NEW s \in c[p]
      PROVE  s \in b[p] \/ (s[1] = f /\ x <= p /\ p < x + w)
  <2>1. CASE p \in x .. x + w - 1
    <3>1. s = <<f, p - x>>
      BY <1>4, <2>1
    <3> QED
      BY <2>1, <3>1
  <2>2. CASE p \notin x .. x + w - 1
    BY <1>2, <1>8, <2>2
  <2> QED
    BY <2>1, <2>2
<1> QED
  BY <1>1, <1>5, <1>6, <1>7, <1>8 DEF c

LEMMA LayHeader ==
  ASSUME NEW u \in Tunables, NEW a \in BOOLEAN, NEW h, NEW o, NEW n \in Nat,
         NEW b, DOMAIN b = 0 .. n - 1,
         NEW m \in HeaderNames, Has(u, a, m),
         At(u, a, m) + HeaderWidth(u, m) <= n,
         Laid(b, u, a, h, o, Rank(m), 0, At(u, a, m))
  PROVE  Laid(Ored(b, <<m, 1>>, At(u, a, m), HeaderWidth(u, m)), u, a, h, o,
              Rank(After(u, a, m)), 0, At(u, a, m) + HeaderWidth(u, m))
<1> DEFINE x == At(u, a, m)
           w == HeaderWidth(u, m)
           f == <<m, 1>>
           c == Ored(b, f, x, w)
<1>1. x \in Nat /\ x >= 8 /\ w \in Nat /\ x + w <= n
  BY Chain, WidthsAreNat
<1>2. Cover(b, x) /\ Headers(b, u, a, Rank(m), x) /\ Owned(b, u, a, h, o, 0)
  BY DEF Laid
<1>3. /\ DOMAIN c = 0 .. n - 1
      /\ Cover(c, x + w)
      /\ Stored(c, f, x, w)
      /\ \A g, y, v : y \in Nat /\ v \in Nat /\ y + v <= x /\ Stored(b, g, y, v)
                        => Stored(c, g, y, v)
      /\ \A p \in 0 .. n - 1 : \A s \in c[p] :
           s \in b[p] \/ (s[1] = f /\ x <= p /\ p < x + w)
  <2> HIDE DEF x, w, f
  <2> QED
    BY <1>1, <1>2, OredStores
<1> HIDE DEF x, w, c
<1>4. Headers(c, u, a, Rank(After(u, a, m)), x + w)
  <2> SUFFICES ASSUME NEW k \in HeaderNames, Has(u, a, k), Rank(k) < Rank(After(u, a, m))
               PROVE  /\ Stored(c, <<k, 1>>, At(u, a, k), HeaderWidth(u, k))
                      /\ At(u, a, k) + HeaderWidth(u, k) <= x + w
    BY DEF Headers
  <2>1. CASE k = m
    BY <1>1, <1>3, <2>1 DEF x, w
  <2>2. CASE k # m
    <3>1. Rank(k) < Rank(m)
      BY <2>2, NoneSkipped
    <3>2. Stored(b, <<k, 1>>, At(u, a, k), HeaderWidth(u, k)) /\ At(u, a, k) + HeaderWidth(u, k) <= x
      BY <1>2, <3>1 DEF Headers
    <3>3. At(u, a, k) \in Nat /\ HeaderWidth(u, k) \in Nat
      BY Chain, WidthsAreNat
    <3> QED
      BY <1>1, <1>3, <3>2, <3>3
  <2> QED
    BY <2>1, <2>2
<1>5. Owned(c, u, a, h, o, 0)
  <2> SUFFICES ASSUME NEW p \in 0 .. n - 1, NEW s \in c[p]
               PROVE  s[1][1] \in HeaderNames
    BY <1>3 DEF Owned
  <2>1. CASE s \in b[p]
    BY <1>2, <2>1 DEF Owned
  <2>2. CASE s[1] = f
    BY <2>2
  <2> QED
    BY <1>3, <2>1, <2>2
<1>6. FirstCodes(c, u, a, h, o, 0, x + w)
  BY DEF FirstCodes
<1> QED
  BY <1>3, <1>4, <1>5, <1>6 DEF Laid, x, w, c

LEMMA LayCode ==
  ASSUME NEW u \in Tunables, NEW a \in BOOLEAN, NEW h, ShapeOK(h), NEW o, IsOrder(o, h),
         NEW n \in Nat, NEW b, DOMAIN b = 0 .. n - 1, NEW k \in 0 .. CodeCount(h) - 1,
         Place(u, a, h, o, k + 1) <= n,
         Laid(b, u, a, h, o, 12, k, Place(u, a, h, o, k))
  PROVE  Laid(Ored(b, o[k + 1], Place(u, a, h, o, k), bits_at(h, o[k + 1])), u, a, h, o,
              12, k + 1, Place(u, a, h, o, k + 1))
<1> DEFINE x == Place(u, a, h, o, k)
           f == o[k + 1]
           w == bits_at(h, f)
           c == Ored(b, f, x, w)
<1>0. CodeCount(h) \in Nat
  BY CountIsNat
<1>1. /\ x \in Nat /\ x >= 8 /\ f \in Codes(h) /\ w \in Nat
      /\ Place(u, a, h, o, k + 1) = x + w
  <2>1. k \in 0 .. CodeCount(h)
    BY <1>0
  <2>2. x \in Nat /\ x >= 8 /\ f \in Codes(h) /\ Place(u, a, h, o, k + 1) = x + w
    BY <2>1, Places
  <2> QED
    BY <2>2, WidthsAgree
<1>2. /\ Cover(b, x) /\ Headers(b, u, a, 12, x) /\ FirstCodes(b, u, a, h, o, k, x)
      /\ Owned(b, u, a, h, o, k)
  BY DEF Laid
<1> HIDE DEF x
<1>2a. x + w <= n
  BY <1>1
<1>3. /\ DOMAIN c = 0 .. n - 1
      /\ Cover(c, x + w)
      /\ Stored(c, f, x, w)
      /\ \A g, y, v : y \in Nat /\ v \in Nat /\ y + v <= x /\ Stored(b, g, y, v)
                        => Stored(c, g, y, v)
      /\ \A p \in 0 .. n - 1 : \A s \in c[p] :
           s \in b[p] \/ (s[1] = f /\ x <= p /\ p < x + w)
  <2> HIDE DEF w, f
  <2> QED
    BY <1>1, <1>2, <1>2a, OredStores
<1> HIDE DEF w, f, c
<1>4. Headers(c, u, a, 12, x + w)
  <2> SUFFICES ASSUME NEW m \in HeaderNames, Has(u, a, m), Rank(m) < 12
               PROVE  /\ Stored(c, <<m, 1>>, At(u, a, m), HeaderWidth(u, m))
                      /\ At(u, a, m) + HeaderWidth(u, m) <= x + w
    BY DEF Headers
  <2>1. Stored(b, <<m, 1>>, At(u, a, m), HeaderWidth(u, m)) /\ At(u, a, m) + HeaderWidth(u, m) <= x
    BY <1>2 DEF Headers
  <2>2. At(u, a, m) \in Nat /\ HeaderWidth(u, m) \in Nat
    BY Chain, WidthsAreNat
  <2> QED
    BY <1>1, <1>3, <2>1, <2>2
<1>5. FirstCodes(c, u, a, h, o, k + 1, x + w)
  <2> SUFFICES ASSUME NEW i \in 1 .. k + 1
               PROVE  /\ Stored(c, o[i], Place(u, a, h, o, i - 1), bits_at(h, o[i]))
                      /\ Place(u, a, h, o, i - 1) + bits_at(h, o[i]) <= x + w
    BY DEF FirstCodes
  <2>1. CASE i = k + 1
    <3>1. i - 1 = k
      BY <2>1
    <3> QED
      BY <1>1, <1>3, <2>1, <3>1 DEF x, w, f
  <2>2. CASE i # k + 1
    <3>1. i \in 1 .. k /\ i - 1 \in 0 .. CodeCount(h) - 1 /\ i - 1 \in 0 .. CodeCount(h)
          /\ i - 1 + 1 = i
      BY <1>0, <2>2
    <3>2. /\ Stored(b, o[i], Place(u, a, h, o, i - 1), bits_at(h, o[i]))
          /\ Place(u, a, h, o, i - 1) + bits_at(h, o[i]) <= x
      BY <1>2, <3>1 DEF FirstCodes
    <3>3. Place(u, a, h, o, i - 1) \in Nat /\ o[i] \in Codes(h)
      BY <3>1, Places
    <3>4. bits_at(h, o[i]) \in Nat
      BY <3>3, WidthsAgree
    <3> QED
      BY <1>1, <1>3, <3>2, <3>3, <3>4
  <2> QED
    BY <2>1, <2>2
<1>6. Owned(c, u, a, h, o, k + 1)
  <2> SUFFICES ASSUME NEW p \in 0 .. n - 1, NEW s \in c[p]
               PROVE  \/ s[1][1] \in HeaderNames
                      \/ \E i \in 1 .. k + 1 :
                           /\ s[1] = o[i]
                           /\ Place(u, a, h, o, i - 1) <= p
                           /\ p < Place(u, a, h, o, i - 1) + bits_at(h, o[i])
    BY <1>3 DEF Owned
  <2>1. CASE s \in b[p]
    <3>1. \/ s[1][1] \in HeaderNames
          \/ \E i \in 1 .. k : /\ s[1] = o[i]
                               /\ Place(u, a, h, o, i - 1) <= p
                               /\ p < Place(u, a, h, o, i - 1) + bits_at(h, o[i])
      BY <1>2, <2>1 DEF Owned
    <3>2. 1 .. k \subseteq 1 .. k + 1
      OBVIOUS
    <3> QED
      BY <3>1, <3>2
  <2>2. CASE s[1] = f /\ x <= p /\ p < x + w
    <3>1. k + 1 \in 1 .. k + 1 /\ k + 1 - 1 = k
      OBVIOUS
    <3> QED
      BY <2>2, <3>1 DEF x, w, f
  <2> QED
    BY <1>3, <2>1, <2>2
<1> QED
  BY <1>1, <1>3, <1>4, <1>5, <1>6 DEF Laid, x, w, f, c

\* Nothing is laid in a blank string.
LEMMA BlankIsLaid ==
  ASSUME NEW u, NEW a, NEW h, NEW o, NEW n \in Nat
  PROVE  /\ DOMAIN Blank(n) = 0 .. 8 * n - 1
         /\ Laid(Blank(n), u, a, h, o, Rank("aspect"), 0, 8)
<1>1. DOMAIN Blank(n) = 0 .. 8 * n - 1 /\ \A p \in 0 .. 8 * n - 1 : Blank(n)[p] = {}
  BY DEF Blank
<1>2. Rank("aspect") = 1 /\ \A m \in HeaderNames : ~ Rank(m) < 1
  BY RanksEnd DEF Rank
<1>3. Cover(Blank(n), 8)
  BY <1>1 DEF Cover
<1>4. Headers(Blank(n), u, a, 1, 8)
  BY <1>2 DEF Headers
<1>5. FirstCodes(Blank(n), u, a, h, o, 0, 8)
  BY DEF FirstCodes
<1>6. Owned(Blank(n), u, a, h, o, 0)
  BY <1>1 DEF Owned
<1> QED
  BY <1>1, <1>2, <1>3, <1>4, <1>5, <1>6 DEF Laid

\* The length is that of the bits, rounded up.
LEMMA LengthHolds ==
  ASSUME NEW u \in Tunables, NEW a \in BOOLEAN, NEW q \in 0 .. MAX_TIER
  PROVE  LET n == prefix_bits(u) + alpha_prefix(u, a) + ac_payload_bits(ac_shape(u, a, q))
         IN  /\ n \in Nat /\ body_len_bytes(u, a, q) \in Nat
             /\ n <= 8 * body_len_bytes(u, a, q) /\ 8 * body_len_bytes(u, a, q) <= n + 7
             /\ div_ceil8(prefix_bits(u)) <= body_len_bytes(u, a, q)
<1> DEFINE h == ac_shape(u, a, q)
           x == prefix_bits(u) + ac_payload_bits(h) + alpha_prefix(u, a)
<1>1. ShapeOK(h)
  BY ShapeIs
<1>2. ac_payload_bits(h) \in Nat
  <2> HIDE DEF h
  <2> QED
    BY <1>1, SpentAll, SpentIsNat
<1>3. prefix_bits(u) \in Nat /\ alpha_prefix(u, a) \in Nat
  BY PrefixIsNat
<1>4. body_len_bytes(u, a, q) = div_ceil8(x)
  BY DEF body_len_bytes
<1> HIDE DEF h
<1>5. x \in Nat /\ x = prefix_bits(u) + alpha_prefix(u, a) + ac_payload_bits(h)
      /\ prefix_bits(u) <= x
  BY <1>2, <1>3
<1> HIDE DEF x
<1> QED
  BY <1>3, <1>4, <1>5, Eighths, EighthsGrow DEF h

-----------------------------------------------------------------------------
(* The encoder                                                                 *)

WOrder == Order(t, has_alpha, tier, aspect)

Allocated == wpc \in HeaderNames \cup {"ac", "packed"}

\* What is put, and where the encoder stands.
EncInv ==
  /\ t \in Tunables /\ tier \in 0 .. MAX_TIER /\ has_alpha \in BOOLEAN /\ aspect \in Aspects
  /\ len \in Nat
  /\ Allocated \/ wpc \in {"alloc", "absent"}
  /\ wpc = "alloc" => wdone = 0
  /\ wpc = "absent" => b0 \in 0 .. 255
  /\ wpc \in HeaderNames => /\ Has(t, has_alpha, wpc)
                            /\ wpos = At(t, has_alpha, wpc) /\ wdone = 0
  /\ wpc \in {"ac", "packed"} => /\ wdone \in 0 .. CodeCount(Shape)
                                 /\ wpos = Place(t, has_alpha, Shape, WOrder, wdone)
  /\ wpc = "packed" => wdone = CodeCount(Shape)
  /\ Allocated => /\ len = body_len_bytes(t, has_alpha, tier)
                  /\ b0 = Descriptor
                  /\ DOMAIN bits = 0 .. 8 * len - 1
                  /\ Laid(bits, t, has_alpha, Shape, WOrder, Rank(wpc), wdone, wpos)

\* A packer's step ends where the next one starts, inside the string.
LEMMA RanksOfCodes == Rank("ac") = 12 /\ Rank("packed") = 12
BY DEF Rank

LEMMA EncShape ==
  ASSUME EncInv
  PROVE  /\ ShapeOK(Shape) /\ IsOrder(WOrder, Shape) /\ WOrder = WriteOrder
         /\ CodeCount(Shape) \in Nat
<1>1. t \in Tunables /\ tier \in 0 .. MAX_TIER /\ has_alpha \in BOOLEAN /\ aspect \in Aspects
  BY DEF EncInv
<1>2. ShapeOK(Shape)
  BY <1>1, ShapeIs DEF Shape
<1>3. IsOrder(WOrder, Shape)
  BY <1>1, OrderIs DEF WOrder, Shape
<1>4. WOrder = WriteOrder
  BY DEF WOrder, WriteOrder, Order, Shape
<1> QED
  BY <1>2, <1>3, <1>4, CountIsNat

\* The bits and the length they need.
LEMMA EncRoom ==
  ASSUME EncInv, Allocated
  PROVE  LET n == prefix_bits(t) + alpha_prefix(t, has_alpha) + ac_payload_bits(Shape)
         IN  n \in Nat /\ n <= 8 * len /\ 8 * len <= n + 7
<1>1. t \in Tunables /\ tier \in 0 .. MAX_TIER /\ has_alpha \in BOOLEAN
  BY DEF EncInv
<1>2. len = body_len_bytes(t, has_alpha, tier)
  BY DEF EncInv
<1> QED
  BY <1>1, <1>2, LengthHolds DEF Shape

LEMMA EncFields ==
  ASSUME EncInv
  PROVE  /\ wpc \in HeaderNames =>
              /\ wpos \in Nat /\ HeaderWidth(t, wpc) \in Nat
              /\ wpos + HeaderWidth(t, wpc) <= 8 * len
         /\ wpc = "ac" /\ wdone < CodeCount(Shape) =>
              /\ wdone \in 0 .. CodeCount(Shape) - 1
              /\ WOrder[wdone + 1] \in Codes(Shape)
              /\ wpos \in Nat /\ bits_at(Shape, WOrder[wdone + 1]) \in Nat
              /\ wpos + bits_at(Shape, WOrder[wdone + 1])
                   = Place(t, has_alpha, Shape, WOrder, wdone + 1)
              /\ wpos + bits_at(Shape, WOrder[wdone + 1]) <= 8 * len
<1>1. t \in Tunables /\ has_alpha \in BOOLEAN /\ len \in Nat
  BY DEF EncInv
<1>2. CASE wpc \in HeaderNames
  <2>1. Has(t, has_alpha, wpc) /\ wpos = At(t, has_alpha, wpc)
    BY <1>2 DEF EncInv
  <2>2. /\ At(t, has_alpha, wpc) \in Nat
        /\ At(t, has_alpha, wpc) + HeaderWidth(t, wpc) <= prefix_bits(t) + alpha_prefix(t, has_alpha)
    BY <1>1, <1>2, <2>1, Chain
  <2>3. HeaderWidth(t, wpc) \in Nat
    BY <1>1, <1>2, WidthsAreNat
  <2>4. prefix_bits(t) + alpha_prefix(t, has_alpha) + ac_payload_bits(Shape) <= 8 * len
    BY <1>2, EncRoom DEF Allocated
  <2>5. ac_payload_bits(Shape) \in Nat /\ prefix_bits(t) \in Nat /\ alpha_prefix(t, has_alpha) \in Nat
    BY <1>1, EncShape, SpentAll, SpentIsNat, PrefixIsNat
  <2>6. wpc # "ac"
    BY <1>2 DEF HeaderNames
  <2> QED
    BY <1>1, <1>2, <2>1, <2>2, <2>3, <2>4, <2>5, <2>6
<1>3. CASE wpc = "ac" /\ wdone < CodeCount(Shape)
  <2>1. wdone \in 0 .. CodeCount(Shape) /\ wpos = Place(t, has_alpha, Shape, WOrder, wdone)
    BY <1>3 DEF EncInv
  <2>2. wdone \in 0 .. CodeCount(Shape) - 1 /\ wdone + 1 \in 0 .. CodeCount(Shape)
    BY <1>3, <2>1, EncShape
  <2>3. /\ wpos \in Nat
        /\ WOrder[wdone + 1] \in Codes(Shape)
        /\ Place(t, has_alpha, Shape, WOrder, wdone + 1)
             = wpos + bits_at(Shape, WOrder[wdone + 1])
        /\ Place(t, has_alpha, Shape, WOrder, wdone + 1)
             <= prefix_bits(t) + alpha_prefix(t, has_alpha) + ac_payload_bits(Shape)
    BY <1>1, <2>1, <2>2, EncShape, Places
  <2>4. /\ prefix_bits(t) + alpha_prefix(t, has_alpha) + ac_payload_bits(Shape) \in Nat
        /\ prefix_bits(t) + alpha_prefix(t, has_alpha) + ac_payload_bits(Shape) <= 8 * len
    BY <1>3, EncRoom DEF Allocated
  <2>5. bits_at(Shape, WOrder[wdone + 1]) \in Nat
    BY <2>3, EncShape, WidthsAgree
  <2>6. wpc \notin HeaderNames
    BY <1>3 DEF HeaderNames
  <2> QED
    BY <1>1, <1>3, <2>2, <2>3, <2>4, <2>5, <2>6
<1> QED
  BY <1>2, <1>3

LEMMA EncInit == Init => EncInv
<1> SUFFICES ASSUME Init PROVE EncInv
  OBVIOUS
<1>1. DEFAULT_TIER \in 0 .. MAX_TIER /\ Tiers \subseteq 0 .. MAX_TIER
  BY TiersAssumption DEF TiersAssumption, DEFAULT_TIER, MAX_TIER
<1>2. Bytes0 \subseteq 0 .. 255 /\ Lengths \subseteq Nat
  BY ForeignAssumption DEF ForeignAssumption
<1>3. t \in Tunables /\ aspect \in Aspects /\ wdone = 0
  BY DEF Init
<1>4. wpc \in {"alloc", "absent"} /\ tier \in 0 .. MAX_TIER /\ has_alpha \in BOOLEAN /\ len \in Nat
  <2>1. CASE wpc = "alloc" /\ tier \in Tiers /\ has_alpha \in BOOLEAN /\ len = 0
    BY <1>1, <2>1
  <2>2. CASE wpc = "absent" /\ tier = DEFAULT_TIER /\ has_alpha = FALSE /\ len \in Lengths
    BY <1>1, <1>2, <2>2
  <2> QED
    BY <2>1, <2>2 DEF Init
<1>5. wpc = "absent" => b0 \in 0 .. 255
  BY <1>2 DEF Init
<1>6. ~ Allocated /\ wpc \notin HeaderNames \cup {"ac", "packed"}
  BY <1>4 DEF Allocated, HeaderNames
<1> QED
  BY <1>3, <1>4, <1>5, <1>6 DEF EncInv

\* The parts of the invariant that only name what never changes.
LEMMA EncSame ==
  ASSUME t' = t, tier' = tier, has_alpha' = has_alpha, aspect' = aspect
  PROVE  Shape' = Shape /\ WOrder' = WOrder /\ Descriptor' = Descriptor
BY DEF Shape, WOrder, Order, Descriptor, ac_shape, tier_layout, tier_count_scale, render_level,
       Sequential, l_count, FORMAT_VERSION, COMPACT_TIER, DEFAULT_TIER

LEMMA AllocKeeps == EncInv /\ Alloc => EncInv'
<1> SUFFICES ASSUME EncInv, Alloc PROVE EncInv'
  OBVIOUS
<1>1. /\ t' = t /\ tier' = tier /\ has_alpha' = has_alpha /\ aspect' = aspect /\ wdone' = wdone
      /\ wpc' = "aspect" /\ wpos' = 8 /\ b0' = Descriptor
      /\ len' = body_len_bytes(t, has_alpha, tier) /\ bits' = Blank(len') /\ wpc = "alloc"
  BY DEF Alloc
<1>2. t \in Tunables /\ tier \in 0 .. MAX_TIER /\ has_alpha \in BOOLEAN /\ aspect \in Aspects /\ wdone = 0
  BY <1>1 DEF EncInv
<1>3. Shape' = Shape /\ WOrder' = WOrder /\ Descriptor' = Descriptor
  BY <1>1, EncSame
<1>4. len' \in Nat
  BY <1>1, <1>2, LengthHolds
<1>5. /\ DOMAIN bits' = 0 .. 8 * len' - 1
      /\ Laid(bits', t, has_alpha, Shape, WOrder, Rank("aspect"), 0, 8)
  BY <1>1, <1>4, BlankIsLaid
<1>6. Has(t, has_alpha, "aspect") /\ At(t, has_alpha, "aspect") = 8 /\ "aspect" \in HeaderNames
  BY DEF Has, At, HeaderNames
<1>7. Allocated' /\ wpc' \in HeaderNames /\ wpc' \notin {"alloc", "absent", "ac", "packed"}
  BY <1>1, <1>6 DEF Allocated
<1>8. Laid(bits', t', has_alpha', Shape', WOrder', Rank(wpc'), wdone', wpos')
  BY <1>1, <1>2, <1>3, <1>5
<1>9. Has(t', has_alpha', wpc') /\ wpos' = At(t', has_alpha', wpc') /\ wdone' = 0
  BY <1>1, <1>2, <1>6
<1>10. len' = body_len_bytes(t', has_alpha', tier') /\ b0' = Descriptor'
  BY <1>1, <1>3
<1> QED
  BY <1>1, <1>2, <1>4, <1>5, <1>7, <1>8, <1>9, <1>10 DEF EncInv

LEMMA PutFieldKeeps == EncInv /\ PutField => EncInv'
<1> SUFFICES ASSUME EncInv, PutField PROVE EncInv'
  OBVIOUS
<1>1. /\ t' = t /\ tier' = tier /\ has_alpha' = has_alpha /\ aspect' = aspect /\ wdone' = wdone
      /\ len' = len /\ b0' = b0
      /\ wpc \in HeaderNames /\ wpc' = AfterWrite(wpc)
      /\ wpos' = wpos + HeaderWidth(t, wpc)
      /\ bits' = Ored(bits, <<wpc, 1>>, wpos, HeaderWidth(t, wpc))
  BY DEF PutField, Put, Ored
<1>2. /\ t \in Tunables /\ tier \in 0 .. MAX_TIER /\ has_alpha \in BOOLEAN /\ aspect \in Aspects
      /\ len \in Nat
      /\ Has(t, has_alpha, wpc) /\ wpos = At(t, has_alpha, wpc) /\ wdone = 0
  BY <1>1 DEF EncInv
<1>3. Allocated
  BY <1>1 DEF Allocated
<1>4. /\ len = body_len_bytes(t, has_alpha, tier) /\ b0 = Descriptor
      /\ DOMAIN bits = 0 .. 8 * len - 1
      /\ Laid(bits, t, has_alpha, Shape, WOrder, Rank(wpc), wdone, wpos)
  BY <1>3 DEF EncInv
<1>5. Shape' = Shape /\ WOrder' = WOrder /\ Descriptor' = Descriptor
  BY <1>1, EncSame
<1>6. AfterWrite(wpc) = After(t, has_alpha, wpc)
  BY DEF AfterWrite, After
<1>7. /\ At(t, has_alpha, wpc') = wpos' /\ wpc' \in HeaderNames \cup {"ac"}
      /\ Has(t, has_alpha, wpc')
  BY <1>1, <1>2, <1>6, Chain
<1>8. 8 * len \in Nat /\ At(t, has_alpha, wpc) + HeaderWidth(t, wpc) <= 8 * len
  BY <1>1, <1>2, EncFields
<1>9. Laid(bits', t, has_alpha, Shape, WOrder, Rank(wpc'), 0, wpos')
  <2>1. Laid(bits, t, has_alpha, Shape, WOrder, Rank(wpc), 0, At(t, has_alpha, wpc))
    BY <1>2, <1>4
  <2>2. \A n \in Nat : DOMAIN bits = 0 .. n - 1 /\ At(t, has_alpha, wpc) + HeaderWidth(t, wpc) <= n
          => Laid(Ored(bits, <<wpc, 1>>, At(t, has_alpha, wpc), HeaderWidth(t, wpc)), t, has_alpha,
                  Shape, WOrder, Rank(After(t, has_alpha, wpc)), 0,
                  At(t, has_alpha, wpc) + HeaderWidth(t, wpc))
    BY <1>1, <1>2, <2>1, LayHeader
  <2>3. Laid(Ored(bits, <<wpc, 1>>, At(t, has_alpha, wpc), HeaderWidth(t, wpc)), t, has_alpha,
             Shape, WOrder, Rank(After(t, has_alpha, wpc)), 0,
             At(t, has_alpha, wpc) + HeaderWidth(t, wpc))
    BY <1>4, <1>8, <2>2
  <2> QED
    BY <1>1, <1>2, <1>6, <2>3
<1>9a. DOMAIN bits' = 0 .. 8 * len' - 1
  BY <1>1, <1>4 DEF Ored
<1>10. CASE wpc' = "ac"
  <2>1. /\ wpos' = Place(t, has_alpha, Shape, WOrder, 0)
        /\ 0 \in 0 .. CodeCount(Shape)
    <3>1. At(t, has_alpha, "ac") = prefix_bits(t) + alpha_prefix(t, has_alpha)
      BY DEF At
    <3> QED
      BY <1>2, <1>7, <1>10, <3>1, EncShape, Places
  <2>2. wpc' \notin HeaderNames /\ wpc' \notin {"alloc", "absent", "packed"}
    BY <1>10 DEF HeaderNames
  <2>3. Allocated'
    BY <1>10 DEF Allocated
  <2> QED
    BY <1>1, <1>2, <1>4, <1>5, <1>9, <1>9a, <1>10, <2>1, <2>2, <2>3 DEF EncInv
<1>11. CASE wpc' \in HeaderNames
  <2>1. wpc' \notin {"alloc", "absent", "ac", "packed"}
    BY <1>11 DEF HeaderNames
  <2>2. Allocated'
    BY <1>11 DEF Allocated
  <2> QED
    BY <1>1, <1>2, <1>4, <1>5, <1>7, <1>9, <1>9a, <1>11, <2>1, <2>2 DEF EncInv
<1> QED
  BY <1>7, <1>10, <1>11

LEMMA PutCodeKeeps == EncInv /\ PutCode => EncInv'
<1> SUFFICES ASSUME EncInv, PutCode PROVE EncInv'
  OBVIOUS
<1> DEFINE f == WOrder[wdone + 1]
           w == bits_at(Shape, f)
<1>1. /\ t' = t /\ tier' = tier /\ has_alpha' = has_alpha /\ aspect' = aspect
      /\ len' = len /\ b0' = b0 /\ wpc' = wpc
      /\ wpc = "ac" /\ wdone < CodeCount(Shape) /\ wdone' = wdone + 1
  BY DEF PutCode
<1>2. wpos' = wpos + w /\ bits' = Ored(bits, f, wpos, w)
  BY EncShape DEF PutCode, Put, Ored
<1>3. /\ t \in Tunables /\ tier \in 0 .. MAX_TIER /\ has_alpha \in BOOLEAN /\ aspect \in Aspects
      /\ len \in Nat /\ wpos = Place(t, has_alpha, Shape, WOrder, wdone)
  BY <1>1 DEF EncInv
<1>4. Allocated /\ Allocated' /\ wpc \notin HeaderNames
  BY <1>1 DEF Allocated, HeaderNames
<1>5. /\ len = body_len_bytes(t, has_alpha, tier) /\ b0 = Descriptor
      /\ DOMAIN bits = 0 .. 8 * len - 1
      /\ Laid(bits, t, has_alpha, Shape, WOrder, Rank(wpc), wdone, wpos)
  BY <1>4 DEF EncInv
<1>6. Shape' = Shape /\ WOrder' = WOrder /\ Descriptor' = Descriptor
  BY <1>1, EncSame
<1>7. /\ wdone \in 0 .. CodeCount(Shape) - 1
      /\ wpos + w = Place(t, has_alpha, Shape, WOrder, wdone + 1)
      /\ wpos + w <= 8 * len
  BY <1>1, EncFields
<1>8. wdone + 1 \in 0 .. CodeCount(Shape)
  BY <1>7, EncShape
<1>9. Laid(bits', t, has_alpha, Shape, WOrder, 12, wdone + 1, wpos + w)
  <2>1. Laid(bits, t, has_alpha, Shape, WOrder, 12, wdone, Place(t, has_alpha, Shape, WOrder, wdone))
    BY <1>1, <1>3, <1>5, RanksOfCodes
  <2>2. 8 * len \in Nat
    BY <1>3
  <2>3. Place(t, has_alpha, Shape, WOrder, wdone + 1) <= 8 * len
    BY <1>7
  <2>4. Laid(Ored(bits, WOrder[wdone + 1], Place(t, has_alpha, Shape, WOrder, wdone),
                  bits_at(Shape, WOrder[wdone + 1])), t, has_alpha, Shape, WOrder,
             12, wdone + 1, Place(t, has_alpha, Shape, WOrder, wdone + 1))
    BY <1>3, <1>5, <1>7, <2>1, <2>2, <2>3, EncShape, LayCode
  <2> QED
    BY <1>2, <1>3, <1>7, <2>4
<1> HIDE DEF f, w
<1>10. Laid(bits', t', has_alpha', Shape', WOrder', Rank(wpc'), wdone', wpos')
  BY <1>1, <1>2, <1>6, <1>9, RanksOfCodes
<1>11. /\ wdone' \in 0 .. CodeCount(Shape')
       /\ wpos' = Place(t', has_alpha', Shape', WOrder', wdone')
  BY <1>1, <1>2, <1>6, <1>7, <1>8
<1>12. /\ wpc' = "ac" /\ wpc' \notin HeaderNames /\ wpc' \notin {"alloc", "absent", "packed"}
       /\ len' = body_len_bytes(t', has_alpha', tier') /\ b0' = Descriptor'
       /\ DOMAIN bits' = 0 .. 8 * len' - 1
  <2>1. DOMAIN bits' = DOMAIN bits
    BY <1>2 DEF Ored
  <2> QED
    BY <1>1, <1>4, <1>5, <1>6, <2>1
<1> QED
  BY <1>1, <1>3, <1>4, <1>10, <1>11, <1>12 DEF EncInv

LEMMA PackedKeeps == EncInv /\ Packed => EncInv'
<1> SUFFICES ASSUME EncInv, Packed PROVE EncInv'
  OBVIOUS
<1>1. /\ t' = t /\ tier' = tier /\ has_alpha' = has_alpha /\ aspect' = aspect
      /\ len' = len /\ b0' = b0 /\ wpc = "ac" /\ wpc' = "packed" /\ wdone' = wdone
      /\ wdone = CodeCount(Shape) /\ wpos' = wpos /\ bits' = bits
  BY DEF Packed
<1>2. Shape' = Shape /\ WOrder' = WOrder /\ Descriptor' = Descriptor
  BY <1>1, EncSame
<1>3. Allocated /\ Allocated' /\ wpc' \notin HeaderNames
  BY <1>1 DEF Allocated, HeaderNames
<1>4. /\ t \in Tunables /\ tier \in 0 .. MAX_TIER /\ has_alpha \in BOOLEAN /\ aspect \in Aspects
      /\ len \in Nat /\ wdone \in 0 .. CodeCount(Shape)
      /\ wpos = Place(t, has_alpha, Shape, WOrder, wdone)
      /\ len = body_len_bytes(t, has_alpha, tier) /\ b0 = Descriptor
      /\ DOMAIN bits = 0 .. 8 * len - 1
      /\ Laid(bits, t, has_alpha, Shape, WOrder, Rank(wpc), wdone, wpos)
  BY <1>1, <1>3 DEF EncInv
<1>5. Laid(bits', t', has_alpha', Shape', WOrder', Rank(wpc'), wdone', wpos')
  BY <1>1, <1>2, <1>4, RanksOfCodes
<1> QED
  BY <1>1, <1>2, <1>3, <1>4, <1>5 DEF EncInv

LEMMA EncIdle == EncInv /\ UNCHANGED encoderVars => EncInv'
<1> SUFFICES ASSUME EncInv, UNCHANGED encoderVars PROVE EncInv'
  OBVIOUS
<1>1. /\ t' = t /\ tier' = tier /\ has_alpha' = has_alpha /\ aspect' = aspect
      /\ len' = len /\ b0' = b0 /\ wpc' = wpc /\ wdone' = wdone /\ wpos' = wpos /\ bits' = bits
  BY DEF encoderVars
<1>2. Shape' = Shape /\ WOrder' = WOrder /\ Descriptor' = Descriptor
  BY <1>1, EncSame
<1>3. Allocated' <=> Allocated
  BY <1>1 DEF Allocated
<1> QED
  BY <1>1, <1>2, <1>3 DEF EncInv

LEMMA EncStep == EncInv /\ [Next]_vars => EncInv'
<1> SUFFICES ASSUME EncInv, [Next]_vars PROVE EncInv'
  OBVIOUS
<1>1. CASE Encoder
  BY <1>1, AllocKeeps, PutFieldKeeps, PutCodeKeeps, PackedKeeps DEF Encoder
<1>2. CASE UNCHANGED encoderVars
  BY <1>2, EncIdle
<1>3. FromBytes \/ Decoder \/ Ended \/ UNCHANGED vars => UNCHANGED encoderVars
  BY DEF FromBytes, Decoder, Ended, ReadAspect, ReadField, ReadCode, Rendered, AverageColor, vars
<1> QED
  BY <1>1, <1>2, <1>3 DEF Next

-----------------------------------------------------------------------------
(* The decoder                                                                 *)

Limit(u, n) == IF u.trunc_bytes > 0 /\ u.trunc_bytes < n THEN 8 * u.trunc_bytes ELSE 8 * n

ReadOf(b, x, w) == [k \in 0 .. w - 1 |-> b[x + k]]

\* What RoundTrip has a decoder get.
Expected(f) == IF f[1] \in {"L", "a", "b"} /\ PastLimit(f)
                 THEN Centre ELSE Whole(f, WrittenWidth(f))

ROrder == Order(t, ralpha, rtier, raspect)

\* Where the decoder stands, and what it has got.
DecInv ==
  /\ rtier \in 0 .. MAX_TIER /\ ralpha \in BOOLEAN /\ raspect \in Aspects
  /\ rpc \in HeaderNames \cup {"idle", "accepted", "rejected", "ac", "rendered", "averaged"}
  /\ wpc \notin {"packed", "absent"} => rpc = "idle"
  /\ rpc \in {"idle", "accepted"} => DOMAIN got = {} /\ rdone = 0
  /\ rpc \notin {"idle", "rejected"} => len = body_len_bytes(t, ralpha, rtier)
  /\ rpc \in HeaderNames => /\ Has(t, ralpha, rpc) /\ rpc # "aspect"
                            /\ rpos = At(t, ralpha, rpc) /\ rdone = 0
  /\ rpc = "ac" => /\ rdone \in 0 .. CodeCount(RShape)
                   /\ rpos = Place(t, ralpha, RShape, ROrder, rdone)
  /\ wpc = "packed" /\ rpc # "idle" => rpc # "rejected" /\ rtier = tier /\ ralpha = has_alpha
  /\ wpc = "packed" /\ rpc \in HeaderNames \cup {"ac"} => raspect = aspect
  /\ wpc = "packed" => \A f \in DOMAIN got : got[f] = Expected(f)
  /\ wpc = "packed" /\ rpc = "ac" => \A i \in 1 .. rdone : WOrder[i] \in DOMAIN got
  /\ wpc = "packed" /\ rpc = "rendered" => Codes(Shape) \subseteq DOMAIN got

\* The descriptor is read back from byte 0.
LEMMA DescriptorReads ==
  ASSUME NEW q \in 0 .. MAX_TIER, NEW a \in BOOLEAN
  PROVE  LET b == FORMAT_VERSION + 8 * q + (IF a THEN 64 ELSE 0)
         IN  /\ VersionOf(b) = FORMAT_VERSION /\ TierOf(b) = q /\ AlphaOf(b) = a
             /\ ReservedOf(b) = 0
<1>1. q = 0 \/ q = 1 \/ q = 2 \/ q = 3 \/ q = 4
  BY DEF MAX_TIER
<1>2. \A x \in {0, 64} :
        LET b == 0 + 8 * q + x
        IN  b % 8 = 0 /\ (b \div 8) % 8 = q /\ (b \div 64) % 2 = (IF x = 64 THEN 1 ELSE 0)
            /\ b \div 128 = 0
  BY <1>1
<1>3. CASE a
  BY <1>2, <1>3 DEF VersionOf, TierOf, AlphaOf, ReservedOf, FORMAT_VERSION
<1>4. CASE ~ a
  BY <1>2, <1>4 DEF VersionOf, TierOf, AlphaOf, ReservedOf, FORMAT_VERSION
<1> QED
  BY <1>3, <1>4

\* A field that is stored is read whole.
LEMMA StoredReads ==
  ASSUME NEW b, NEW f, NEW x, NEW w, Stored(b, f, x, w)
  PROVE  ReadOf(b, x, w) = Whole(f, w)
BY DEF Stored, ReadOf, Whole

\* No code has the name of a field of the header.
LEMMA NamesApart ==
  ASSUME NEW h, NEW f \in Codes(h)
  PROVE  f[1] \notin HeaderNames /\ f[1] \in {"L", "a", "b", "alpha"}
BY DEF Codes, HeaderNames

\* The header of a packed string.
LEMMA HeaderReads ==
  ASSUME EncInv, wpc = "packed", NEW m \in HeaderNames, Has(t, has_alpha, m)
  PROVE  ReadOf(bits, At(t, has_alpha, m), HeaderWidth(t, m)) = Expected(<<m, 1>>)
<1>1. Allocated
  BY DEF Allocated
<1>2. Laid(bits, t, has_alpha, Shape, WOrder, 12, wdone, wpos)
  BY <1>1, RanksOfCodes DEF EncInv
<1>3. Rank(m) < 12
  BY RanksEnd
<1>4. Stored(bits, <<m, 1>>, At(t, has_alpha, m), HeaderWidth(t, m))
  BY <1>2, <1>3 DEF Laid, Headers
<1>5. m \notin {"L", "a", "b"}
  BY DEF HeaderNames
<1>6. Expected(<<m, 1>>) = Whole(<<m, 1>>, HeaderWidth(t, m))
  BY <1>5 DEF Expected, WrittenWidth
<1> QED
  BY <1>4, <1>6, StoredReads

\* A code of a packed string: a truncated decode misses some bit of it just when
\* its last bit is past the limit.
LEMMA CodeReads ==
  ASSUME EncInv, wpc = "packed", NEW i \in 1 .. CodeCount(Shape)
  PROVE  LET f == WOrder[i]
             x == Place(t, has_alpha, Shape, WOrder, i - 1)
             w == bits_at(Shape, f)
         IN  /\ ReadOf(bits, x, w) = Whole(f, WrittenWidth(f))
             /\ PastLimit(f) <=> x + w > limit_bits
<1> DEFINE f == WOrder[i]
           x == Place(t, has_alpha, Shape, WOrder, i - 1)
           w == bits_at(Shape, f)
<1>1. Allocated /\ wdone = CodeCount(Shape)
  BY DEF Allocated, EncInv
<1>2. Laid(bits, t, has_alpha, Shape, WOrder, 12, CodeCount(Shape), wpos)
  BY <1>1, RanksOfCodes DEF EncInv
<1>3. t \in Tunables /\ has_alpha \in BOOLEAN /\ len \in Nat
  BY DEF EncInv
<1>4. Stored(bits, f, x, w)
  BY <1>2 DEF Laid, FirstCodes
<1>5. /\ i - 1 \in 0 .. CodeCount(Shape) /\ i - 1 \in 0 .. CodeCount(Shape) - 1
      /\ i - 1 + 1 = i
  BY EncShape
<1>6. f \in Codes(Shape) /\ x \in Nat
  BY <1>3, <1>5, EncShape, Places
<1>7. w \in Nat \ {0}
  BY <1>6, EncShape, WidthsAgree
<1>8. f[1] \notin HeaderNames
  BY <1>6, NamesApart
<1>9. WrittenWidth(f) = w
  BY <1>8 DEF WrittenWidth
<1>10. ReadOf(bits, x, w) = Whole(f, WrittenWidth(f))
  BY <1>4, <1>9, StoredReads
<1>11. limit_bits \in Nat
  <2>1. t.trunc_bytes \in Nat
    BY <1>3, TunablesAssumption DEF TunablesAssumption
  <2> QED
    BY <1>3, <2>1 DEF limit_bits
<1>12. DOMAIN bits \subseteq Nat
  <2>1. DOMAIN bits = 0 .. 8 * len - 1
    BY <1>1 DEF EncInv
  <2> QED
    BY <2>1
<1> HIDE DEF x, w
<1>13. ASSUME x + w > limit_bits PROVE PastLimit(f)
  <2>1. w - 1 \in 0 .. w - 1 /\ x + (w - 1) >= limit_bits
    BY <1>6, <1>7, <1>11, <1>13
  <2>2. PICK k : k = w - 1
    OBVIOUS
  <2>3. x + k \in DOMAIN bits /\ bits[x + k] = {<<f, k>>}
    BY <1>4, <2>1, <2>2 DEF Stored
  <2>4. PICK p : p = x + k
    OBVIOUS
  <2>5. p \in DOMAIN bits /\ p >= limit_bits /\ <<f, k>> \in bits[p] /\ <<f, k>>[1] = f
    BY <2>1, <2>2, <2>3, <2>4
  <2> QED
    BY <2>5 DEF PastLimit
<1>14. ASSUME PastLimit(f) PROVE x + w > limit_bits
  <2>0. PICK p \in DOMAIN bits : p >= limit_bits /\ \E s \in bits[p] : s[1] = f
    BY <1>14 DEF PastLimit
  <2>1. PICK s \in bits[p] : s[1] = f
    BY <2>0
  <2>2. PICK j \in 1 .. CodeCount(Shape) :
          /\ s[1] = WOrder[j]
          /\ p < Place(t, has_alpha, Shape, WOrder, j - 1) + bits_at(Shape, WOrder[j])
    BY <1>2, <1>8, <2>1 DEF Laid, Owned
  <2>3. j = i
    BY <2>1, <2>2, EncShape DEF IsOrder
  <2>4. p < x + w
    BY <2>2, <2>3 DEF x, w
  <2> QED
    BY <1>6, <1>7, <1>11, <1>12, <2>0, <2>4
<1> QED
  BY <1>10, <1>13, <1>14 DEF x, w

LEMMA DecShape ==
  ASSUME EncInv, DecInv
  PROVE  ShapeOK(RShape) /\ IsOrder(ROrder, RShape) /\ ROrder = ReadOrder /\ CodeCount(RShape) \in Nat
<1>1. t \in Tunables /\ rtier \in 0 .. MAX_TIER /\ ralpha \in BOOLEAN /\ raspect \in Aspects
  BY DEF EncInv, DecInv
<1>2. ShapeOK(RShape)
  BY <1>1, ShapeIs DEF RShape
<1>3. IsOrder(ROrder, RShape)
  BY <1>1, OrderIs DEF ROrder, RShape
<1>4. ROrder = ReadOrder
  BY DEF ROrder, ReadOrder, Order, RShape
<1> QED
  BY <1>2, <1>3, <1>4, CountIsNat

\* The code the decoder reads next.
LEMMA DecCode ==
  ASSUME EncInv, DecInv, rpc = "ac", rdone < CodeCount(RShape)
  PROVE  LET f == ReadOrder[rdone + 1]
             w == read_bits_at(RShape, f)
         IN  /\ rdone \in 0 .. CodeCount(RShape) - 1 /\ f \in Codes(RShape)
             /\ w \in Nat /\ rpos \in Nat /\ w = bits_at(RShape, f)
             /\ rpos + w = Place(t, ralpha, RShape, ROrder, rdone + 1)
             /\ rpos + w <= 8 * len
<1> DEFINE f == ReadOrder[rdone + 1]
           w == read_bits_at(RShape, f)
<1>1. /\ t \in Tunables /\ ralpha \in BOOLEAN /\ rtier \in 0 .. MAX_TIER
      /\ rdone \in 0 .. CodeCount(RShape)
      /\ rpos = Place(t, ralpha, RShape, ROrder, rdone)
      /\ len = body_len_bytes(t, ralpha, rtier)
  BY DEF EncInv, DecInv
<1>2. rdone \in 0 .. CodeCount(RShape) - 1 /\ rdone + 1 \in 0 .. CodeCount(RShape)
  BY <1>1, DecShape
<1>3. /\ f \in Codes(RShape) /\ rpos \in Nat
      /\ Place(t, ralpha, RShape, ROrder, rdone + 1) = rpos + bits_at(RShape, f)
      /\ Place(t, ralpha, RShape, ROrder, rdone + 1)
           <= prefix_bits(t) + alpha_prefix(t, ralpha) + ac_payload_bits(RShape)
  BY <1>1, <1>2, DecShape, Places
<1>4. w \in Nat /\ w = bits_at(RShape, f)
  BY <1>3, DecShape, WidthsAgree
<1>5. /\ prefix_bits(t) + alpha_prefix(t, ralpha) + ac_payload_bits(RShape) \in Nat
      /\ prefix_bits(t) + alpha_prefix(t, ralpha) + ac_payload_bits(RShape) <= 8 * len
      /\ len \in Nat
  BY <1>1, LengthHolds DEF RShape
<1> HIDE DEF f, w
<1>6. rpos + w = Place(t, ralpha, RShape, ROrder, rdone + 1) /\ rpos + w <= 8 * len
  BY <1>3, <1>4, <1>5
<1> QED
  BY <1>2, <1>3, <1>4, <1>6 DEF f, w

\* A field of the header that the decoder reads.
LEMMA DecHeader ==
  ASSUME EncInv, DecInv, rpc \notin {"idle", "rejected"},
         NEW m \in HeaderNames, Has(t, ralpha, m)
  PROVE  /\ At(t, ralpha, m) \in Nat /\ HeaderWidth(t, m) \in Nat
         /\ At(t, ralpha, m) + HeaderWidth(t, m) <= 8 * len
         /\ wpc = "packed" =>
              ReadOf(bits, At(t, ralpha, m), HeaderWidth(t, m)) = Expected(<<m, 1>>)
<1>1. /\ t \in Tunables /\ ralpha \in BOOLEAN /\ rtier \in 0 .. MAX_TIER
      /\ len = body_len_bytes(t, ralpha, rtier)
  BY DEF EncInv, DecInv
<1>2. /\ At(t, ralpha, m) \in Nat /\ HeaderWidth(t, m) \in Nat
      /\ At(t, ralpha, m) + HeaderWidth(t, m) <= prefix_bits(t) + alpha_prefix(t, ralpha)
  BY <1>1, Chain, WidthsAreNat
<1>3. /\ prefix_bits(t) + alpha_prefix(t, ralpha) + ac_payload_bits(RShape) <= 8 * len
      /\ len \in Nat
  BY <1>1, LengthHolds DEF RShape
<1>4. /\ ac_payload_bits(RShape) \in Nat /\ prefix_bits(t) \in Nat
      /\ alpha_prefix(t, ralpha) \in Nat
  BY <1>1, DecShape, SpentAll, SpentIsNat, PrefixIsNat
<1>5. At(t, ralpha, m) + HeaderWidth(t, m) <= 8 * len
  BY <1>2, <1>3, <1>4
<1>6. ASSUME wpc = "packed"
      PROVE  ReadOf(bits, At(t, ralpha, m), HeaderWidth(t, m)) = Expected(<<m, 1>>)
  <2>1. ralpha = has_alpha
    BY <1>6 DEF DecInv
  <2> QED
    BY <1>6, <2>1, HeaderReads
<1> QED
  BY <1>2, <1>5, <1>6

LEMMA DecInit == Init => DecInv
<1> SUFFICES ASSUME Init PROVE DecInv
  OBVIOUS
<1>1. /\ rpc = "idle" /\ rdone = 0 /\ rtier = 0 /\ ralpha = FALSE /\ raspect = aspect
      /\ aspect \in Aspects /\ got = <<>>
  BY DEF Init
<1>2. wpc # "packed"
  BY DEF Init
<1>3. DOMAIN got = {}
  BY <1>1
<1>4. "idle" \notin HeaderNames \cup {"ac"}
  BY DEF HeaderNames
<1> QED
  <2>1. rtier \in 0 .. MAX_TIER /\ ralpha \in BOOLEAN /\ raspect \in Aspects
    <3>1. 0 \in 0 .. MAX_TIER
      BY DEF MAX_TIER
    <3> QED
      BY <1>1, <3>1
  <2> QED
    BY <1>1, <1>2, <1>3, <1>4, <2>1 DEF DecInv

\* The encoder runs before the decoder.
LEMMA DecWaits == EncInv /\ DecInv /\ Encoder => DecInv'
<1> SUFFICES ASSUME EncInv, DecInv, Encoder PROVE DecInv'
  OBVIOUS
<1>1. wpc \notin {"packed", "absent"}
  BY DEF Encoder, Alloc, PutField, PutCode, Packed, HeaderNames
<1>2. UNCHANGED decoderVars
  BY DEF Encoder, Alloc, PutField, PutCode, Packed
<1>3. /\ rpc' = rpc /\ rpos' = rpos /\ rdone' = rdone /\ rtier' = rtier /\ ralpha' = ralpha
      /\ raspect' = raspect /\ got' = got
  BY <1>2 DEF decoderVars
<1>4. rpc = "idle" /\ DOMAIN got = {} /\ rdone = 0
  BY <1>1 DEF DecInv
<1>5. "idle" \notin HeaderNames \cup {"ac"}
  BY DEF HeaderNames
<1> QED
  BY <1>3, <1>4, <1>5 DEF DecInv

\* What the decoder's steps leave of what is put.
LEMMA DecSame ==
  ASSUME UNCHANGED encoderVars
  PROVE  /\ t' = t /\ tier' = tier /\ has_alpha' = has_alpha /\ aspect' = aspect
         /\ len' = len /\ wpc' = wpc /\ Shape' = Shape /\ WOrder' = WOrder
         /\ \A f : Expected(f)' = Expected(f)
<1>1. /\ t' = t /\ tier' = tier /\ has_alpha' = has_alpha /\ aspect' = aspect
      /\ len' = len /\ b0' = b0 /\ wpc' = wpc /\ wdone' = wdone /\ wpos' = wpos /\ bits' = bits
  BY DEF encoderVars
<1>2. Shape' = Shape /\ WOrder' = WOrder
  BY <1>1, EncSame
<1>3. limit_bits' = limit_bits
  BY <1>1 DEF limit_bits
<1>4. \A f : PastLimit(f)' = PastLimit(f)
  BY <1>1, <1>3 DEF PastLimit
<1>5. \A f : WrittenWidth(f)' = WrittenWidth(f)
  BY <1>1, <1>2 DEF WrittenWidth, HeaderWidth, bits_at
<1> QED
  BY <1>1, <1>2, <1>4, <1>5 DEF Expected

\* from_bytes takes what the encoder packs, and the same descriptor from it.
LEMMA PackedIsAccepted ==
  ASSUME EncInv, wpc = "packed"
  PROVE  Accepts /\ TierOf(b0) = tier /\ AlphaOf(b0) = has_alpha
<1>1. Allocated
  BY DEF Allocated
<1>2. /\ t \in Tunables /\ tier \in 0 .. MAX_TIER /\ has_alpha \in BOOLEAN
      /\ len = body_len_bytes(t, has_alpha, tier) /\ b0 = Descriptor
  BY <1>1 DEF EncInv
<1>3. /\ VersionOf(b0) = FORMAT_VERSION /\ TierOf(b0) = tier /\ AlphaOf(b0) = has_alpha
      /\ ReservedOf(b0) = 0
  BY <1>2, DescriptorReads DEF Descriptor
<1>4. div_ceil8(prefix_bits(t)) <= len /\ len \in Nat
  BY <1>2, LengthHolds
<1>5. div_ceil8(prefix_bits(t)) \in Nat
  BY <1>2, PrefixIsNat, Eighths
<1>6. tier <= MAX_TIER
  BY <1>2
<1> QED
  BY <1>2, <1>3, <1>4, <1>5, <1>6 DEF Accepts

LEMMA FromBytesKeeps == EncInv /\ DecInv /\ FromBytes => DecInv'
<1> SUFFICES ASSUME EncInv, DecInv, FromBytes PROVE DecInv'
  OBVIOUS
<1>1. /\ wpc \in {"packed", "absent"} /\ rpc = "idle" /\ UNCHANGED encoderVars
      /\ rpos' = rpos /\ rdone' = rdone /\ raspect' = raspect /\ got' = got
  BY DEF FromBytes
<1>2. /\ t' = t /\ tier' = tier /\ has_alpha' = has_alpha /\ len' = len /\ wpc' = wpc
  BY <1>1, DecSame
<1>3. DOMAIN got = {} /\ rdone = 0 /\ raspect \in Aspects
  BY <1>1 DEF DecInv
<1>4. CASE Accepts
  <2>1. rpc' = "accepted" /\ rtier' = TierOf(b0) /\ ralpha' = AlphaOf(b0)
    BY <1>4 DEF FromBytes
  <2>2. len = body_len_bytes(t, AlphaOf(b0), TierOf(b0)) /\ TierOf(b0) <= MAX_TIER
    BY <1>4 DEF Accepts
  <2>3. CASE wpc = "packed"
    <3>1. TierOf(b0) = tier /\ AlphaOf(b0) = has_alpha
      BY <2>3, PackedIsAccepted
    <3>2. tier \in 0 .. MAX_TIER /\ has_alpha \in BOOLEAN
      BY DEF EncInv
    <3>3. rpc' \notin HeaderNames \cup {"ac", "idle", "rejected", "rendered"}
      BY <2>1 DEF HeaderNames
    <3> QED
      BY <1>1, <1>2, <1>3, <2>1, <2>2, <3>1, <3>2, <3>3 DEF DecInv
  <2>4. CASE wpc = "absent"
    <3>1. b0 \in 0 .. 255
      BY <2>4 DEF EncInv
    <3>2. TierOf(b0) \in 0 .. MAX_TIER /\ AlphaOf(b0) \in BOOLEAN
      BY <2>2, <3>1 DEF TierOf, AlphaOf, MAX_TIER
    <3>3. rpc' \notin HeaderNames \cup {"ac", "idle", "rejected", "rendered"}
      BY <2>1 DEF HeaderNames
    <3> QED
      BY <1>1, <1>2, <1>3, <2>1, <2>2, <2>4, <3>2, <3>3 DEF DecInv
  <2> QED
    BY <1>1, <2>3, <2>4
<1>5. CASE ~ Accepts
  <2>1. rpc' = "rejected" /\ rtier' = rtier /\ ralpha' = ralpha
    BY <1>5 DEF FromBytes
  <2>2. wpc # "packed"
    BY <1>5, PackedIsAccepted
  <2>3. rpc' \notin HeaderNames \cup {"ac", "idle", "accepted", "rendered"}
    BY <2>1 DEF HeaderNames
  <2>4. rtier \in 0 .. MAX_TIER /\ ralpha \in BOOLEAN
    BY DEF DecInv
  <2> QED
    BY <1>1, <1>2, <1>3, <2>1, <2>2, <2>3, <2>4 DEF DecInv
<1> QED
  BY <1>4, <1>5

\* A value is put beside what was got before.
LEMMA GotAdds ==
  ASSUME UNCHANGED encoderVars, NEW f, NEW v, Got(f, v),
         wpc = "packed" => v = Expected(f),
         wpc = "packed" => \A g \in DOMAIN got : got[g] = Expected(g)
  PROVE  /\ DOMAIN got' = DOMAIN got \cup {f}
         /\ wpc' = "packed" => \A g \in DOMAIN got' : got'[g] = Expected(g)'
<1>1. DOMAIN got' = DOMAIN got \cup {f} /\ \A g \in DOMAIN got' : got'[g] = IF g = f THEN v ELSE got[g]
  BY DEF Got
<1>2. wpc' = wpc /\ \A g : Expected(g)' = Expected(g)
  BY DecSame
<1> QED
  BY <1>1, <1>2

LEMMA ReadAspectKeeps == EncInv /\ DecInv /\ ReadAspect => DecInv'
<1> SUFFICES ASSUME EncInv, DecInv, ReadAspect PROVE DecInv'
  OBVIOUS
<1> DEFINE v == ReadOf(bits, 8, t.aspect_bits)
<1>1. /\ rpc = "accepted" /\ UNCHANGED encoderVars /\ rdone' = rdone /\ rtier' = rtier
      /\ ralpha' = ralpha /\ rpos' = 8 + t.aspect_bits /\ rpc' = "l_dc"
  BY DEF ReadAspect
<1>2. /\ Got(<<"aspect", 1>>, v)
      /\ raspect' \in IF v = Whole(<<"aspect", 1>>, t.aspect_bits) THEN {aspect} ELSE Aspects
  BY DEF ReadAspect, Read, ReadOf
<1>3. /\ t' = t /\ tier' = tier /\ has_alpha' = has_alpha /\ aspect' = aspect
      /\ len' = len /\ wpc' = wpc
  BY <1>1, DecSame
<1>4. /\ rtier \in 0 .. MAX_TIER /\ ralpha \in BOOLEAN /\ rdone = 0
      /\ len = body_len_bytes(t, ralpha, rtier) /\ aspect \in Aspects
      /\ wpc \notin {"packed", "absent"} => FALSE
      /\ wpc = "packed" => rtier = tier /\ ralpha = has_alpha
      /\ wpc = "packed" => \A g \in DOMAIN got : got[g] = Expected(g)
  BY <1>1 DEF DecInv, EncInv
<1>5. /\ "aspect" \in HeaderNames /\ Has(t, ralpha, "aspect") /\ At(t, ralpha, "aspect") = 8
      /\ HeaderWidth(t, "aspect") = t.aspect_bits
  BY DEF HeaderNames, Has, At, HeaderWidth
<1>6. wpc = "packed" => v = Expected(<<"aspect", 1>>)
  BY <1>1, <1>5, DecHeader
<1>7. Expected(<<"aspect", 1>>) = Whole(<<"aspect", 1>>, t.aspect_bits)
  BY <1>5 DEF Expected, WrittenWidth
<1>8. raspect' \in Aspects /\ (wpc = "packed" => raspect' = aspect)
  BY <1>2, <1>4, <1>6, <1>7
<1> HIDE DEF v
<1>9. wpc' = "packed" => \A g \in DOMAIN got' : got'[g] = Expected(g)'
  BY <1>1, <1>2, <1>4, <1>6, GotAdds
<1>10. /\ "l_dc" \in HeaderNames /\ Has(t, ralpha, "l_dc")
       /\ At(t, ralpha, "l_dc") = 8 + t.aspect_bits
  BY DEF HeaderNames, Has, At
<1>11. rpc' \notin {"idle", "accepted", "rejected", "ac", "rendered"}
  BY <1>1
<1> QED
  BY <1>1, <1>3, <1>4, <1>8, <1>9, <1>10, <1>11 DEF DecInv

LEMMA ReadFieldKeeps == EncInv /\ DecInv /\ ReadField => DecInv'
<1> SUFFICES ASSUME EncInv, DecInv, ReadField PROVE DecInv'
  OBVIOUS
<1> DEFINE v == ReadOf(bits, rpos, HeaderWidth(t, rpc))
<1>1. /\ rpc \in HeaderNames /\ UNCHANGED encoderVars /\ rdone' = rdone /\ rtier' = rtier
      /\ ralpha' = ralpha /\ raspect' = raspect /\ rpos' = rpos + HeaderWidth(t, rpc)
      /\ rpc' = AfterRead(rpc)
  BY DEF ReadField
<1>2. Got(<<rpc, 1>>, v)
  BY DEF ReadField, Read, ReadOf
<1>3. /\ t' = t /\ tier' = tier /\ has_alpha' = has_alpha /\ aspect' = aspect
      /\ len' = len /\ wpc' = wpc /\ WOrder' = WOrder /\ Shape' = Shape
  BY <1>1, DecSame
<1>4. rpc \notin {"idle", "rejected"}
  BY <1>1 DEF HeaderNames
<1>5. /\ rtier \in 0 .. MAX_TIER /\ ralpha \in BOOLEAN /\ raspect \in Aspects /\ rdone = 0
      /\ len = body_len_bytes(t, ralpha, rtier)
      /\ t \in Tunables
      /\ Has(t, ralpha, rpc) /\ rpc # "aspect" /\ rpos = At(t, ralpha, rpc)
      /\ wpc \notin {"packed", "absent"} => FALSE
      /\ wpc = "packed" => rtier = tier /\ ralpha = has_alpha /\ raspect = aspect
      /\ wpc = "packed" => \A g \in DOMAIN got : got[g] = Expected(g)
  BY <1>1, <1>4 DEF DecInv, EncInv
<1>6. wpc = "packed" => v = Expected(<<rpc, 1>>)
  BY <1>1, <1>4, <1>5, DecHeader
<1> HIDE DEF v
<1>7. wpc' = "packed" => \A g \in DOMAIN got' : got'[g] = Expected(g)'
  BY <1>1, <1>2, <1>5, <1>6, GotAdds
<1>8. AfterRead(rpc) = After(t, ralpha, rpc)
  BY <1>1, <1>5 DEF AfterRead, After, HeaderNames
<1>9. /\ rpc' \in HeaderNames \cup {"ac"} /\ rpc' # "aspect" /\ Has(t, ralpha, rpc')
      /\ rpos' = At(t, ralpha, rpc')
  BY <1>1, <1>5, <1>8, Chain
<1>10. rpc' \notin {"idle", "accepted", "rejected", "rendered"}
  BY <1>9 DEF HeaderNames
<1>11. CASE rpc' = "ac"
  <2>1. "ac" \notin HeaderNames
    BY DEF HeaderNames
  <2>2. rpos' = Place(t, ralpha, RShape, ROrder, 0) /\ 0 \in 0 .. CodeCount(RShape)
    <3>1. At(t, ralpha, "ac") = prefix_bits(t) + alpha_prefix(t, ralpha)
      BY DEF At
    <3> QED
      BY <1>5, <1>9, <1>11, <3>1, DecShape, Places
  <2>3. RShape' = RShape /\ ROrder' = ROrder
    BY <1>1, <1>3 DEF RShape, ROrder, Order, ac_shape, tier_layout, tier_count_scale, render_level,
      Sequential, l_count, COMPACT_TIER, DEFAULT_TIER
  <2>4. rdone' \in 0 .. CodeCount(RShape') /\ rpos' = Place(t', ralpha', RShape', ROrder', rdone')
    BY <1>1, <1>3, <1>5, <2>2, <2>3
  <2>5. 1 .. rdone' = {}
    BY <1>1, <1>5
  <2> QED
    BY <1>1, <1>3, <1>5, <1>7, <1>10, <1>11, <2>1, <2>4, <2>5 DEF DecInv
<1>12. CASE rpc' \in HeaderNames
  <2>1. rpc' # "ac"
    BY <1>12 DEF HeaderNames
  <2> QED
    BY <1>1, <1>3, <1>5, <1>7, <1>9, <1>10, <1>12, <2>1 DEF DecInv
<1> QED
  BY <1>9, <1>11, <1>12

LEMMA ReadCodeKeeps == EncInv /\ DecInv /\ ReadCode => DecInv'
<1> SUFFICES ASSUME EncInv, DecInv, ReadCode PROVE DecInv'
  OBVIOUS
<1> DEFINE f == ReadOrder[rdone + 1]
           w == read_bits_at(RShape, f)
           v == IF Delivered(f, w) THEN ReadOf(bits, rpos, w) ELSE Centre
<1>1. /\ rpc = "ac" /\ rdone < CodeCount(RShape) /\ UNCHANGED encoderVars
      /\ rdone' = rdone + 1 /\ rpos' = rpos + w /\ rpc' = rpc
      /\ rtier' = rtier /\ ralpha' = ralpha /\ raspect' = raspect
  BY DEF ReadCode
<1>2. Got(f, v)
  BY DEF ReadCode, Read, ReadOf
<1>3. /\ t' = t /\ tier' = tier /\ has_alpha' = has_alpha /\ aspect' = aspect
      /\ len' = len /\ wpc' = wpc /\ WOrder' = WOrder /\ Shape' = Shape
  BY <1>1, DecSame
<1>4. /\ rtier \in 0 .. MAX_TIER /\ ralpha \in BOOLEAN /\ raspect \in Aspects
      /\ len = body_len_bytes(t, ralpha, rtier)
      /\ rpos = Place(t, ralpha, RShape, ROrder, rdone)
      /\ wpc \notin {"packed", "absent"} => FALSE
      /\ wpc = "packed" => rtier = tier /\ ralpha = has_alpha /\ raspect = aspect
      /\ wpc = "packed" => \A g \in DOMAIN got : got[g] = Expected(g)
      /\ wpc = "packed" => \A i \in 1 .. rdone : WOrder[i] \in DOMAIN got
  BY <1>1 DEF DecInv
<1>5. /\ rdone \in 0 .. CodeCount(RShape) - 1 /\ f \in Codes(RShape)
      /\ w \in Nat /\ rpos \in Nat /\ w = bits_at(RShape, f)
      /\ rpos + w = Place(t, ralpha, RShape, ROrder, rdone + 1)
  BY <1>1, DecCode
<1>6. RShape' = RShape /\ ROrder' = ROrder
  BY <1>1, <1>3 DEF RShape, ROrder, Order, ac_shape, tier_layout, tier_count_scale, render_level,
    Sequential, l_count, COMPACT_TIER, DEFAULT_TIER
<1>7. rdone + 1 \in 0 .. CodeCount(RShape) /\ rdone \in Nat
  BY <1>5, DecShape
<1>8. ASSUME wpc = "packed" PROVE f = WOrder[rdone + 1] /\ RShape = Shape
  BY <1>4, <1>8, DecShape DEF ROrder, WOrder, RShape, Shape
<1>9. ASSUME wpc = "packed" PROVE v = Expected(f)
  <2>1. PICK i \in 1 .. CodeCount(Shape) : i = rdone + 1 /\ i - 1 = rdone
    BY <1>5, <1>8, <1>9, DecShape
  <2>2. f = WOrder[i] /\ w = bits_at(Shape, f)
    BY <1>5, <1>8, <1>9, <2>1
  <2>3. rpos = Place(t, has_alpha, Shape, WOrder, i - 1)
    BY <1>4, <1>8, <1>9, <2>1 DEF ROrder, WOrder
  <2>4. /\ ReadOf(bits, rpos, w) = Whole(f, WrittenWidth(f))
        /\ PastLimit(f) <=> rpos + w > limit_bits
    BY <1>9, <2>2, <2>3, CodeReads
  <2>5. f[1] \in {"L", "a", "b", "alpha"}
    BY <1>5, NamesApart
  <2>6. limit_bits \in Nat
    <3>1. t \in Tunables /\ len \in Nat
      BY DEF EncInv
    <3>2. t.trunc_bytes \in Nat
      BY <3>1, TunablesAssumption DEF TunablesAssumption
    <3> QED
      BY <3>1, <3>2 DEF limit_bits
  <2> HIDE DEF f, w
  <2>7. Delivered(f, w) <=> f[1] = "alpha" \/ ~ PastLimit(f)
    BY <1>5, <2>4, <2>6 DEF Delivered
  <2>8. v = IF f[1] \in {"L", "a", "b"} /\ PastLimit(f)
              THEN Centre ELSE Whole(f, WrittenWidth(f))
    BY <2>4, <2>5, <2>7
  <2> QED
    BY <2>8 DEF Expected
<1> HIDE DEF v
<1>10. /\ DOMAIN got' = DOMAIN got \cup {f}
       /\ wpc' = "packed" => \A g \in DOMAIN got' : got'[g] = Expected(g)'
  BY <1>1, <1>2, <1>4, <1>9, GotAdds
<1>11. wpc' = "packed" => \A i \in 1 .. rdone' : WOrder'[i] \in DOMAIN got'
  <2>1. 1 .. rdone + 1 = (1 .. rdone) \cup {rdone + 1}
    BY <1>7
  <2> QED
    BY <1>1, <1>3, <1>4, <1>8, <1>10, <2>1
<1>12. "ac" \notin HeaderNames
  BY DEF HeaderNames
<1> HIDE DEF f, w
<1>13. rdone' \in 0 .. CodeCount(RShape') /\ rpos' = Place(t', ralpha', RShape', ROrder', rdone')
  BY <1>1, <1>3, <1>5, <1>6, <1>7
<1> QED
  BY <1>1, <1>3, <1>4, <1>10, <1>11, <1>12, <1>13 DEF DecInv

LEMMA RenderedKeeps == EncInv /\ DecInv /\ Rendered => DecInv'
<1> SUFFICES ASSUME EncInv, DecInv, Rendered PROVE DecInv'
  OBVIOUS
<1>1. /\ rpc = "ac" /\ rdone = CodeCount(RShape) /\ UNCHANGED encoderVars /\ rpc' = "rendered"
      /\ rtier' = rtier /\ ralpha' = ralpha /\ raspect' = raspect /\ got' = got
  BY DEF Rendered
<1>2. /\ t' = t /\ tier' = tier /\ has_alpha' = has_alpha /\ len' = len /\ wpc' = wpc
      /\ Shape' = Shape /\ \A f : Expected(f)' = Expected(f)
  BY <1>1, DecSame
<1>3. /\ rtier \in 0 .. MAX_TIER /\ ralpha \in BOOLEAN /\ raspect \in Aspects
      /\ len = body_len_bytes(t, ralpha, rtier)
      /\ wpc \notin {"packed", "absent"} => FALSE
      /\ wpc = "packed" => rtier = tier /\ ralpha = has_alpha
      /\ wpc = "packed" => \A g \in DOMAIN got : got[g] = Expected(g)
      /\ wpc = "packed" => \A i \in 1 .. rdone : WOrder[i] \in DOMAIN got
  BY <1>1 DEF DecInv
<1>4. ASSUME wpc = "packed" PROVE Codes(Shape) \subseteq DOMAIN got
  <2>1. rdone = CodeCount(Shape)
    BY <1>1, <1>3, <1>4 DEF RShape, Shape
  <2> QED
    BY <1>3, <1>4, <2>1, EncShape DEF IsOrder
<1>5. rpc' \notin HeaderNames \cup {"ac", "idle", "accepted", "rejected"}
  BY <1>1 DEF HeaderNames
<1>6. wpc' = "packed" => \A g \in DOMAIN got' : got'[g] = Expected(g)'
  BY <1>1, <1>2, <1>3
<1>7. wpc' = "packed" => Codes(Shape') \subseteq DOMAIN got'
  BY <1>1, <1>2, <1>4
<1> QED
  BY <1>1, <1>2, <1>3, <1>5, <1>6, <1>7 DEF DecInv

\* The average colour is read from the places the header has.
LEMMA AverageColorKeeps == EncInv /\ DecInv /\ AverageColor => DecInv'
<1> SUFFICES ASSUME EncInv, DecInv, AverageColor PROVE DecInv'
  OBVIOUS
<1> DEFINE l == 8 + t.aspect_bits
           a == l + t.l_dc_bits
           b == a + t.a_dc_bits
           dcs == {<<"l_dc", l>>, <<"a_dc", a>>, <<"b_dc", b>>}
                    \cup (IF ralpha THEN {<<"alpha_dc", AlphaAt>>} ELSE {})
<1>1. /\ rpc = "accepted" /\ UNCHANGED encoderVars /\ rpc' = "averaged"
      /\ rpos' = rpos /\ rdone' = rdone /\ rtier' = rtier /\ ralpha' = ralpha
      /\ raspect' = raspect
      /\ got' = [f \in {<<d[1], 1>> : d \in dcs} |->
                   LET d == CHOOSE c \in dcs : c[1] = f[1]
                   IN  ReadOf(bits, d[2], HeaderWidth(t, d[1]))]
  BY DEF AverageColor, Read, ReadOf
<1>2. \A d \in dcs : /\ d[1] \in HeaderNames /\ Has(t, ralpha, d[1])
                     /\ d[2] = At(t, ralpha, d[1])
  BY DEF HeaderNames, Has, At, AlphaAt
<1> HIDE DEF dcs
<1>3. \A f \in DOMAIN got' : /\ f = <<f[1], 1>> /\ f[1] \in HeaderNames /\ Has(t, ralpha, f[1])
                             /\ got'[f] = ReadOf(bits, At(t, ralpha, f[1]), HeaderWidth(t, f[1]))
  <2> SUFFICES ASSUME NEW f \in {<<d[1], 1>> : d \in dcs}
               PROVE  /\ f = <<f[1], 1>> /\ f[1] \in HeaderNames /\ Has(t, ralpha, f[1])
                      /\ got'[f] = ReadOf(bits, At(t, ralpha, f[1]), HeaderWidth(t, f[1]))
    BY <1>1
  <2>1. PICK e \in dcs : f = <<e[1], 1>>
    OBVIOUS
  <2>2. PICK d : d = CHOOSE c \in dcs : c[1] = f[1]
    OBVIOUS
  <2>3. d \in dcs /\ d[1] = f[1]
    <3>1. e[1] = f[1]
      BY <2>1
    <3> QED
      BY <2>1, <2>2, <3>1
  <2>4. got'[f] = ReadOf(bits, d[2], HeaderWidth(t, d[1]))
    BY <1>1, <2>2
  <2> QED
    BY <1>2, <2>1, <2>3, <2>4
<1>4. /\ t' = t /\ tier' = tier /\ has_alpha' = has_alpha /\ len' = len /\ wpc' = wpc
      /\ \A f : Expected(f)' = Expected(f)
  BY <1>1, DecSame
<1>5. /\ rtier \in 0 .. MAX_TIER /\ ralpha \in BOOLEAN /\ raspect \in Aspects
      /\ len = body_len_bytes(t, ralpha, rtier)
      /\ wpc \notin {"packed", "absent"} => FALSE
      /\ wpc = "packed" => rtier = tier /\ ralpha = has_alpha
  BY <1>1 DEF DecInv
<1>6. ASSUME wpc' = "packed", NEW f \in DOMAIN got' PROVE got'[f] = Expected(f)'
  <2>1. ReadOf(bits, At(t, ralpha, f[1]), HeaderWidth(t, f[1])) = Expected(<<f[1], 1>>)
    BY <1>1, <1>3, <1>4, <1>6, DecHeader
  <2> QED
    BY <1>3, <1>4, <2>1
<1>7. rpc' \notin HeaderNames \cup {"ac", "idle", "accepted", "rejected", "rendered"}
  BY <1>1 DEF HeaderNames
<1> QED
  BY <1>1, <1>4, <1>5, <1>6, <1>7 DEF DecInv

LEMMA DecIdle == DecInv /\ UNCHANGED vars => DecInv'
<1> SUFFICES ASSUME DecInv, UNCHANGED vars PROVE DecInv'
  OBVIOUS
<1>1. UNCHANGED encoderVars /\ UNCHANGED decoderVars
  BY DEF vars
<1>2. /\ t' = t /\ tier' = tier /\ has_alpha' = has_alpha /\ aspect' = aspect
      /\ len' = len /\ wpc' = wpc /\ Shape' = Shape /\ WOrder' = WOrder
      /\ \A f : Expected(f)' = Expected(f)
  BY <1>1, DecSame
<1>3. /\ rpc' = rpc /\ rpos' = rpos /\ rdone' = rdone /\ rtier' = rtier /\ ralpha' = ralpha
      /\ raspect' = raspect /\ got' = got
  BY <1>1 DEF decoderVars
<1>4. RShape' = RShape /\ ROrder' = ROrder
  BY <1>2, <1>3 DEF RShape, ROrder, Order, ac_shape, tier_layout, tier_count_scale, render_level,
    Sequential, l_count, COMPACT_TIER, DEFAULT_TIER
<1> QED
  BY <1>2, <1>3, <1>4 DEF DecInv

LEMMA DecStep == EncInv /\ DecInv /\ [Next]_vars => DecInv'
BY DecWaits, FromBytesKeeps, ReadAspectKeeps, ReadFieldKeeps, ReadCodeKeeps, RenderedKeeps,
   AverageColorKeeps, DecIdle DEF Next, Decoder, Ended

-----------------------------------------------------------------------------
(* The Rust codec                                                              *)

Inv == EncInv /\ DecInv

LEMMA InvHolds == Spec => []Inv
<1>1. Init => Inv
  BY EncInit, DecInit DEF Inv
<1>2. Inv /\ [Next]_vars => Inv'
  BY EncStep, DecStep DEF Inv
<1> QED
  BY <1>1, <1>2, PTL DEF Spec

LEMMA PutsAreInside == EncInv => WritesInside
BY EncFields, EncShape DEF WritesInside, WFits

LEMMA ReadsAreInside == EncInv /\ DecInv => ReadsInside
<1> SUFFICES ASSUME EncInv, DecInv PROVE ReadsInside
  OBVIOUS
<1>0. t \in Tunables /\ len \in Nat
  BY DEF EncInv
<1>1. ASSUME rpc = "accepted"
      PROVE  /\ RFits(8, t.aspect_bits + t.l_dc_bits + t.a_dc_bits + t.b_dc_bits)
             /\ ralpha => RFits(AlphaAt, t.alpha_dc_bits)
  <2>1. /\ "b_dc" \in HeaderNames /\ Has(t, ralpha, "b_dc")
        /\ At(t, ralpha, "b_dc") + HeaderWidth(t, "b_dc") <= 8 * len
    <3>1. "b_dc" \in HeaderNames /\ Has(t, ralpha, "b_dc")
      BY DEF HeaderNames, Has
    <3> QED
      BY <1>1, <3>1, DecHeader
  <2>2. At(t, ralpha, "b_dc") + HeaderWidth(t, "b_dc")
          = 8 + (t.aspect_bits + t.l_dc_bits + t.a_dc_bits + t.b_dc_bits)
    BY <1>0, WidthsAreNat DEF At, HeaderWidth
  <2>3. ASSUME ralpha PROVE RFits(AlphaAt, t.alpha_dc_bits)
    <3>1. "alpha_dc" \in HeaderNames /\ Has(t, ralpha, "alpha_dc")
      BY <2>3 DEF HeaderNames, Has
    <3>2. At(t, ralpha, "alpha_dc") + HeaderWidth(t, "alpha_dc") <= 8 * len
      BY <1>1, <3>1, DecHeader
    <3>3. At(t, ralpha, "alpha_dc") = AlphaAt /\ HeaderWidth(t, "alpha_dc") = t.alpha_dc_bits
      BY DEF At, AlphaAt, HeaderWidth
    <3> QED
      BY <3>2, <3>3 DEF RFits
  <2> QED
    BY <2>1, <2>2, <2>3 DEF RFits
<1>2. ASSUME rpc \in HeaderNames PROVE RFits(rpos, HeaderWidth(t, rpc))
  <2>1. rpc \notin {"idle", "rejected"}
    BY <1>2 DEF HeaderNames
  <2>2. Has(t, ralpha, rpc) /\ rpos = At(t, ralpha, rpc)
    BY <1>2 DEF DecInv
  <2> QED
    BY <1>2, <2>1, <2>2, DecHeader DEF RFits
<1>3. ASSUME rpc = "ac", rdone < CodeCount(RShape)
      PROVE  RFits(rpos, read_bits_at(RShape, ReadOrder[rdone + 1]))
  BY <1>3, DecCode DEF RFits
<1> QED
  BY <1>1, <1>2, <1>3 DEF ReadsInside

LEMMA BitsAreExact == EncInv => ExactBits
<1> SUFFICES ASSUME EncInv, wpc = "packed" PROVE ExactBits
  BY DEF ExactBits
<1>1. Allocated /\ t \in Tunables /\ has_alpha \in BOOLEAN /\ len \in Nat
  BY DEF Allocated, EncInv
<1>2. wpos = Place(t, has_alpha, Shape, WOrder, CodeCount(Shape))
  BY DEF EncInv
<1>3. wpos = prefix_bits(t) + alpha_prefix(t, has_alpha) + ac_payload_bits(Shape)
  BY <1>1, <1>2, EncShape, Places
<1>4. wpos \in Nat /\ wpos <= 8 * len /\ 8 * len <= wpos + 7
  BY <1>1, <1>3, EncRoom
<1>5. 8 * len - wpos \in 0 .. 7
  BY <1>1, <1>4
<1>6. Cover(bits, wpos)
  BY <1>1 DEF EncInv, Laid
<1> QED
  BY <1>3, <1>5, <1>6 DEF ExactBits, Cover

\* ExactBudget: for every layout, tier and order of the codes no put and no read
\* leaves the string, from_bytes accepts no foreign string that a decode would
\* leave, and behind byte 0 every bit belongs to one field but the last seven at
\* most, which belong to none (encode.rs, lib.rs, decode.rs).
THEOREM BudgetIsExact == Spec => []ExactBudget
<1>1. Inv => ExactBudget
  BY PutsAreInside, ReadsAreInside, BitsAreExact DEF Inv, ExactBudget
<1> QED
  BY <1>1, InvHolds, PTL

\* RoundTrip: whatever the layout, what the encoder packs from_bytes accepts, and
\* the decoder, which keeps a position of its own, gets each field as it was put.
THEOREM FieldsComeBack == Spec => []RoundTrip
<1>1. Inv => RoundTrip
  <2> SUFFICES ASSUME Inv, wpc = "packed" PROVE RoundTrip
    BY DEF RoundTrip
  <2>1. rpc # "idle" => rpc # "rejected" /\ rtier = tier /\ ralpha = has_alpha
    BY DEF Inv, DecInv
  <2>2. \A f \in DOMAIN got : got[f] = Expected(f)
    BY DEF Inv, DecInv
  <2>3. rpc = "rendered" => Codes(Shape) \subseteq DOMAIN got
    BY DEF Inv, DecInv
  <2> QED
    BY <2>1, <2>2, <2>3 DEF RoundTrip, Expected
<1> QED
  BY <1>1, InvHolds, PTL

-----------------------------------------------------------------------------
(* The TypeScript decoder: its table is the shipped layout's.                  *)

LEMMA ScaleIs ==
  ASSUME NEW q \in 0 .. MAX_TIER
  PROVE  /\ tierCountScale(q) = tier_count_scale(q)
         /\ renderLevel(q) = render_level(q)
         /\ \/ q \in {0, 1} /\ tier_count_scale(q) = 1 /\ 2 ^ renderLevel(q) = 1
            \/ q = 2 /\ tier_count_scale(q) = 4 /\ 2 ^ renderLevel(q) = 2
            \/ q = 3 /\ tier_count_scale(q) = 16 /\ 2 ^ renderLevel(q) = 4
            \/ q = 4 /\ tier_count_scale(q) = 64 /\ 2 ^ renderLevel(q) = 8
<1>1. /\ 2 ^ 0 = 1 /\ 2 ^ 1 = 2 /\ 2 ^ 2 = 4 /\ 2 ^ 3 = 8 /\ 2 ^ 4 = 16 /\ 2 ^ 6 = 64
      /\ 4 ^ 0 = 1 /\ 4 ^ 1 = 4 /\ 4 ^ 2 = 16 /\ 4 ^ 3 = 64
  OBVIOUS
<1>2. CASE q = 0 \/ q = 1
  <2>1. renderLevel(q) = 0 /\ render_level(q) = 0 /\ 2 * renderLevel(q) = 0
    BY <1>2 DEF renderLevel, render_level
  <2> QED
    BY <1>1, <1>2, <2>1 DEF tierCountScale, tier_count_scale
<1>3. CASE q = 2
  <2>1. renderLevel(q) = 1 /\ render_level(q) = 1 /\ 2 * renderLevel(q) = 2
    BY <1>3 DEF renderLevel, render_level
  <2> QED
    BY <1>1, <1>3, <2>1 DEF tierCountScale, tier_count_scale
<1>4. CASE q = 3
  <2>1. renderLevel(q) = 2 /\ render_level(q) = 2 /\ 2 * renderLevel(q) = 4
    BY <1>4 DEF renderLevel, render_level
  <2> QED
    BY <1>1, <1>4, <2>1 DEF tierCountScale, tier_count_scale
<1>5. CASE q = 4
  <2>1. renderLevel(q) = 3 /\ render_level(q) = 3 /\ 2 * renderLevel(q) = 6
    BY <1>5 DEF renderLevel, render_level
  <2> QED
    BY <1>1, <1>5, <2>1 DEF tierCountScale, tier_count_scale
<1> QED
  BY <1>2, <1>3, <1>4, <1>5 DEF MAX_TIER

\* A row of the one table is the row of the other.
SameRow(y, z) ==
  /\ \A i \in 1 .. 2 : /\ y.lBands[i] = <<z.l_tiers[i][1], z.l_tiers[i][2]>>
                       /\ y.laBands[i] = <<z.la_tiers[i][1], z.la_tiers[i][2]>>
  /\ y.cCount = z.c_count /\ y.cBits = z.c_bits
  /\ y.caCount = z.ca_count /\ y.caBits = z.ca_bits
  /\ y.aCount = z.a_count /\ y.aBits = z.a_bits

LEMMA RowsAgree ==
  ASSUME NEW q \in 0 .. MAX_TIER
  PROVE  SameRow(tierLayout(q), tier_layout(DEFAULT, q))
<1>1. /\ SameRow(LAYOUT_B, LayoutB) /\ SameRow(LAYOUT_T0, LayoutT0) /\ SameRow(LAYOUT_TC, LayoutTC)
  BY DEF SameRow, LAYOUT_B, LayoutB, LAYOUT_T0, LayoutT0, LAYOUT_TC, LayoutTC
<1>2. DEFAULT.layout = LayoutT0 /\ DEFAULT.layout_upper = LayoutB /\ DEFAULT.layout_compact = LayoutTC
  BY DEF DEFAULT
<1>3. \/ q = COMPACT_TIER
      \/ q # COMPACT_TIER /\ q = DEFAULT_TIER
      \/ q # COMPACT_TIER /\ q # DEFAULT_TIER
  OBVIOUS
<1>4. COMPACT_TIER # DEFAULT_TIER
  BY DEF COMPACT_TIER, DEFAULT_TIER
<1>5. CASE q = COMPACT_TIER
  <2>1. tierLayout(q) = LAYOUT_TC /\ tier_layout(DEFAULT, q) = LayoutTC
    BY <1>2, <1>4, <1>5 DEF tierLayout, tier_layout
  <2> QED
    BY <1>1, <2>1
<1>6. CASE q # COMPACT_TIER /\ q = DEFAULT_TIER
  <2>1. tierLayout(q) = LAYOUT_T0 /\ tier_layout(DEFAULT, q) = LayoutT0
    BY <1>2, <1>6 DEF tierLayout, tier_layout
  <2> QED
    BY <1>1, <2>1
<1>7. CASE q # COMPACT_TIER /\ q # DEFAULT_TIER
  <2>1. tierLayout(q) = LAYOUT_B /\ tier_layout(DEFAULT, q) = LayoutB
    BY <1>2, <1>7 DEF tierLayout, tier_layout
  <2> QED
    BY <1>1, <2>1
<1> QED
  BY <1>3, <1>5, <1>6, <1>7

LEMMA TableAgrees ==
  ASSUME NEW q \in 0 .. MAX_TIER, NEW a \in BOOLEAN
  PROVE  LET h == ac_shape(DEFAULT, a, q)
         IN  /\ Bands(q, a)[1] = <<h.l0, h.l0_bits>> /\ Bands(q, a)[2] = <<h.l1, h.l1_bits>>
             /\ Chroma(q, a) = <<h.c, h.c_bits>>
             /\ a => AlphaAc(q) = <<h.alpha, h.alpha_bits>>
<1> DEFINE y == tierLayout(q)
           z == tier_layout(DEFAULT, q)
           s == tier_count_scale(q)
<1>1. SameRow(y, z) /\ tierCountScale(q) = s
  BY RowsAgree, ScaleIs
<1> HIDE DEF y, z, s
<1>2. /\ Bands(q, a)[1] = LET b == (IF a THEN y.laBands ELSE y.lBands)[1] IN <<b[1] * s, b[2]>>
      /\ Bands(q, a)[2] = LET b == (IF a THEN y.laBands ELSE y.lBands)[2] IN <<b[1] * s, b[2]>>
      /\ Chroma(q, a) = IF a THEN <<y.caCount * s, y.caBits>> ELSE <<y.cCount * s, y.cBits>>
      /\ AlphaAc(q) = <<y.aCount * s, y.aBits>>
  BY <1>1 DEF Bands, Chroma, AlphaAc, y
<1>3. /\ y.lBands[1][1] = z.l_tiers[1][1] /\ y.lBands[1][2] = z.l_tiers[1][2]
      /\ y.lBands[2][1] = z.l_tiers[2][1] /\ y.lBands[2][2] = z.l_tiers[2][2]
      /\ y.laBands[1][1] = z.la_tiers[1][1] /\ y.laBands[1][2] = z.la_tiers[1][2]
      /\ y.laBands[2][1] = z.la_tiers[2][1] /\ y.laBands[2][2] = z.la_tiers[2][2]
  BY <1>1 DEF SameRow
<1>4. CASE a
  BY <1>1, <1>2, <1>3, <1>4 DEF SameRow, ac_shape, z, s
<1>5. CASE ~ a
  BY <1>1, <1>2, <1>3, <1>5 DEF SameRow, ac_shape, z, s
<1> QED
  BY <1>4, <1>5

-----------------------------------------------------------------------------
(* Its reads are the header's fields and then the codes in sequential order.   *)

TsFields == <<"l_dc", "a_dc", "b_dc", "l_scale", "a_scale", "b_scale", "alpha_dc", "alpha_scale">>
FieldCount(a) == IF a THEN 8 ELSE 6
Item == (Names \X Nat) \X Nat

\* Codes n + 1 .. n + k of a channel, w bits each.
IsRun(r, ch, n, k, w) ==
  r \in Seq(Item) /\ Len(r) = k /\ \A i \in 1 .. k : r[i] = <<<<ch, n + i>>, w>>

LEMMA CodeRunIs ==
  ASSUME NEW ch \in Names, NEW n \in Nat, NEW k \in Nat, NEW w \in Nat
  PROVE  IsRun(CodeRun(ch, n, <<k, w>>), ch, n, k, w)
<1> DEFINE r == CodeRun(ch, n, <<k, w>>)
<1>1. r = [i \in 1 .. k |-> <<<<ch, n + i>>, w>>]
  BY DEF CodeRun
<1>2. \A i \in 1 .. k : n + i \in Nat
  OBVIOUS
<1>3. r \in [1 .. k -> Item]
  BY <1>1, <1>2 DEF Item
<1>4. \A i \in 1 .. k : r[i] = <<<<ch, n + i>>, w>>
  BY <1>1
<1> HIDE DEF r
<1>5. r \in Seq(Item) /\ Len(r) = k
  BY <1>3
<1> QED
  BY <1>4, <1>5 DEF r, IsRun

LEMMA HeaderIs ==
  /\ Header(Fixed) \in Seq(Item) /\ Len(Header(Fixed)) = 6
  /\ Header(AlphaFixed) \in Seq(Item) /\ Len(Header(AlphaFixed)) = 2
  /\ \A i \in 1 .. 6 : Header(Fixed)[i] = <<<<TsFields[i], 1>>, HeaderWidth(DEFAULT, TsFields[i])>>
  /\ \A i \in 1 .. 2 :
       Header(AlphaFixed)[i] = <<<<TsFields[6 + i], 1>>, HeaderWidth(DEFAULT, TsFields[6 + i])>>
<1>1. /\ HeaderWidth(DEFAULT, "l_dc") = 7 /\ HeaderWidth(DEFAULT, "a_dc") = 7
      /\ HeaderWidth(DEFAULT, "b_dc") = 7 /\ HeaderWidth(DEFAULT, "l_scale") = 6
      /\ HeaderWidth(DEFAULT, "a_scale") = 6 /\ HeaderWidth(DEFAULT, "b_scale") = 5
      /\ HeaderWidth(DEFAULT, "alpha_dc") = 5 /\ HeaderWidth(DEFAULT, "alpha_scale") = 4
  BY DEF HeaderWidth, DEFAULT
<1>2. /\ Header(Fixed) = [i \in 1 .. 6 |-> <<<<Fixed[i][1], 1>>, Fixed[i][2]>>]
      /\ Header(AlphaFixed) = [i \in 1 .. 2 |-> <<<<AlphaFixed[i][1], 1>>, AlphaFixed[i][2]>>]
  BY DEF Header, Fixed, AlphaFixed
<1>3. /\ \A i \in 1 .. 6 : /\ Fixed[i] = <<TsFields[i], HeaderWidth(DEFAULT, TsFields[i])>>
                           /\ Fixed[i][1] \in Names /\ Fixed[i][2] \in Nat
      /\ \A i \in 1 .. 2 : /\ AlphaFixed[i] = <<TsFields[6 + i], HeaderWidth(DEFAULT, TsFields[6 + i])>>
                           /\ AlphaFixed[i][1] \in Names /\ AlphaFixed[i][2] \in Nat
  <2>1. ASSUME NEW i \in 1 .. 6
        PROVE  /\ Fixed[i] = <<TsFields[i], HeaderWidth(DEFAULT, TsFields[i])>>
               /\ Fixed[i][1] \in Names /\ Fixed[i][2] \in Nat
    <3>1. i = 1 \/ i = 2 \/ i = 3 \/ i = 4 \/ i = 5 \/ i = 6
      OBVIOUS
    <3> QED
      BY <1>1, <3>1 DEF Fixed, TsFields, Names, HeaderNames
  <2>2. ASSUME NEW i \in 1 .. 2
        PROVE  /\ AlphaFixed[i] = <<TsFields[6 + i], HeaderWidth(DEFAULT, TsFields[6 + i])>>
               /\ AlphaFixed[i][1] \in Names /\ AlphaFixed[i][2] \in Nat
    <3>1. i = 1 \/ i = 2
      OBVIOUS
    <3> QED
      BY <1>1, <3>1 DEF AlphaFixed, TsFields, Names, HeaderNames
  <2> QED
    BY <2>1, <2>2
<1>4. /\ Header(Fixed) \in [1 .. 6 -> Item] /\ Header(AlphaFixed) \in [1 .. 2 -> Item]
  BY <1>2, <1>3 DEF Item
<1> QED
  BY <1>2, <1>3, <1>4
\* One run of items behind what is there.
LEMMA RunJoins ==
  ASSUME NEW s \in Seq(Item), NEW r \in Seq(Item)
  PROVE  /\ s \o r \in Seq(Item) /\ Len(s \o r) = Len(s) + Len(r)
         /\ \A i \in 1 .. Len(s) : (s \o r)[i] = s[i]
         /\ \A i \in 1 .. Len(r) : (s \o r)[Len(s) + i] = r[i]
<1> DEFINE c == s \o r
<1>0. PICK m \in Nat, k \in Nat : m = Len(s) /\ k = Len(r)
  OBVIOUS
<1>1. /\ c \in Seq(Item) /\ Len(c) = m + k
      /\ \A i \in 1 .. m + k : c[i] = IF i <= m THEN s[i] ELSE r[i - m]
  BY <1>0, ConcatProperties
<1> HIDE DEF c
<1>2. ASSUME NEW i \in 1 .. m PROVE c[i] = s[i]
  <2>1. i \in 1 .. m + k /\ i <= m
    OBVIOUS
  <2> QED
    BY <1>1, <2>1
<1>3. ASSUME NEW i \in 1 .. k PROVE c[m + i] = r[i]
  <2>1. m + i \in 1 .. m + k /\ ~ (m + i <= m) /\ m + i - m = i
    OBVIOUS
  <2>2. c[m + i] = IF m + i <= m THEN s[m + i] ELSE r[m + i - m]
    BY <1>1, <2>1
  <2> QED
    BY <2>1, <2>2
<1> QED
  BY <1>0, <1>1, <1>2, <1>3 DEF c

\* Five runs of items behind a header of n.
Joined(r, n, l, m, c, z, s, p1, p2, p3, p4, p5) ==
  /\ r \in Seq(Item) /\ Len(r) = n + l + m + c + c + z
  /\ \A i \in 1 .. n : r[i] = s[i]
  /\ \A i \in 1 .. l : r[n + i] = p1[i]
  /\ \A i \in 1 .. m : r[n + l + i] = p2[i]
  /\ \A i \in 1 .. c : r[n + l + m + i] = p3[i]
  /\ \A i \in 1 .. c : r[n + l + m + c + i] = p4[i]
  /\ \A i \in 1 .. z : r[n + l + m + c + c + i] = p5[i]

LEMMA RunsJoin ==
  ASSUME NEW n \in Nat, NEW l \in Nat, NEW m \in Nat, NEW c \in Nat, NEW z \in Nat,
         NEW s \in Seq(Item), NEW p1 \in Seq(Item), NEW p2 \in Seq(Item), NEW p3 \in Seq(Item),
         NEW p4 \in Seq(Item), NEW p5 \in Seq(Item),
         Len(s) = n, Len(p1) = l, Len(p2) = m, Len(p3) = c, Len(p4) = c, Len(p5) = z
  PROVE  Joined(s \o p1 \o p2 \o p3 \o p4 \o p5, n, l, m, c, z, s, p1, p2, p3, p4, p5)
<1> DEFINE s1 == s \o p1
           s2 == s1 \o p2
           s3 == s2 \o p3
           s4 == s3 \o p4
           r == s4 \o p5
<1>0. n + l \in Nat /\ n + l + m \in Nat /\ n + l + m + c \in Nat /\ n + l + m + c + c \in Nat
  OBVIOUS
<1>1. /\ s1 \in Seq(Item) /\ Len(s1) = n + l
      /\ \A i \in 1 .. n : s1[i] = s[i]
      /\ \A i \in 1 .. l : s1[n + i] = p1[i]
  <2>1. /\ s1 \in Seq(Item) /\ Len(s1) = Len(s) + Len(p1)
        /\ \A i \in 1 .. Len(s) : s1[i] = s[i]
        /\ \A i \in 1 .. Len(p1) : s1[Len(s) + i] = p1[i]
    BY RunJoins
  <2> HIDE DEF s1
  <2> QED
    BY <2>1
<1> HIDE DEF s1
<1>2. /\ s2 \in Seq(Item) /\ Len(s2) = n + l + m
      /\ \A i \in 1 .. n + l : s2[i] = s1[i]
      /\ \A i \in 1 .. m : s2[n + l + i] = p2[i]
  <2>1. /\ s2 \in Seq(Item) /\ Len(s2) = Len(s1) + Len(p2)
        /\ \A i \in 1 .. Len(s1) : s2[i] = s1[i]
        /\ \A i \in 1 .. Len(p2) : s2[Len(s1) + i] = p2[i]
    BY <1>1, RunJoins
  <2> HIDE DEF s2
  <2> QED
    BY <1>1, <2>1
<1> HIDE DEF s2
<1>3. /\ s3 \in Seq(Item) /\ Len(s3) = n + l + m + c
      /\ \A i \in 1 .. n + l + m : s3[i] = s2[i]
      /\ \A i \in 1 .. c : s3[n + l + m + i] = p3[i]
  <2>1. /\ s3 \in Seq(Item) /\ Len(s3) = Len(s2) + Len(p3)
        /\ \A i \in 1 .. Len(s2) : s3[i] = s2[i]
        /\ \A i \in 1 .. Len(p3) : s3[Len(s2) + i] = p3[i]
    BY <1>2, RunJoins
  <2> HIDE DEF s3
  <2> QED
    BY <1>2, <2>1
<1> HIDE DEF s3
<1>4. /\ s4 \in Seq(Item) /\ Len(s4) = n + l + m + c + c
      /\ \A i \in 1 .. n + l + m + c : s4[i] = s3[i]
      /\ \A i \in 1 .. c : s4[n + l + m + c + i] = p4[i]
  <2>1. /\ s4 \in Seq(Item) /\ Len(s4) = Len(s3) + Len(p4)
        /\ \A i \in 1 .. Len(s3) : s4[i] = s3[i]
        /\ \A i \in 1 .. Len(p4) : s4[Len(s3) + i] = p4[i]
    BY <1>3, RunJoins
  <2> HIDE DEF s4
  <2> QED
    BY <1>3, <2>1
<1> HIDE DEF s4
<1>5. /\ r \in Seq(Item) /\ Len(r) = n + l + m + c + c + z
      /\ \A i \in 1 .. n + l + m + c + c : r[i] = s4[i]
      /\ \A i \in 1 .. z : r[n + l + m + c + c + i] = p5[i]
  <2>1. /\ r \in Seq(Item) /\ Len(r) = Len(s4) + Len(p5)
        /\ \A i \in 1 .. Len(s4) : r[i] = s4[i]
        /\ \A i \in 1 .. Len(p5) : r[Len(s4) + i] = p5[i]
    BY <1>4, RunJoins
  <2> HIDE DEF r
  <2> QED
    BY <1>4, <2>1
<1> HIDE DEF r
<1>6. ASSUME NEW i \in 1 .. n PROVE r[i] = s[i]
  <2>1. /\ i \in 1 .. n + l /\ i \in 1 .. n + l + m /\ i \in 1 .. n + l + m + c
        /\ i \in 1 .. n + l + m + c + c
    OBVIOUS
  <2>2. r[i] = s4[i] /\ s4[i] = s3[i] /\ s3[i] = s2[i]
    BY <1>3, <1>4, <1>5, <2>1
  <2>3. s2[i] = s1[i] /\ s1[i] = s[i]
    BY <1>1, <1>2, <2>1
  <2> QED
    BY <2>2, <2>3
<1>7. ASSUME NEW i \in 1 .. l PROVE r[n + i] = p1[i]
  <2>1. /\ n + i \in 1 .. n + l /\ n + i \in 1 .. n + l + m /\ n + i \in 1 .. n + l + m + c
        /\ n + i \in 1 .. n + l + m + c + c
    OBVIOUS
  <2>2. PICK j : j = n + i
    OBVIOUS
  <2>3. r[j] = s4[j] /\ s4[j] = s3[j] /\ s3[j] = s2[j] /\ s2[j] = s1[j]
    BY <1>2, <1>3, <1>4, <1>5, <2>1, <2>2
  <2>4. s1[j] = p1[i]
    BY <1>1, <2>2
  <2> QED
    BY <2>2, <2>3, <2>4
<1>8. ASSUME NEW i \in 1 .. m PROVE r[n + l + i] = p2[i]
  <2>1. /\ n + l + i \in 1 .. n + l + m /\ n + l + i \in 1 .. n + l + m + c
        /\ n + l + i \in 1 .. n + l + m + c + c
    OBVIOUS
  <2> QED
    BY <1>2, <1>3, <1>4, <1>5, <2>1
<1>9. ASSUME NEW i \in 1 .. c PROVE r[n + l + m + i] = p3[i]
  <2>1. n + l + m + i \in 1 .. n + l + m + c /\ n + l + m + i \in 1 .. n + l + m + c + c
    OBVIOUS
  <2> QED
    BY <1>3, <1>4, <1>5, <2>1
<1>10. ASSUME NEW i \in 1 .. c PROVE r[n + l + m + c + i] = p4[i]
  <2>1. n + l + m + c + i \in 1 .. n + l + m + c + c
    OBVIOUS
  <2> QED
    BY <1>4, <1>5, <2>1
<1>11. s \o p1 \o p2 \o p3 \o p4 \o p5 = r
  BY DEF r, s4, s3, s2, s1
<1> QED
  BY <1>5, <1>11, <1>6, <1>7, <1>8, <1>9, <1>10 DEF Joined

\* The reads of a header of n fields and of the codes of a shape.
IsReads(r, n, h) ==
  /\ r \in Seq(Item) /\ Len(r) = n + CodeCount(h)
  /\ \A i \in 1 .. n : r[i] = <<<<TsFields[i], 1>>, HeaderWidth(DEFAULT, TsFields[i])>>
  /\ \A i \in 1 .. CodeCount(h) : r[n + i] = <<Sequential(h)[i], bits_at(h, Sequential(h)[i])>>

LEMMA ReadsAre ==
  ASSUME NEW q \in 0 .. MAX_TIER, NEW a \in BOOLEAN, DEFAULT \in Tunables
  PROVE  IsReads(Reads(q, a), FieldCount(a), ac_shape(DEFAULT, a, q))
<1> DEFINE h == ac_shape(DEFAULT, a, q)
<1>1. ShapeOK(h) /\ (~ a => h.alpha = 0)
  BY ShapeIs
<1>2. /\ Bands(q, a)[1] = <<h.l0, h.l0_bits>> /\ Bands(q, a)[2] = <<h.l1, h.l1_bits>>
      /\ Chroma(q, a) = <<h.c, h.c_bits>> /\ (a => AlphaAc(q) = <<h.alpha, h.alpha_bits>>)
  BY TableAgrees
<1> HIDE DEF h
<1>3. PICK n \in Nat, l \in Nat, m \in Nat, c \in Nat, z \in Nat :
        n = FieldCount(a) /\ l = h.l0 /\ m = h.l1 /\ c = h.c /\ z = h.alpha
  BY <1>1 DEF ShapeOK, FieldCount
<1>4. PICK w0 \in Nat, w1 \in Nat, wc \in Nat, wz \in Nat :
        w0 = h.l0_bits /\ w1 = h.l1_bits /\ wc = h.c_bits /\ wz = h.alpha_bits
  BY <1>1 DEF ShapeOK
<1> DEFINE A == IF a THEN Header(AlphaFixed) ELSE <<>>
           Z == IF a THEN CodeRun("alpha", 0, AlphaAc(q)) ELSE <<>>
           S == Header(Fixed) \o A
           C1 == CodeRun("L", 0, <<l, w0>>)
           C2 == CodeRun("L", l, <<m, w1>>)
           C3 == CodeRun("a", 0, <<c, wc>>)
           C4 == CodeRun("b", 0, <<c, wc>>)
<1>5. Reads(q, a) = S \o C1 \o C2 \o C3 \o C4 \o Z
  <2>1. Bands(q, a)[1] = <<l, w0>> /\ Bands(q, a)[2] = <<m, w1>> /\ Chroma(q, a) = <<c, wc>>
    BY <1>2, <1>3, <1>4
  <2>2. Bands(q, a)[1][1] = l
    BY <2>1
  <2> QED
    BY <2>1, <2>2 DEF Reads
<1>6. "L" \in Names /\ "a" \in Names /\ "b" \in Names /\ "alpha" \in Names
  BY DEF Names
<1>7. \A k \in Nat : \A i \in 1 .. k : 0 + i = i
  OBVIOUS
<1>8. IsRun(C1, "L", 0, l, w0) /\ IsRun(C2, "L", l, m, w1)
  BY <1>6, CodeRunIs
<1>9. IsRun(C3, "a", 0, c, wc) /\ IsRun(C4, "b", 0, c, wc)
  BY <1>6, CodeRunIs
<1>10. IsRun(Z, "alpha", 0, z, wz)
  <2>1. CASE a
    <3>1. AlphaAc(q) = <<z, wz>>
      BY <1>2, <1>3, <1>4, <2>1
    <3>2. Z = CodeRun("alpha", 0, <<z, wz>>)
      BY <2>1, <3>1
    <3> HIDE DEF Z
    <3> QED
      BY <1>6, <3>2, CodeRunIs
  <2>2. CASE ~ a
    BY <1>1, <1>3, <2>2 DEF IsRun
  <2> QED
    BY <2>1, <2>2
<1> HIDE DEF Z, C1, C2, C3, C4
<1>11. /\ C1 \in Seq(Item) /\ Len(C1) = l /\ C2 \in Seq(Item) /\ Len(C2) = m
       /\ C3 \in Seq(Item) /\ Len(C3) = c /\ C4 \in Seq(Item) /\ Len(C4) = c
       /\ Z \in Seq(Item) /\ Len(Z) = z
  BY <1>8, <1>9, <1>10 DEF IsRun
<1>12. /\ \A i \in 1 .. l : C1[i] = <<<<"L", i>>, w0>>
       /\ \A i \in 1 .. m : C2[i] = <<<<"L", l + i>>, w1>>
       /\ \A i \in 1 .. c : C3[i] = <<<<"a", i>>, wc>>
       /\ \A i \in 1 .. c : C4[i] = <<<<"b", i>>, wc>>
       /\ \A i \in 1 .. z : Z[i] = <<<<"alpha", i>>, wz>>
  BY <1>7, <1>8, <1>9, <1>10 DEF IsRun
<1>13. /\ S \in Seq(Item) /\ Len(S) = n
       /\ \A i \in 1 .. n : S[i] = <<<<TsFields[i], 1>>, HeaderWidth(DEFAULT, TsFields[i])>>
  <2> DEFINE F == Header(Fixed)
  <2>1. /\ F \in Seq(Item) /\ Len(F) = 6
        /\ \A i \in 1 .. 6 : F[i] = <<<<TsFields[i], 1>>, HeaderWidth(DEFAULT, TsFields[i])>>
    BY HeaderIs
  <2>2. CASE a
    <3> DEFINE G == Header(AlphaFixed)
    <3>1. /\ G \in Seq(Item) /\ Len(G) = 2
          /\ \A i \in 1 .. 2 : G[i] = <<<<TsFields[6 + i], 1>>, HeaderWidth(DEFAULT, TsFields[6 + i])>>
      BY HeaderIs
    <3>2. S = F \o G /\ n = 8
      BY <1>3, <2>2 DEF FieldCount
    <3> HIDE DEF F, G, S
    <3>3. /\ F \o G \in Seq(Item) /\ Len(F \o G) = Len(F) + Len(G)
          /\ \A i \in 1 .. Len(F) : (F \o G)[i] = F[i]
          /\ \A i \in 1 .. Len(G) : (F \o G)[Len(F) + i] = G[i]
      BY <2>1, <3>1, RunJoins
    <3>4. /\ S \in Seq(Item) /\ Len(S) = 8
          /\ \A i \in 1 .. 6 : S[i] = F[i]
          /\ \A i \in 1 .. 2 : S[6 + i] = G[i]
      <4>1. Len(F) + Len(G) = 8
        BY <2>1, <3>1
      <4> QED
        BY <2>1, <3>1, <3>2, <3>3, <4>1
    <3>5. S[7] = G[1] /\ S[8] = G[2] /\ TsFields[6 + 1] = TsFields[7] /\ TsFields[6 + 2] = TsFields[8]
      <4>1. 6 + 1 = 7 /\ 6 + 2 = 8 /\ 1 \in 1 .. 2 /\ 2 \in 1 .. 2
        OBVIOUS
      <4> QED
        BY <3>4, <4>1
    <3>6. ASSUME NEW i \in 1 .. n
          PROVE  S[i] = <<<<TsFields[i], 1>>, HeaderWidth(DEFAULT, TsFields[i])>>
      <4>1. i \in 1 .. 6 \/ i = 7 \/ i = 8
        BY <3>2
      <4>2. CASE i \in 1 .. 6
        BY <2>1, <3>4, <4>2
      <4>3. CASE i = 7
        BY <3>1, <3>5, <4>3
      <4>4. CASE i = 8
        BY <3>1, <3>5, <4>4
      <4> QED
        BY <4>1, <4>2, <4>3, <4>4
    <3> QED
      BY <3>2, <3>4, <3>6
  <2>3. CASE ~ a
    <3>1. S = F \o <<>> /\ n = 6
      BY <1>3, <2>3 DEF FieldCount
    <3> HIDE DEF F, S
    <3>2. F \o <<>> = F
      BY <2>1, ConcatEmptySeq
    <3> QED
      BY <2>1, <3>1, <3>2
  <2> QED
    BY <2>2, <2>3
<1> HIDE DEF A, Z, S, C1, C2, C3, C4
<1> DEFINE r == Reads(q, a)
<1>14. /\ r \in Seq(Item) /\ Len(r) = n + l + m + c + c + z
       /\ \A i \in 1 .. n : r[i] = S[i]
       /\ \A i \in 1 .. l : r[n + i] = C1[i]
       /\ \A i \in 1 .. m : r[n + l + i] = C2[i]
       /\ \A i \in 1 .. c : r[n + l + m + i] = C3[i]
       /\ \A i \in 1 .. c : r[n + l + m + c + i] = C4[i]
       /\ \A i \in 1 .. z : r[n + l + m + c + c + i] = Z[i]
  <2>1. Joined(S \o C1 \o C2 \o C3 \o C4 \o Z, n, l, m, c, z, S, C1, C2, C3, C4, Z)
    BY <1>11, <1>13, RunsJoin
  <2>2. Joined(r, n, l, m, c, z, S, C1, C2, C3, C4, Z)
    BY <1>5, <2>1
  <2> HIDE DEF r
  <2> QED
    BY <2>2 DEF Joined
<1> HIDE DEF r
<1>15. CodeCount(h) = l + m + c + c + z /\ l_count(h) = l + m
  BY <1>3 DEF CodeCount, l_count
<1>16. ASSUME NEW i \in 1 .. CodeCount(h)
       PROVE  r[n + i] = <<Sequential(h)[i], bits_at(h, Sequential(h)[i])>>
  <2> DEFINE f == Sequential(h)[i]
  <2>1. i \in Nat /\ i >= 1 /\ i <= l + m + c + c + z
    BY <1>15
  <2>2. f = IF i <= l + m THEN <<"L", i>>
            ELSE IF i <= l + m + c THEN <<"a", i - (l + m)>>
            ELSE IF i <= l + m + c + c THEN <<"b", i - (l + m + c)>>
            ELSE <<"alpha", i - (l + m + c + c)>>
    BY <1>3, <1>15, <2>1 DEF Sequential
  <2> HIDE DEF f
  <2>3. CASE i <= l
    <3>1. i <= l + m /\ i \in 1 .. l
      BY <2>1, <2>3
    <3>2. f = <<"L", i>>
      BY <2>2, <3>1
    <3>3. bits_at(h, f) = w0
      BY <1>3, <1>4, <2>3, <3>2 DEF bits_at
    <3>4. r[n + i] = C1[i] /\ C1[i] = <<<<"L", i>>, w0>>
      BY <1>12, <1>14, <3>1
    <3> QED
      BY <3>1, <3>2, <3>3, <3>4 DEF f
  <2>4. CASE i > l /\ i <= l + m
    <3>1. f = <<"L", i>>
      BY <2>2, <2>4
    <3>2. bits_at(h, f) = w1
      <4>1. ~ (i <= h.l0)
        BY <1>3, <2>1, <2>4
      <4> QED
        BY <1>4, <3>1, <4>1 DEF bits_at
    <3>3. PICK j \in 1 .. m : l + j = i /\ n + l + j = n + i
      <4>1. /\ i - l \in 1 .. m /\ l + (i - l) = i
            /\ n + l + (i - l) = n + i
        BY <2>1, <2>4
      <4> QED
        BY <4>1
    <3>4. r[n + l + j] = C2[j] /\ C2[j] = <<<<"L", l + j>>, w1>>
      BY <1>12, <1>14
    <3> QED
      BY <3>1, <3>2, <3>3, <3>4 DEF f
  <2>5. CASE i > l + m /\ i <= l + m + c
    <3>1. PICK j \in 1 .. c : j = i - (l + m) /\ n + l + m + j = n + i
      <4>1. /\ i - (l + m) \in 1 .. c
            /\ n + l + m + (i - (l + m)) = n + i
        BY <2>1, <2>5
      <4> QED
        BY <4>1
    <3>2. ~ (i <= l + m)
      BY <2>1, <2>5
    <3>3. f = <<"a", j>>
      BY <2>2, <2>5, <3>1, <3>2
    <3>4. bits_at(h, f) = wc
      BY <1>4, <3>3 DEF bits_at
    <3>5. r[n + l + m + j] = C3[j] /\ C3[j] = <<<<"a", j>>, wc>>
      BY <1>12, <1>14, <3>1
    <3> QED
      BY <3>1, <3>3, <3>4, <3>5 DEF f
  <2>6. CASE i > l + m + c /\ i <= l + m + c + c
    <3>1. PICK j \in 1 .. c : j = i - (l + m + c) /\ n + l + m + c + j = n + i
      <4>1. /\ i - (l + m + c) \in 1 .. c
            /\ n + l + m + c + (i - (l + m + c)) = n + i
        BY <2>1, <2>6
      <4> QED
        BY <4>1
    <3>2. ~ (i <= l + m) /\ ~ (i <= l + m + c)
      BY <2>1, <2>6
    <3>3. f = <<"b", j>>
      BY <2>2, <2>6, <3>1, <3>2
    <3>4. bits_at(h, f) = wc
      BY <1>4, <3>3 DEF bits_at
    <3>5. r[n + l + m + c + j] = C4[j] /\ C4[j] = <<<<"b", j>>, wc>>
      BY <1>12, <1>14, <3>1
    <3> QED
      BY <3>1, <3>3, <3>4, <3>5 DEF f
  <2>7. CASE i > l + m + c + c
    <3>1. PICK j \in 1 .. z : j = i - (l + m + c + c) /\ n + l + m + c + c + j = n + i
      <4>1. /\ i - (l + m + c + c) \in 1 .. z
            /\ n + l + m + c + c + (i - (l + m + c + c)) = n + i
        BY <2>1, <2>7
      <4> QED
        BY <4>1
    <3>2. ~ (i <= l + m) /\ ~ (i <= l + m + c) /\ ~ (i <= l + m + c + c)
      BY <2>1, <2>7
    <3>3. f = <<"alpha", j>>
      BY <2>2, <3>1, <3>2
    <3>4. bits_at(h, f) = wz
      BY <1>4, <3>3 DEF bits_at
    <3>5. r[n + l + m + c + c + j] = Z[j] /\ Z[j] = <<<<"alpha", j>>, wz>>
      BY <1>12, <1>14, <3>1
    <3> QED
      BY <3>1, <3>3, <3>4, <3>5 DEF f
  <2> QED
    BY <2>1, <2>3, <2>4, <2>5, <2>6, <2>7
<1>17. Len(r) = n + CodeCount(h)
  BY <1>14, <1>15
<1>18. \A i \in 1 .. n : r[i] = <<<<TsFields[i], 1>>, HeaderWidth(DEFAULT, TsFields[i])>>
  BY <1>13, <1>14
<1> QED
  BY <1>3, <1>14, <1>16, <1>17, <1>18 DEF h, r, IsReads

-----------------------------------------------------------------------------
(* Where it stands at each of them.                                            *)

LEMMA LeastNumber ==
  ASSUME NEW T \in SUBSET Nat, T # {}
  PROVE  \E n \in T : \A m \in T : n <= m
<1> DEFINE R == {p \in Nat \X Nat : p[1] < p[2]}
<1>1. OpToRel(<, Nat) = R
  BY DEF OpToRel
<1>2. IsWellFoundedOn(R, Nat)
  BY <1>1, NatLessThanWellFounded
<1>3. PICK n \in T : \A m \in T : ~ (<<m, n>> \in R)
  BY <1>2, WFMin
<1>4. \A m \in T : ~ (m < n)
  BY <1>3
<1> QED
  BY <1>4

\* Positions that start at bit 16 and advance by the widths are bitpos.
LEMMA BitposIs ==
  ASSUME NEW r \in Seq(Item), NEW P \in [1 .. Len(r) -> Nat],
         \A i \in 1 .. Len(r) :
           P[i] = IF i = 1 THEN DESCRIPTOR_BITS ELSE P[i - 1] + r[i - 1][2]
  PROVE  Bitpos(r) = P
<1> DEFINE Sums(x) == x = [i \in 1 .. Len(r) |-> IF i = 1 THEN DESCRIPTOR_BITS
                                                          ELSE x[i - 1] + r[i - 1][2]]
           u == CHOOSE x : Sums(x)
<1>1. Bitpos(r) = u
  BY DEF Bitpos
<1>2. Sums(P)
  OBVIOUS
<1>3. Sums(u)
  BY <1>2
<1>4. DOMAIN u = 1 .. Len(r)
  BY <1>3
<1>5. \A i \in 1 .. Len(r) : u[i] = IF i = 1 THEN DESCRIPTOR_BITS ELSE u[i - 1] + r[i - 1][2]
  BY <1>3
<1>6. u = [i \in 1 .. Len(r) |-> u[i]]
  BY <1>3
<1> HIDE DEF u
<1>7. ASSUME NEW k \in 1 .. Len(r), u[k] # P[k] PROVE FALSE
  <2> DEFINE T == {i \in 1 .. Len(r) : u[i] # P[i]}
  <2>1. T \in SUBSET Nat /\ T # {}
    BY <1>7
  <2>2. PICK m \in T : \A i \in T : m <= i
    BY <2>1, LeastNumber
  <2>3. m \in 1 .. Len(r) /\ u[m] # P[m] /\ m # 1
    BY <1>5, <2>2
  <2>4. m - 1 \in 1 .. Len(r) /\ m - 1 \notin T
    BY <2>2, <2>3
  <2>5. u[m - 1] = P[m - 1]
    BY <2>4
  <2> QED
    BY <1>5, <2>3, <2>5
<1> QED
  BY <1>1, <1>6, <1>7

\* The bit the layout has for each read.
LEMMA TsPositions ==
  ASSUME NEW q \in 0 .. MAX_TIER, NEW a \in BOOLEAN, DEFAULT \in Tunables
  PROVE  LET h == ac_shape(DEFAULT, a, q)
             n == FieldCount(a)
             at == Bitpos(Reads(q, a))
         IN  /\ \A i \in 1 .. n : at[i] = At(DEFAULT, a, TsFields[i])
             /\ \A i \in 1 .. CodeCount(h) : at[n + i] = Place(DEFAULT, a, h, Sequential(h), i - 1)
<1> DEFINE h == ac_shape(DEFAULT, a, q)
           o == Sequential(h)
           n == FieldCount(a)
           r == Reads(q, a)
           P == [i \in 1 .. n + CodeCount(h) |->
                   IF i <= n THEN At(DEFAULT, a, TsFields[i]) ELSE Place(DEFAULT, a, h, o, i - n - 1)]
<1>0. ShapeOK(h) /\ IsReads(r, n, h)
  BY ReadsAre, ShapeIs
<1> HIDE DEF h, r, n
<1>1. /\ ShapeOK(h) /\ CodeCount(h) \in Nat /\ r \in Seq(Item) /\ Len(r) = n + CodeCount(h)
      /\ \A i \in 1 .. n : r[i] = <<<<TsFields[i], 1>>, HeaderWidth(DEFAULT, TsFields[i])>>
      /\ \A i \in 1 .. CodeCount(h) : r[n + i] = <<o[i], bits_at(h, o[i])>>
  BY <1>0, CountIsNat DEF IsReads
<1>2. IsOrder(o, h)
  BY <1>1, SequentialIsOrder
<1> HIDE DEF o
<1>3. n \in Nat /\ n >= 6 /\ n <= 8 /\ (a => n = 8) /\ (~ a => n = 6)
  BY DEF FieldCount, n
<1>4. \A i \in 1 .. n : TsFields[i] \in HeaderNames /\ Has(DEFAULT, a, TsFields[i])
  <2>1. ASSUME NEW i \in 1 .. n PROVE TsFields[i] \in HeaderNames /\ Has(DEFAULT, a, TsFields[i])
    <3>1. i = 1 \/ i = 2 \/ i = 3 \/ i = 4 \/ i = 5 \/ i = 6 \/ (a /\ (i = 7 \/ i = 8))
      BY <1>3
    <3>2. ~ DEFAULT.b_scale_from_a
      BY DEF DEFAULT
    <3> QED
      BY <3>1, <3>2 DEF TsFields, HeaderNames, Has
  <2> QED
    BY <2>1
<1>5. /\ \A i \in 1 .. n : i # n => After(DEFAULT, a, TsFields[i]) = TsFields[i + 1]
      /\ After(DEFAULT, a, TsFields[n]) = "ac"
  <2>1. DEFAULT.cfl_bits = 0 /\ ~ DEFAULT.b_scale_from_a /\ ~ (DEFAULT.cfl_bits > 0)
    BY DEF DEFAULT
  <2>2. ASSUME NEW i \in 1 .. n, i # n PROVE After(DEFAULT, a, TsFields[i]) = TsFields[i + 1]
    <3>1. i = 1 \/ i = 2 \/ i = 3 \/ i = 4 \/ i = 5 \/ (a /\ (i = 6 \/ i = 7))
      BY <1>3, <2>2
    <3>2. CASE i = 1
      BY <3>2 DEF After, TsFields
    <3>3. CASE i = 2
      BY <3>3 DEF After, TsFields
    <3>4. CASE i = 3
      BY <3>4 DEF After, TsFields
    <3>5. CASE i = 4
      BY <3>5 DEF After, TsFields
    <3>6. CASE i = 5
      BY <2>1, <3>6 DEF After, TsFields
    <3>6a. CASE i = 6 /\ a
      BY <3>6a, <2>1 DEF After, TsFields
    <3>7. CASE i = 7 /\ a
      BY <3>7 DEF After, TsFields
    <3> QED
      BY <3>1, <3>2, <3>3, <3>4, <3>5, <3>6, <3>6a, <3>7
  <2>3. CASE a
    <3>1. TsFields[n] = "alpha_scale"
      BY <1>3, <2>3 DEF TsFields
    <3> QED
      BY <2>2, <3>1 DEF After
  <2>4. CASE ~ a
    <3>1. TsFields[n] = "b_scale"
      BY <1>3, <2>4 DEF TsFields
    <3> QED
      BY <2>1, <2>2, <2>4, <3>1 DEF After
  <2> QED
    BY <2>3, <2>4
<1>6. /\ \A i \in 1 .. n : At(DEFAULT, a, TsFields[i]) \in Nat
      /\ \A i \in 1 .. n : i # n =>
           At(DEFAULT, a, TsFields[i + 1])
             = At(DEFAULT, a, TsFields[i]) + HeaderWidth(DEFAULT, TsFields[i])
      /\ prefix_bits(DEFAULT) + alpha_prefix(DEFAULT, a)
           = At(DEFAULT, a, TsFields[n]) + HeaderWidth(DEFAULT, TsFields[n])
  <2>1. ASSUME NEW i \in 1 .. n
        PROVE  /\ At(DEFAULT, a, TsFields[i]) \in Nat
               /\ At(DEFAULT, a, After(DEFAULT, a, TsFields[i]))
                    = At(DEFAULT, a, TsFields[i]) + HeaderWidth(DEFAULT, TsFields[i])
    BY <1>4, Chain
  <2>2. At(DEFAULT, a, "ac") = prefix_bits(DEFAULT) + alpha_prefix(DEFAULT, a)
    BY DEF At
  <2>3. n \in 1 .. n
    BY <1>3
  <2>4. \A i \in 1 .. n : i # n =>
          At(DEFAULT, a, TsFields[i + 1])
            = At(DEFAULT, a, TsFields[i]) + HeaderWidth(DEFAULT, TsFields[i])
    BY <1>5, <2>1
  <2>5. At(DEFAULT, a, After(DEFAULT, a, TsFields[n]))
          = At(DEFAULT, a, TsFields[n]) + HeaderWidth(DEFAULT, TsFields[n])
    BY <2>1, <2>3
  <2> QED
    BY <1>5, <2>1, <2>2, <2>4, <2>5
<1>7. /\ Place(DEFAULT, a, h, o, 0) = prefix_bits(DEFAULT) + alpha_prefix(DEFAULT, a)
      /\ \A k \in 0 .. CodeCount(h) : Place(DEFAULT, a, h, o, k) \in Nat
      /\ \A k \in 0 .. CodeCount(h) - 1 :
           Place(DEFAULT, a, h, o, k + 1) = Place(DEFAULT, a, h, o, k) + bits_at(h, o[k + 1])
  BY <1>1, <1>2, Places
<1>8. PICK N \in Nat : N = CodeCount(h)
  BY <1>1
<1>8a. /\ DOMAIN P = 1 .. n + N
       /\ \A i \in 1 .. n + N :
            P[i] = IF i <= n THEN At(DEFAULT, a, TsFields[i]) ELSE Place(DEFAULT, a, h, o, i - n - 1)
       /\ P = [i \in 1 .. n + N |-> P[i]]
  BY <1>8
<1> HIDE DEF P
<1>9. /\ \A i \in 1 .. n : P[i] = At(DEFAULT, a, TsFields[i])
      /\ \A i \in 1 .. N : P[n + i] = Place(DEFAULT, a, h, o, i - 1)
  <2>1. \A i \in 1 .. n : i \in 1 .. n + N /\ i <= n
    BY <1>3, <1>8
  <2>2. ASSUME NEW i \in 1 .. N PROVE P[n + i] = Place(DEFAULT, a, h, o, i - 1)
    <3>1. n + i \in 1 .. n + N /\ ~ (n + i <= n) /\ n + i - n - 1 = i - 1
      BY <1>3, <1>8
    <3>2. PICK j : j = n + i
      OBVIOUS
    <3>3. P[j] = Place(DEFAULT, a, h, o, j - n - 1)
      BY <1>8a, <3>1, <3>2
    <3>4. j - n - 1 = i - 1
      BY <1>3, <1>8, <3>2
    <3>5. P[j] = Place(DEFAULT, a, h, o, i - 1)
      BY <3>3, <3>4
    <3> QED
      BY <3>2, <3>5
  <2> QED
    BY <1>8a, <2>1, <2>2
<1>10. P \in [1 .. Len(r) -> Nat]
  <2>1. ASSUME NEW i \in 1 .. n + N, ~ (i <= n) PROVE i - n - 1 \in 0 .. N
    BY <1>3, <2>1
  <2>2. ASSUME NEW i \in 1 .. n + N, i <= n PROVE i \in 1 .. n
    BY <1>3, <2>2
  <2>3. ASSUME NEW i \in 1 .. n + N PROVE P[i] \in Nat
    <3>1. CASE i <= n
      BY <1>6, <1>8a, <2>2, <3>1
    <3>2. CASE ~ (i <= n)
      BY <1>7, <1>8, <1>8a, <2>1, <3>2
    <3> QED
      BY <3>1, <3>2
  <2> QED
    BY <1>1, <1>8, <1>8a, <2>3
<1>11. ASSUME NEW i \in 1 .. Len(r)
       PROVE  P[i] = IF i = 1 THEN DESCRIPTOR_BITS ELSE P[i - 1] + r[i - 1][2]
  <2>1. i \in 1 .. n + N
    BY <1>1, <1>8
  <2>2. CASE i = 1
    <3>1. At(DEFAULT, a, TsFields[1]) = 16
      BY DEF At, TsFields, DEFAULT
    <3>2. 1 \in 1 .. n
      BY <1>3
    <3> QED
      BY <1>9, <2>2, <3>1, <3>2 DEF DESCRIPTOR_BITS
  <2>3. CASE i # 1 /\ i <= n
    <3>1. PICK j \in 1 .. n : j = i - 1 /\ j # n /\ j + 1 = i
      BY <1>3, <2>1, <2>3
    <3>2. i \in 1 .. n
      BY <1>3, <2>1, <2>3
    <3>3. r[j][2] = HeaderWidth(DEFAULT, TsFields[j])
      BY <1>1
    <3>4. P[i] = P[j] + HeaderWidth(DEFAULT, TsFields[j])
      BY <1>6, <1>9, <3>1, <3>2
    <3> QED
      BY <2>3, <3>1, <3>3, <3>4
  <2>4. CASE i = n + 1
    <3>1. n \in 1 .. n /\ i - 1 = n /\ i # 1 /\ 1 \in 1 .. N /\ 1 - 1 = 0
      BY <1>3, <1>8, <2>1, <2>4
    <3>2. r[n][2] = HeaderWidth(DEFAULT, TsFields[n])
      BY <1>1, <3>1
    <3>3. P[n + 1] = Place(DEFAULT, a, h, o, 0)
      BY <1>9, <3>1
    <3>4. P[n] = At(DEFAULT, a, TsFields[n])
      BY <1>9, <3>1
    <3> QED
      BY <1>6, <1>7, <2>4, <3>1, <3>2, <3>3, <3>4
  <2>5. CASE i > n + 1
    <3>1. PICK j \in 1 .. N : /\ n + j = i - 1 /\ j + 1 \in 1 .. N /\ n + (j + 1) = i
                              /\ j \in 0 .. N - 1 /\ j - 1 \in 0 .. N - 1
                              /\ j + 1 - 1 = j /\ j - 1 + 1 = j
      <4>1. PICK j : j = i - 1 - n
        OBVIOUS
      <4>2. /\ j \in 1 .. N /\ n + j = i - 1 /\ j + 1 \in 1 .. N /\ n + (j + 1) = i
            /\ j \in 0 .. N - 1 /\ j - 1 \in 0 .. N - 1 /\ j + 1 - 1 = j /\ j - 1 + 1 = j
        BY <1>3, <1>8, <2>1, <2>5, <4>1
      <4> QED
        BY <4>2
    <3>2. r[n + j] = <<o[j], bits_at(h, o[j])>>
      BY <1>1, <1>8
    <3>3. r[i - 1][2] = bits_at(h, o[j])
      BY <3>1, <3>2
    <3>4. P[n + j] = Place(DEFAULT, a, h, o, j - 1)
      BY <1>9
    <3>5. P[n + (j + 1)] = Place(DEFAULT, a, h, o, j + 1 - 1)
      BY <1>9, <3>1
    <3>6. Place(DEFAULT, a, h, o, j - 1 + 1) = Place(DEFAULT, a, h, o, j - 1) + bits_at(h, o[j - 1 + 1])
      BY <1>7, <1>8, <3>1
    <3>7. P[i] = P[i - 1] + r[i - 1][2]
      BY <3>1, <3>3, <3>4, <3>5, <3>6
    <3>8. i # 1
      BY <1>3, <2>5
    <3> QED
      BY <3>7, <3>8
  <2> QED
    BY <1>3, <2>1, <2>2, <2>3, <2>4, <2>5
<1>12. Bitpos(r) = P
  BY <1>1, <1>10, <1>11, BitposIs
<1> QED
  BY <1>8, <1>9, <1>12 DEF h, o, n, r

-----------------------------------------------------------------------------
(* What it reads of a packed string.                                           *)

LEMMA StoredIsRead ==
  ASSUME NEW f, NEW x, NEW w, Stored(bits, f, x, w)
  PROVE  readBits(x, w) = Whole(f, w)
BY DEF Stored, readBits, Whole

LEMMA HeaderIsStored ==
  ASSUME EncInv, wpc = "packed", NEW m \in HeaderNames, Has(t, has_alpha, m)
  PROVE  readBits(At(t, has_alpha, m), HeaderWidth(t, m)) = Whole(<<m, 1>>, WrittenWidth(<<m, 1>>))
<1>1. Allocated
  BY DEF Allocated
<1>2. Laid(bits, t, has_alpha, Shape, WOrder, 12, wdone, wpos)
  BY <1>1, RanksOfCodes DEF EncInv
<1>3. Rank(m) < 12
  BY RanksEnd
<1>4. Stored(bits, <<m, 1>>, At(t, has_alpha, m), HeaderWidth(t, m))
  BY <1>2, <1>3 DEF Laid, Headers
<1>5. WrittenWidth(<<m, 1>>) = HeaderWidth(t, m)
  BY DEF WrittenWidth
<1> QED
  BY <1>4, <1>5, StoredIsRead

LEMMA CodeIsStored ==
  ASSUME EncInv, wpc = "packed", NEW i \in 1 .. CodeCount(Shape)
  PROVE  readBits(Place(t, has_alpha, Shape, WOrder, i - 1), bits_at(Shape, WOrder[i]))
           = Whole(WOrder[i], WrittenWidth(WOrder[i]))
<1>1. Allocated /\ wdone = CodeCount(Shape)
  BY DEF Allocated, EncInv
<1>2. Laid(bits, t, has_alpha, Shape, WOrder, 12, CodeCount(Shape), wpos)
  BY <1>1, RanksOfCodes DEF EncInv
<1>3. Stored(bits, WOrder[i], Place(t, has_alpha, Shape, WOrder, i - 1), bits_at(Shape, WOrder[i]))
  BY <1>2 DEF Laid, FirstCodes
<1>4. WOrder[i] \in Codes(Shape)
  BY EncShape DEF IsOrder
<1>5. WrittenWidth(WOrder[i]) = bits_at(Shape, WOrder[i])
  BY <1>4, NamesApart DEF WrittenWidth
<1> QED
  BY <1>3, <1>5, StoredIsRead

LEMMA TsReadsWhole ==
  ASSUME EncInv, wpc = "packed", t = DEFAULT, NEW j \in 1 .. Len(Reads(tier, has_alpha))
  PROVE  readBits(Bitpos(Reads(tier, has_alpha))[j], Reads(tier, has_alpha)[j][2])
           = Whole(Reads(tier, has_alpha)[j][1], WrittenWidth(Reads(tier, has_alpha)[j][1]))
<1> DEFINE r == Reads(tier, has_alpha)
           at == Bitpos(r)
           n == FieldCount(has_alpha)
<1>1. tier \in 0 .. MAX_TIER /\ has_alpha \in BOOLEAN /\ DEFAULT \in Tunables
  BY DEF EncInv
<1>2. IsReads(r, n, Shape)
  BY <1>1, ReadsAre DEF Shape
<1>3. WOrder = Sequential(Shape)
  BY DEF WOrder, Order, Shape, DEFAULT
<1>4. /\ \A i \in 1 .. n : at[i] = At(DEFAULT, has_alpha, TsFields[i])
      /\ \A i \in 1 .. CodeCount(Shape) :
           at[n + i] = Place(DEFAULT, has_alpha, Shape, Sequential(Shape), i - 1)
  BY <1>1, TsPositions DEF Shape
<1>5. n \in Nat /\ CodeCount(Shape) \in Nat
  BY EncShape DEF FieldCount
<1> HIDE DEF r, at
<1>6. j \in 1 .. n + CodeCount(Shape)
  BY <1>2 DEF IsReads, r
<1>7. CASE j <= n
  <2>1. j \in 1 .. n
    BY <1>5, <1>6, <1>7
  <2>2. TsFields[j] \in HeaderNames /\ Has(DEFAULT, has_alpha, TsFields[j])
    <3>1. j = 1 \/ j = 2 \/ j = 3 \/ j = 4 \/ j = 5 \/ j = 6 \/ (has_alpha /\ (j = 7 \/ j = 8))
      BY <2>1 DEF FieldCount
    <3>2. ~ DEFAULT.b_scale_from_a
      BY DEF DEFAULT
    <3> QED
      BY <3>1, <3>2 DEF TsFields, HeaderNames, Has
  <2> HIDE DEF n
  <2>3. r[j] = <<<<TsFields[j], 1>>, HeaderWidth(DEFAULT, TsFields[j])>>
    BY <1>2, <2>1 DEF IsReads
  <2>4. at[j] = At(DEFAULT, has_alpha, TsFields[j])
    BY <1>4, <2>1
  <2>5. readBits(At(DEFAULT, has_alpha, TsFields[j]), HeaderWidth(DEFAULT, TsFields[j]))
          = Whole(<<TsFields[j], 1>>, WrittenWidth(<<TsFields[j], 1>>))
    BY <2>2, HeaderIsStored
  <2>6. r[j][1] = <<TsFields[j], 1>> /\ r[j][2] = HeaderWidth(DEFAULT, TsFields[j])
    BY <2>3
  <2> QED
    BY <2>4, <2>5, <2>6 DEF r, at
<1>8. CASE ~ (j <= n)
  <2> HIDE DEF n
  <2>1. PICK i \in 1 .. CodeCount(Shape) : n + i = j
    <3>1. j - n \in 1 .. CodeCount(Shape) /\ n + (j - n) = j
      BY <1>5, <1>6, <1>8
    <3> QED
      BY <3>1
  <2>2. r[n + i] = <<Sequential(Shape)[i], bits_at(Shape, Sequential(Shape)[i])>>
    BY <1>2 DEF IsReads
  <2>3. r[j] = <<WOrder[i], bits_at(Shape, WOrder[i])>>
    BY <1>3, <2>1, <2>2
  <2>4. at[j] = Place(t, has_alpha, Shape, WOrder, i - 1)
    BY <1>3, <1>4, <2>1
  <2>5. readBits(Place(t, has_alpha, Shape, WOrder, i - 1), bits_at(Shape, WOrder[i]))
          = Whole(WOrder[i], WrittenWidth(WOrder[i]))
    BY CodeIsStored
  <2>6. r[j][1] = WOrder[i] /\ r[j][2] = bits_at(Shape, WOrder[i])
    BY <2>3
  <2> QED
    BY <2>4, <2>5, <2>6 DEF r, at
<1> QED
  BY <1>7, <1>8

LEMMA TsRendersAll ==
  ASSUME EncInv, wpc = "packed", t = DEFAULT
  PROVE  /\ TsRendered(tier, has_alpha) =
              [f \in (DOMAIN TsRendered(tier, has_alpha)) |-> Whole(f, WrittenWidth(f))]
         /\ Codes(Shape) \subseteq DOMAIN TsRendered(tier, has_alpha)
<1> DEFINE r == Reads(tier, has_alpha)
           at == Bitpos(r)
           n == FieldCount(has_alpha)
           v == TsRendered(tier, has_alpha)
           F == {r[i][1] : i \in DOMAIN r}
<1>1. tier \in 0 .. MAX_TIER /\ has_alpha \in BOOLEAN /\ DEFAULT \in Tunables
  BY DEF EncInv
<1>2. IsReads(r, n, Shape)
  BY <1>1, ReadsAre DEF Shape
<1>3. v = [f \in F |-> LET i == CHOOSE i \in DOMAIN r : r[i][1] = f IN readBits(at[i], r[i][2])]
  BY DEF TsRendered
<1>4. DOMAIN r = 1 .. Len(r)
  BY <1>2 DEF IsReads
<1>5. \A j \in DOMAIN r : readBits(at[j], r[j][2]) = Whole(r[j][1], WrittenWidth(r[j][1]))
  BY <1>4, TsReadsWhole
<1> HIDE DEF r, at, v, n
<1>6. ASSUME NEW f \in F PROVE v[f] = Whole(f, WrittenWidth(f))
  <2>1. PICK i : i = CHOOSE k \in DOMAIN r : r[k][1] = f
    OBVIOUS
  <2>2. i \in DOMAIN r /\ r[i][1] = f
    BY <2>1
  <2>3. v[f] = readBits(at[i], r[i][2])
    BY <1>3, <2>1
  <2> QED
    BY <1>5, <2>2, <2>3
<1>7. DOMAIN v = F /\ v = [f \in F |-> v[f]]
  BY <1>3
<1>8. WOrder = Sequential(Shape)
  BY DEF WOrder, Order, Shape, DEFAULT
<1>9. ASSUME NEW f \in Codes(Shape) PROVE f \in F
  <2>1. PICK i \in 1 .. CodeCount(Shape) : Sequential(Shape)[i] = f
    BY <1>8, EncShape DEF IsOrder
  <2>2. r[n + i] = <<f, bits_at(Shape, f)>>
    BY <1>2, <2>1 DEF IsReads
  <2>3. n \in Nat /\ CodeCount(Shape) \in Nat
    BY EncShape DEF FieldCount, n
  <2>4. Len(r) = n + CodeCount(Shape)
    BY <1>2 DEF IsReads
  <2>5. n + i \in DOMAIN r
    BY <1>4, <2>3, <2>4
  <2> QED
    BY <2>2, <2>5
<1> HIDE DEF F
<1>10. v = [f \in DOMAIN v |-> Whole(f, WrittenWidth(f))]
  BY <1>6, <1>7
<1>11. Codes(Shape) \subseteq DOMAIN v
  BY <1>7, <1>9
<1> QED
  BY <1>10, <1>11 DEF v

LEMMA DcsAre ==
  LET fixed == Header(SubSeq(Fixed, 1, 3))
      at == Bitpos(fixed)
  IN  /\ DOMAIN fixed = 1 .. 3
      /\ \A i \in 1 .. 3 : /\ fixed[i] = <<<<TsFields[i], 1>>, HeaderWidth(DEFAULT, TsFields[i])>>
                           /\ at[i] = At(DEFAULT, FALSE, TsFields[i])
                           /\ at[i] = At(DEFAULT, TRUE, TsFields[i])
<1> DEFINE d == SubSeq(Fixed, 1, 3)
           fixed == Header(d)
<1>1. /\ HeaderWidth(DEFAULT, "l_dc") = 7 /\ HeaderWidth(DEFAULT, "a_dc") = 7
      /\ HeaderWidth(DEFAULT, "b_dc") = 7
      /\ TsFields[1] = "l_dc" /\ TsFields[2] = "a_dc" /\ TsFields[3] = "b_dc"
  BY DEF HeaderWidth, DEFAULT, TsFields
<1>2. d = [i \in 1 .. 3 |-> Fixed[i]]
  BY DEF Fixed
<1>3. Fixed[1] = <<"l_dc", 7>> /\ Fixed[2] = <<"a_dc", 7>> /\ Fixed[3] = <<"b_dc", 7>>
  BY DEF Fixed
<1>4. DOMAIN d = 1 .. 3 /\ d[1] = <<"l_dc", 7>> /\ d[2] = <<"a_dc", 7>> /\ d[3] = <<"b_dc", 7>>
  BY <1>2, <1>3
<1> HIDE DEF d
<1>5. fixed = [i \in 1 .. 3 |-> <<<<d[i][1], 1>>, d[i][2]>>]
  BY <1>4 DEF Header
<1>6. /\ fixed[1] = <<<<"l_dc", 1>>, 7>> /\ fixed[2] = <<<<"a_dc", 1>>, 7>>
      /\ fixed[3] = <<<<"b_dc", 1>>, 7>>
  BY <1>4, <1>5
<1>7. \A i \in 1 .. 3 : i = 1 \/ i = 2 \/ i = 3
  OBVIOUS
<1>8. "l_dc" \in Names /\ "a_dc" \in Names /\ "b_dc" \in Names
  BY DEF Names, HeaderNames
<1>9. \A i \in 1 .. 3 : fixed[i] \in Item
  BY <1>6, <1>7, <1>8 DEF Item
<1>10. DOMAIN fixed = 1 .. 3 /\ fixed = [i \in 1 .. 3 |-> fixed[i]]
  BY <1>5
<1> HIDE DEF fixed
<1>11. fixed \in [1 .. 3 -> Item]
  BY <1>9, <1>10
<1>12. fixed \in Seq(Item) /\ Len(fixed) = 3
  <2>1. PICK k \in Nat : k = 3
    OBVIOUS
  <2>2. fixed \in [1 .. k -> Item]
    BY <1>11, <2>1
  <2>3. fixed \in Seq(Item) /\ Len(fixed) = k
    BY <2>2
  <2> QED
    BY <2>1, <2>3
<1> DEFINE P == [i \in 1 .. 3 |-> 9 + 7 * i]
<1>13. P \in [1 .. 3 -> Nat] /\ P[1] = 16 /\ P[2] = 23 /\ P[3] = 30
  OBVIOUS
<1> HIDE DEF P
<1>14. ASSUME NEW i \in 1 .. 3
       PROVE  P[i] = IF i = 1 THEN DESCRIPTOR_BITS ELSE P[i - 1] + fixed[i - 1][2]
  <2>1. CASE i = 1
    BY <1>13, <2>1 DEF DESCRIPTOR_BITS
  <2>2. CASE i = 2
    <3>1. fixed[1][2] = 7 /\ i - 1 = 1
      BY <1>6, <2>2
    <3> QED
      BY <1>13, <2>2, <3>1
  <2>3. CASE i = 3
    <3>1. fixed[2][2] = 7 /\ i - 1 = 2
      BY <1>6, <2>3
    <3> QED
      BY <1>13, <2>3, <3>1
  <2> QED
    BY <1>7, <2>1, <2>2, <2>3
<1>15. Bitpos(fixed) = P
  <2>1. P \in [1 .. Len(fixed) -> Nat]
    BY <1>12, <1>13
  <2>2. \A i \in 1 .. Len(fixed) :
          P[i] = IF i = 1 THEN DESCRIPTOR_BITS ELSE P[i - 1] + fixed[i - 1][2]
    BY <1>12, <1>14
  <2> QED
    BY <1>12, <2>1, <2>2, BitposIs
<1>16. /\ \A a \in BOOLEAN : /\ At(DEFAULT, a, "l_dc") = 16 /\ At(DEFAULT, a, "a_dc") = 23
                             /\ At(DEFAULT, a, "b_dc") = 30
  BY DEF At, DEFAULT
<1>17. ASSUME NEW i \in 1 .. 3
       PROVE  /\ fixed[i] = <<<<TsFields[i], 1>>, HeaderWidth(DEFAULT, TsFields[i])>>
              /\ P[i] = At(DEFAULT, FALSE, TsFields[i])
              /\ P[i] = At(DEFAULT, TRUE, TsFields[i])
  <2>1. CASE i = 1
    BY <1>1, <1>6, <1>13, <1>16, <2>1
  <2>2. CASE i = 2
    BY <1>1, <1>6, <1>13, <1>16, <2>2
  <2>3. CASE i = 3
    BY <1>1, <1>6, <1>13, <1>16, <2>3
  <2> QED
    BY <1>7, <2>1, <2>2, <2>3
<1> QED
  BY <1>10, <1>15, <1>17 DEF fixed, d

LEMMA TsAveragesWhole ==
  ASSUME EncInv, wpc = "packed", t = DEFAULT, NEW f \in DOMAIN TsAveraged(has_alpha)
  PROVE  TsAveraged(has_alpha)[f] = Whole(f, WrittenWidth(f))
<1> DEFINE fixed == Header(SubSeq(Fixed, 1, 3))
           at == Bitpos(fixed)
           D == {fixed[i][1] : i \in 1 .. 3}
           E == IF has_alpha THEN {<<"alpha_dc", 1>>} ELSE {}
           v == TsAveraged(has_alpha)
<1>1. v = [g \in D \cup E |->
             IF g[1] = "alpha_dc" THEN readBits(PREFIX_BITS, AlphaFixed[1][2])
             ELSE LET i == CHOOSE i \in 1 .. 3 : fixed[i][1] = g IN readBits(at[i], fixed[i][2])]
  BY DEF TsAveraged
<1>2. /\ DOMAIN fixed = 1 .. 3
      /\ \A i \in 1 .. 3 : /\ fixed[i] = <<<<TsFields[i], 1>>, HeaderWidth(DEFAULT, TsFields[i])>>
                           /\ at[i] = At(DEFAULT, FALSE, TsFields[i])
                           /\ at[i] = At(DEFAULT, TRUE, TsFields[i])
  BY DcsAre
<1> HIDE DEF fixed, at, v
<1>3. f \in D \cup E
  BY <1>1 DEF v
<1>4. has_alpha \in BOOLEAN
  BY DEF EncInv
<1>5. \A i \in 1 .. 3 : /\ TsFields[i] \in HeaderNames /\ TsFields[i] # "alpha_dc"
                        /\ Has(DEFAULT, has_alpha, TsFields[i])
  <2>1. \A i \in 1 .. 3 : i = 1 \/ i = 2 \/ i = 3
    OBVIOUS
  <2> QED
    BY <2>1 DEF TsFields, HeaderNames, Has
<1>6. \A i \in 1 .. 3 : fixed[i][1] = <<TsFields[i], 1>> /\ fixed[i][2] = HeaderWidth(DEFAULT, TsFields[i])
  BY <1>2
<1>7. CASE f \in D
  <2>1. PICK k \in 1 .. 3 : fixed[k][1] = f
    BY <1>7
  <2>2. PICK i : i = CHOOSE j \in 1 .. 3 : fixed[j][1] = f
    OBVIOUS
  <2>3. i \in 1 .. 3 /\ fixed[i][1] = f
    BY <2>1, <2>2
  <2>4. f = <<TsFields[i], 1>> /\ f[1] # "alpha_dc"
    BY <1>5, <1>6, <2>3
  <2>5. v[f] = readBits(at[i], fixed[i][2])
    BY <1>1, <1>3, <2>2, <2>4
  <2>6. at[i] = At(t, has_alpha, TsFields[i]) /\ fixed[i][2] = HeaderWidth(t, TsFields[i])
    BY <1>2, <1>4, <1>6, <2>3
  <2>7. readBits(At(t, has_alpha, TsFields[i]), HeaderWidth(t, TsFields[i]))
          = Whole(<<TsFields[i], 1>>, WrittenWidth(<<TsFields[i], 1>>))
    BY <1>5, <2>3, HeaderIsStored
  <2> QED
    BY <2>4, <2>5, <2>6, <2>7 DEF v
<1>8. CASE f \in E
  <2>1. has_alpha /\ f = <<"alpha_dc", 1>> /\ f[1] = "alpha_dc"
    BY <1>8
  <2>2. v[f] = readBits(PREFIX_BITS, AlphaFixed[1][2])
    BY <1>1, <1>3, <2>1
  <2>3. PREFIX_BITS = At(DEFAULT, has_alpha, "alpha_dc")
    BY DEF PREFIX_BITS, DESCRIPTOR_BITS, At, prefix_bits, DEFAULT
  <2>4. AlphaFixed[1][2] = HeaderWidth(DEFAULT, "alpha_dc")
    BY DEF AlphaFixed, HeaderWidth, DEFAULT
  <2>5. "alpha_dc" \in HeaderNames /\ Has(t, has_alpha, "alpha_dc")
    BY <2>1 DEF HeaderNames, Has
  <2>6. readBits(At(t, has_alpha, "alpha_dc"), HeaderWidth(t, "alpha_dc"))
          = Whole(<<"alpha_dc", 1>>, WrittenWidth(<<"alpha_dc", 1>>))
    BY <2>5, HeaderIsStored
  <2> QED
    BY <2>1, <2>2, <2>3, <2>4, <2>6 DEF v
<1> QED
  BY <1>3, <1>7, <1>8

\* The last read ends in the last byte.
LEMMA TsReadsToTheEnd ==
  ASSUME NEW q \in 0 .. MAX_TIER, NEW a \in BOOLEAN, DEFAULT \in Tunables
  PROVE  LET r == Reads(q, a)
             n == body_len_bytes(DEFAULT, a, q)
         IN  Bitpos(r)[Len(r)] + r[Len(r)][2] \in 8 * n - 7 .. 8 * n
<1> DEFINE h == ac_shape(DEFAULT, a, q)
           o == Sequential(h)
           n == FieldCount(a)
           r == Reads(q, a)
           at == Bitpos(r)
           e == prefix_bits(DEFAULT) + alpha_prefix(DEFAULT, a) + ac_payload_bits(h)
           y == body_len_bytes(DEFAULT, a, q)
<1>1. ShapeOK(h) /\ IsReads(r, n, h) /\ IsOrder(o, h) /\ CodeCount(h) \in Nat
  BY ReadsAre, ShapeIs, SequentialIsOrder, CountIsNat
<1>2. \A i \in 1 .. CodeCount(h) : at[n + i] = Place(DEFAULT, a, h, o, i - 1)
  BY TsPositions
<1>3. e \in Nat /\ y \in Nat /\ e <= 8 * y /\ 8 * y <= e + 7
  BY LengthHolds
<1>4. n \in Nat
  BY DEF FieldCount
<1>5. CodeCount(h) >= 1
  <2>1. h.l0 >= 1
    <3>1. q \in {0, 1, 2, 3, 4} /\ tier_count_scale(q) \in {1, 4, 16, 64}
      BY ScaleIs DEF MAX_TIER
    <3> DEFINE z == tier_layout(DEFAULT, q)
               s == tier_count_scale(q)
    <3>2. z = LayoutT0 \/ z = LayoutB \/ z = LayoutTC
      <4>1. DEFAULT.layout = LayoutT0 /\ DEFAULT.layout_upper = LayoutB /\ DEFAULT.layout_compact = LayoutTC
        BY DEF DEFAULT
      <4> QED
        BY <4>1 DEF tier_layout
    <3>3. z.l_tiers[1][1] \in {28, 26, 19} /\ z.la_tiers[1][1] \in {22, 12}
      BY <3>2 DEF LayoutT0, LayoutB, LayoutTC
    <3> HIDE DEF z, s
    <3>4. h.l0 = (IF a THEN z.la_tiers ELSE z.l_tiers)[1][1] * s
      BY DEF ac_shape, z, s
    <3>5. \A x \in {28, 26, 19, 22, 12} : \A w \in {1, 4, 16, 64} : x * w >= 1
      OBVIOUS
    <3> QED
      BY <3>1, <3>3, <3>4, <3>5 DEF s
  <2> HIDE DEF h
  <2>2. h.l0 \in Nat /\ h.l1 \in Nat /\ h.c \in Nat /\ h.alpha \in Nat
    BY <1>1 DEF ShapeOK
  <2> QED
    BY <2>1, <2>2 DEF CodeCount, l_count
<1> HIDE DEF h, r, at, n
<1>6. PICK N \in Nat : N = CodeCount(h) /\ N \in 1 .. N /\ N - 1 \in 0 .. N - 1 /\ N - 1 + 1 = N
  BY <1>1, <1>5
<1>7. /\ Place(DEFAULT, a, h, o, N) = e
      /\ Place(DEFAULT, a, h, o, N) = Place(DEFAULT, a, h, o, N - 1) + bits_at(h, o[N])
  <2>1. /\ Place(DEFAULT, a, h, o, CodeCount(h)) = e
        /\ \A k \in 0 .. CodeCount(h) - 1 :
             Place(DEFAULT, a, h, o, k + 1) = Place(DEFAULT, a, h, o, k) + bits_at(h, o[k + 1])
    BY <1>1, Places
  <2>2. Place(DEFAULT, a, h, o, N - 1 + 1)
          = Place(DEFAULT, a, h, o, N - 1) + bits_at(h, o[N - 1 + 1])
    BY <1>6, <2>1
  <2> QED
    BY <1>6, <2>1, <2>2
<1>8. Len(r) = n + N /\ r[n + N] = <<o[N], bits_at(h, o[N])>> /\ at[n + N] = Place(DEFAULT, a, h, o, N - 1)
  BY <1>1, <1>2, <1>6 DEF IsReads
<1>9. r[Len(r)][2] = bits_at(h, o[N])
  BY <1>8
<1>10. at[Len(r)] + r[Len(r)][2] = e
  BY <1>7, <1>8, <1>9
<1> HIDE DEF e, y
<1>11. e \in 8 * y - 7 .. 8 * y
  BY <1>3
<1> QED
  BY <1>10, <1>11 DEF at, r, y

-----------------------------------------------------------------------------
(* The strings it takes.                                                       *)

\* The verdict is the one of the string.
Judged == (rpc = "accepted" => Accepts) /\ (rpc = "rejected" => ~ Accepts)

LEMMA SameVerdict ==
  ASSUME t' = t, len' = len, b0' = b0
  PROVE  Accepts' <=> Accepts
BY DEF Accepts, div_ceil8, prefix_bits, VersionOf, TierOf, AlphaOf, ReservedOf, body_len_bytes,
       ac_payload_bits, ac_shape, tier_layout, tier_count_scale, render_level, alpha_prefix,
       FORMAT_VERSION, MAX_TIER, COMPACT_TIER, DEFAULT_TIER

LEMMA JudgedHolds == Spec => []Judged
<1>1. Init => Judged
  <2> SUFFICES ASSUME Init PROVE Judged
    OBVIOUS
  <2>1. rpc = "idle"
    BY DEF Init
  <2> QED
    BY <2>1 DEF Judged
<1>2. Inv /\ Judged /\ [Next]_vars => Judged'
  <2> SUFFICES ASSUME Inv, Judged, [Next]_vars PROVE Judged'
    OBVIOUS
  <2>1. ASSUME UNCHANGED encoderVars PROVE t' = t /\ len' = len /\ b0' = b0
    BY <2>1 DEF encoderVars
  <2>2. ASSUME rpc' \notin {"accepted", "rejected"} PROVE Judged'
    BY <2>2 DEF Judged
  <2>3. CASE Encoder
    <3>1. rpc' = rpc
      BY <2>3 DEF Encoder, Alloc, PutField, PutCode, Packed, decoderVars
    <3>2. wpc \notin {"packed", "absent"}
      BY <2>3 DEF Encoder, Alloc, PutField, PutCode, Packed, HeaderNames
    <3>3. rpc = "idle"
      BY <3>2 DEF Inv, DecInv
    <3> QED
      BY <2>2, <3>1, <3>3
  <2>4. CASE FromBytes
    <3>1. t' = t /\ len' = len /\ b0' = b0
      BY <2>1, <2>4 DEF FromBytes
    <3>2. rpc' = IF Accepts THEN "accepted" ELSE "rejected"
      BY <2>4 DEF FromBytes
    <3> QED
      BY <3>1, <3>2, SameVerdict DEF Judged
  <2>5. CASE Decoder
    <3>1. rpc' \notin {"accepted", "rejected"}
      <4>1. CASE ReadAspect
        BY <4>1 DEF ReadAspect
      <4>2. CASE ReadField
        <5>1. rpc \in HeaderNames /\ rpc' = AfterRead(rpc)
          BY <4>2 DEF ReadField
        <5>2. rpc # "aspect"
          BY <5>1 DEF Inv, DecInv
        <5> QED
          BY <5>1, <5>2 DEF AfterRead, HeaderNames
      <4>3. CASE ReadCode
        BY <4>3 DEF ReadCode
      <4>4. CASE Rendered
        BY <4>4 DEF Rendered
      <4>5. CASE AverageColor
        BY <4>5 DEF AverageColor
      <4> QED
        BY <2>5, <4>1, <4>2, <4>3, <4>4, <4>5 DEF Decoder
    <3> QED
      BY <2>2, <3>1
  <2>6. CASE UNCHANGED vars
    <3>1. UNCHANGED encoderVars /\ rpc' = rpc
      BY <2>6 DEF vars, decoderVars
    <3> QED
      BY <2>1, <3>1, SameVerdict DEF Judged
  <2> QED
    BY <2>3, <2>4, <2>5, <2>6 DEF Next, Ended
<1> QED
  BY <1>1, <1>2, InvHolds, PTL DEF Spec

\* One length for a tier and a mode.
LEMMA LengthsAgree ==
  ASSUME NEW q \in 0 .. MAX_TIER, NEW a \in BOOLEAN, DEFAULT \in Tunables
  PROVE  bodyLenBytes(q, a) = body_len_bytes(DEFAULT, a, q)
<1> DEFINE h == ac_shape(DEFAULT, a, q)
<1>1. ShapeOK(h) /\ (~ a => h.alpha = 0)
  BY ShapeIs
<1>2. /\ Bands(q, a)[1] = <<h.l0, h.l0_bits>> /\ Bands(q, a)[2] = <<h.l1, h.l1_bits>>
      /\ Chroma(q, a) = <<h.c, h.c_bits>> /\ (a => AlphaAc(q) = <<h.alpha, h.alpha_bits>>)
  BY TableAgrees
<1>3. body_len_bytes(DEFAULT, a, q)
        = div_ceil8(prefix_bits(DEFAULT) + ac_payload_bits(h) + alpha_prefix(DEFAULT, a))
  BY DEF body_len_bytes
<1> HIDE DEF h
<1>4. PICK x \in Nat, y \in Nat, c \in Nat, z \in Nat :
        /\ x = h.l0 * h.l0_bits /\ y = h.l1 * h.l1_bits /\ c = h.c * h.c_bits
        /\ z = h.alpha * h.alpha_bits
  BY <1>1, ProductIsNat DEF ShapeOK
<1>5. /\ Bits(Bands(q, a)[1]) = x /\ Bits(Bands(q, a)[2]) = y /\ Bits(Chroma(q, a)) = c
      /\ a => Bits(AlphaAc(q)) = z
  BY <1>2, <1>4 DEF Bits
<1>6. ~ a => z = 0
  BY <1>1, <1>4 DEF ShapeOK
<1>7. ac_payload_bits(h) = x + y + 2 * c + z
  <2>1. 2 * h.c * h.c_bits = 2 * c
    BY <1>1, <1>4 DEF ShapeOK
  <2> QED
    BY <1>4, <2>1 DEF ac_payload_bits
<1>8. prefix_bits(DEFAULT) = 54 /\ PREFIX_BITS = 54 /\ ALPHA_PREFIX_BITS = 9
      /\ (a => alpha_prefix(DEFAULT, a) = 9) /\ (~ a => alpha_prefix(DEFAULT, a) = 0)
  BY DEF prefix_bits, PREFIX_BITS, DESCRIPTOR_BITS, ALPHA_PREFIX_BITS, alpha_prefix, DEFAULT
<1>9. CASE a
  <2>1. bodyLenBytes(q, a) = (54 + (9 + z) + x + y + 2 * c + 7) \div 8
    BY <1>5, <1>8, <1>9 DEF bodyLenBytes
  <2>2. body_len_bytes(DEFAULT, a, q) = (54 + (x + y + 2 * c + z) + 9 + 7) \div 8
    BY <1>3, <1>7, <1>8, <1>9 DEF div_ceil8
  <2>3. 54 + (9 + z) + x + y + 2 * c + 7 = 54 + (x + y + 2 * c + z) + 9 + 7
    OBVIOUS
  <2> QED
    BY <2>1, <2>2, <2>3
<1>10. CASE ~ a
  <2>1. bodyLenBytes(q, a) = (54 + 0 + x + y + 2 * c + 7) \div 8
    BY <1>5, <1>8, <1>10 DEF bodyLenBytes
  <2>2. body_len_bytes(DEFAULT, a, q) = (54 + (x + y + 2 * c + z) + 0 + 7) \div 8
    BY <1>3, <1>7, <1>8, <1>10 DEF div_ceil8
  <2>3. 54 + 0 + x + y + 2 * c + 7 = 54 + (x + y + 2 * c + z) + 0 + 7
    BY <1>6, <1>10
  <2> QED
    BY <2>1, <2>2, <2>3
<1> QED
  BY <1>9, <1>10

LEMMA VerdictsAgree ==
  ASSUME t = DEFAULT, DEFAULT \in Tunables, len \in Nat, b0 \in 0 .. 255
  PROVE  TsAccepts <=> Accepts
<1> DEFINE q == (b0 \div 8) % 8
           a == (b0 \div 64) % 2 = 1
<1>1. q \in 0 .. 7 /\ a \in BOOLEAN /\ TierOf(b0) = q /\ (AlphaOf(b0) <=> a)
  BY DEF TierOf, AlphaOf
<1>2. AlphaOf(b0) = a
  BY DEF AlphaOf
<1>3. VersionOf(b0) = b0 % 8 /\ ReservedOf(b0) = b0 \div 128
  BY DEF VersionOf, ReservedOf
<1> HIDE DEF q, a
<1>4. /\ TsAccepts <=> /\ len >= 2 /\ b0 % 8 = FORMAT_VERSION /\ q <= MAX_TIER /\ b0 \div 128 = 0
                       /\ len = bodyLenBytes(q, a)
      /\ Accepts <=> /\ len >= div_ceil8(prefix_bits(DEFAULT))
                     /\ b0 % 8 = FORMAT_VERSION /\ q <= MAX_TIER /\ b0 \div 128 = 0
                     /\ len = body_len_bytes(DEFAULT, a, q)
  BY <1>1, <1>2, <1>3 DEF TsAccepts, Accepts, q, a
<1>5. CASE q <= MAX_TIER
  <2>1. q \in 0 .. MAX_TIER
    BY <1>1, <1>5 DEF MAX_TIER
  <2>2. bodyLenBytes(q, a) = body_len_bytes(DEFAULT, a, q)
    BY <1>1, <2>1, LengthsAgree
  <2>3. div_ceil8(prefix_bits(DEFAULT)) <= body_len_bytes(DEFAULT, a, q) /\ body_len_bytes(DEFAULT, a, q) \in Nat
    BY <1>1, <2>1, LengthHolds
  <2>4. div_ceil8(prefix_bits(DEFAULT)) = 7
    BY DEF div_ceil8, prefix_bits, DEFAULT
  <2> QED
    BY <1>4, <2>2, <2>3, <2>4
<1>6. CASE ~ (q <= MAX_TIER)
  BY <1>4, <1>6
<1> QED
  BY <1>5, <1>6

-----------------------------------------------------------------------------
(* The frequencies of its codes.                                               *)

Ordered(C, R) ==
  /\ \A c \in C : <<c, c>> \notin R
  /\ \A c, d, e \in C : <<c, d>> \in R /\ <<d, e>> \in R => <<c, e>> \in R
  /\ \A c, d \in C : c # d => <<c, d>> \in R \/ <<d, c>> \in R

Firsts(C, R, k) == {c \in C : Cardinality({d \in C : <<d, c>> \in R}) < k}

\* Of a finite set in a strict total order, k elements have fewer than k below them.
LEMMA FirstOnes ==
  ASSUME NEW C, IsFiniteSet(C), NEW R, Ordered(C, R), NEW k \in Nat, k <= Cardinality(C)
  PROVE  Cardinality(Firsts(C, R, k)) = k
<1>0. /\ \A c \in C : <<c, c>> \notin R
      /\ \A c, d, e \in C : <<c, d>> \in R /\ <<d, e>> \in R => <<c, e>> \in R
      /\ \A c, d \in C : c # d => <<c, d>> \in R \/ <<d, c>> \in R
  BY DEF Ordered
<1> DEFINE Below(c) == {d \in C : <<d, c>> \in R}
           f == [c \in C |-> Cardinality(Below(c))]
           K == {c \in C : f[c] < k}
<1>1. PICK n \in Nat : n = Cardinality(C)
  BY FS_CardinalityType
<1>2. \A c \in C : IsFiniteSet(Below(c)) /\ Cardinality(Below(c)) \in Nat
  BY FS_Subset, FS_CardinalityType
<1>3. ASSUME NEW c \in C PROVE Cardinality(Below(c)) <= n - 1
  <2>1. Below(c) \in SUBSET (C \ {c})
    BY <1>0
  <2>2. IsFiniteSet(C \ {c}) /\ Cardinality(C \ {c}) = n - 1
    BY <1>1, FS_RemoveElement
  <2> HIDE DEF Below
  <2> QED
    BY <2>1, <2>2, FS_Subset
<1>4. ASSUME NEW c \in C, NEW d \in C, <<d, c>> \in R
      PROVE  Cardinality(Below(d)) < Cardinality(Below(c))
  <2>1. Below(d) \cup {d} \in SUBSET Below(c) /\ d \notin Below(d)
    BY <1>0, <1>4
  <2> HIDE DEF Below
  <2>2. Cardinality(Below(d) \cup {d}) = Cardinality(Below(d)) + 1
    BY <1>2, <2>1, FS_AddElement
  <2>3. Cardinality(Below(d) \cup {d}) <= Cardinality(Below(c))
    BY <1>2, <2>1, FS_Subset
  <2> QED
    BY <1>2, <2>2, <2>3
<1> HIDE DEF Below
<1>5. /\ DOMAIN f = C /\ f = [c \in C |-> f[c]]
      /\ \A c \in C : f[c] = Cardinality(Below(c))
  OBVIOUS
<1> HIDE DEF f
<1>6. \A c \in C : f[c] \in 0 .. n - 1
  <2>1. ASSUME NEW c \in C PROVE f[c] \in 0 .. n - 1
    <3>1. f[c] \in Nat /\ f[c] <= n - 1
      BY <1>2, <1>3, <1>5
    <3> QED
      BY <1>1, <3>1
  <2> QED
    BY <2>1
<1>7. ASSUME NEW c \in C, NEW d \in C, f[c] = f[d] PROVE c = d
  <2>1. ~ (f[c] < f[d]) /\ ~ (f[d] < f[c])
    BY <1>6, <1>7
  <2>2. \A x, y \in C : <<y, x>> \in R => f[y] < f[x]
    BY <1>4, <1>5
  <2>3. <<c, d>> \notin R /\ <<d, c>> \notin R
    BY <2>1, <2>2
  <2> QED
    BY <1>0, <2>3
<1>8. f \in Injection(C, 0 .. n - 1)
  BY <1>5, <1>6, <1>7 DEF Injection, IsInjective
<1>9. \A m \in Nat : IsFiniteSet(0 .. m - 1) /\ Cardinality(0 .. m - 1) = m
  <2> SUFFICES ASSUME NEW m \in Nat PROVE IsFiniteSet(0 .. m - 1) /\ Cardinality(0 .. m - 1) = m
    OBVIOUS
  <2>1. PICK j \in Int : j = m - 1
    OBVIOUS
  <2>2. 0 \in Int /\ IsFiniteSet(0 .. j) /\ Cardinality(0 .. j) = IF 0 > j THEN 0 ELSE j - 0 + 1
    BY FS_Interval
  <2>3. (IF 0 > j THEN 0 ELSE j - 0 + 1) = m
    BY <2>1
  <2> QED
    BY <2>1, <2>2, <2>3
<1>10. f \in Surjection(C, 0 .. n - 1)
  BY <1>1, <1>8, <1>9, FS_Injection
<1>11. \A i \in 0 .. n - 1 : \E c \in C : f[c] = i
  BY <1>10 DEF Surjection
<1>12. IsFiniteSet(K)
  BY FS_Subset
<1> DEFINE g == [c \in K |-> f[c]]
<1>13. g \in Bijection(K, 0 .. k - 1)
  <2>1. ASSUME NEW c \in K PROVE f[c] \in 0 .. k - 1
    BY <1>6
  <2>2. g \in [K -> 0 .. k - 1]
    BY <2>1
  <2>3. \A c, d \in K : g[c] = g[d] => c = d
    BY <1>7
  <2>4. ASSUME NEW i \in 0 .. k - 1 PROVE \E c \in K : g[c] = i
    <3>1. i \in 0 .. n - 1 /\ i < k
      BY <1>1
    <3>2. PICK c \in C : f[c] = i
      BY <1>11, <3>1
    <3>3. c \in K
      BY <3>1, <3>2
    <3> QED
      BY <3>2, <3>3
  <2> HIDE DEF g, K
  <2> QED
    BY <2>2, <2>3, <2>4 DEF Bijection, Injection, IsInjective, Surjection
<1>14. Cardinality(0 .. k - 1) = Cardinality(K)
  <2>1. ExistsBijection(K, 0 .. k - 1)
    BY <1>13 DEF ExistsBijection
  <2> HIDE DEF K, g
  <2> QED
    BY <1>12, <2>1, FS_Bijection
<1>15. K = Firsts(C, R, k)
  BY <1>5 DEF Below, Firsts
<1> QED
  BY <1>9, <1>14, <1>15

LEMMA ProductIsInt == \A x, y \in Int : x * y \in Int
OBVIOUS

\* A raster's edges, and how many frequencies it has.
LEMMA RasterIs ==
  ASSUME NEW p \in Aspects, NEW q \in 0 .. MAX_TIER
  PROVE  LET w == OutputSize(p, q)[1]
             h == OutputSize(p, q)[2]
         IN  w \in Nat \ {0} /\ h \in Nat \ {0} /\ w * h >= 29 * tier_count_scale(q)
<1> DEFINE x == BaseSize[p][1]
           y == BaseSize[p][2]
<1>1. x \in Nat \ {0} /\ y \in Nat \ {0} /\ x * y > 28
  <2>1. BaseSize[p] \in (Nat \ {0}) \X (Nat \ {0})
    BY SelectionAssumption DEF SelectionAssumption
  <2> QED
    BY <2>1, SelectionAssumption DEF SelectionAssumption
<1>2. OutputSize(p, q)[1] = x * 2 ^ renderLevel(q) /\ OutputSize(p, q)[2] = y * 2 ^ renderLevel(q)
  BY DEF OutputSize
<1> HIDE DEF x, y
<1>3. PICK a \in Nat : a = x * y /\ a >= 29
  <2>1. x * y \in Nat
    BY <1>1
  <2>2. x * y >= 29
    BY <1>1, <2>1
  <2> QED
    BY <2>1, <2>2
<1>4. ASSUME NEW g \in Nat \ {0}, NEW s \in Nat, 2 ^ renderLevel(q) = g, tier_count_scale(q) = s, g * g = s
      PROVE  /\ OutputSize(p, q)[1] \in Nat \ {0} /\ OutputSize(p, q)[2] \in Nat \ {0}
             /\ OutputSize(p, q)[1] * OutputSize(p, q)[2] >= 29 * tier_count_scale(q)
  <2>1. (x * g) * (y * g) = (x * y) * (g * g)
    BY <1>1
  <2>2. x * g \in Nat \ {0} /\ y * g \in Nat \ {0}
    BY <1>1
  <2>3. a * s >= 29 * s
    BY <1>3, ProductGrows
  <2>4. (x * g) * (y * g) = a * s
    BY <1>3, <1>4, <2>1
  <2> QED
    BY <1>2, <1>4, <2>2, <2>3, <2>4
<1>5. \/ 2 ^ renderLevel(q) = 1 /\ tier_count_scale(q) = 1
      \/ 2 ^ renderLevel(q) = 2 /\ tier_count_scale(q) = 4
      \/ 2 ^ renderLevel(q) = 4 /\ tier_count_scale(q) = 16
      \/ 2 ^ renderLevel(q) = 8 /\ tier_count_scale(q) = 64
  BY ScaleIs
<1>6. /\ 1 * 1 = 1 /\ 2 * 2 = 4 /\ 4 * 4 = 16 /\ 8 * 8 = 64
      /\ 1 \in Nat \ {0} /\ 2 \in Nat \ {0} /\ 4 \in Nat \ {0} /\ 8 \in Nat \ {0}
      /\ 16 \in Nat /\ 64 \in Nat
  OBVIOUS
<1> QED
  BY <1>4, <1>5, <1>6

LEMMA PowersAre ==
  /\ SEL_Q \in Nat /\ SEL_ONE \in Nat \ {0} /\ 2 ^ SEL_W \in Nat \ {0}
  /\ 2 ^ (4 * SEL_Q - SEL_W) \in Nat \ {0}
<1>1. SEL_Q \in Nat /\ SEL_W \in 0 .. 4 * SEL_Q
  BY SelectionAssumption DEF SelectionAssumption
<1>2. SEL_Q \in 0 .. 4 * SEL_Q /\ 4 * SEL_Q - SEL_W \in 0 .. 4 * SEL_Q
  BY <1>1
<1> QED
  BY <1>1, <1>2, PowersAssumption DEF PowersAssumption, SEL_ONE

LEMMA KeyIsInt ==
  ASSUME NEW px \in Nat, NEW py \in Nat, px # 0 \/ py # 0
  PROVE  SelectionKey(px, py) \in Int
<1> DEFINE sq == px * px
           tq == py * py
           x == Truncated((sq - tq) * SEL_ONE, sq + tq)
           u == (SEL_ONE + ANISO_Q12) * SEL_ONE - ((ANISO_Q12 * x * x) \div SEL_ONE)
           v == SEL_ONE * SEL_ONE + SEL_HV_Q12 * x
           e == 2 ^ (4 * SEL_Q - SEL_W)
<1>1. ANISO_Q12 \in Int /\ SEL_HV_Q12 \in Int
  <2>1. -(2 ^ SEL_Q) .. 2 ^ SEL_Q \subseteq Int
    OBVIOUS
  <2> QED
    BY <2>1, SelectionAssumption DEF SelectionAssumption
<1>2. SEL_ONE \in Nat \ {0} /\ 2 ^ SEL_W \in Int /\ e \in Nat \ {0}
  BY PowersAre
<1>3. sq \in Nat /\ tq \in Nat /\ sq + tq \in Nat \ {0}
  <2>1. sq \in Nat /\ tq \in Nat
    BY ProductIsNat
  <2>2. px # 0 => sq >= 1
    OBVIOUS
  <2>3. py # 0 => tq >= 1
    OBVIOUS
  <2> QED
    BY <2>1, <2>2, <2>3
<1>4. SelectionKey(px, py) = IF ANISO_Q12 = 0 /\ SEL_HV_Q12 = 0 THEN (sq + tq) * 2 ^ SEL_W
                             ELSE (sq + tq) * ((u * v) \div e)
  BY DEF SelectionKey
<1> HIDE DEF sq, tq, e
<1>5. x \in Int
  <2>1. PICK a \in Int : a = (sq - tq) * SEL_ONE
    BY <1>2, <1>3, ProductIsInt
  <2>2. PICK d \in Nat \ {0} : d = sq + tq
    BY <1>3
  <2>3. a \div d \in Int /\ -((-a) \div d) \in Int
    OBVIOUS
  <2> QED
    BY <2>1, <2>2, <2>3 DEF Truncated
<1> HIDE DEF x
<1>6. u \in Int
  <2>1. PICK a \in Int : a = ANISO_Q12 * x * x
    BY <1>1, <1>5, ProductIsInt
  <2>2. PICK b \in Int : b = (SEL_ONE + ANISO_Q12) * SEL_ONE
    BY <1>1, <1>2, ProductIsInt
  <2>3. a \div SEL_ONE \in Int
    BY <1>2
  <2>4. u = b - (a \div SEL_ONE)
    BY <2>1, <2>2
  <2> QED
    BY <2>3, <2>4
<1>7. v \in Int
  BY <1>1, <1>2, <1>5, ProductIsInt
<1> HIDE DEF u, v
<1>8. (u * v) \div e \in Int
  <2>1. PICK a \in Int : a = u * v
    BY <1>6, <1>7, ProductIsInt
  <2> QED
    BY <1>2, <2>1
<1>9. PICK z \in Int : z = (u * v) \div e
  BY <1>8
<1>10. (sq + tq) * 2 ^ SEL_W \in Int /\ (sq + tq) * z \in Int
  <2>1. sq + tq \in Int
    BY <1>3
  <2>2. PICK n \in Int, m \in Int : n = sq + tq /\ m = 2 ^ SEL_W
    BY <1>2, <2>1
  <2> QED
    BY <2>2, ProductIsInt
<1> QED
  BY <1>4, <1>9, <1>10

LEMMA CandidatesAre ==
  ASSUME NEW p \in Aspects, NEW q \in 0 .. MAX_TIER
  PROVE  LET w == OutputSize(p, q)[1]
             h == OutputSize(p, q)[2]
         IN  /\ IsFiniteSet(Candidates(p, q)) /\ Cardinality(Candidates(p, q)) = w * h - 1
             /\ \A c \in Candidates(p, q) :
                  /\ c[1] \in Int /\ c[2] \in 0 .. w - 1 /\ c[3] \in 0 .. h - 1
                  /\ c = <<c[1], c[2], c[3]>> /\ c[1] = SelectionKey(c[2] * h, c[3] * w)
<1> DEFINE w == OutputSize(p, q)[1]
           h == OutputSize(p, q)[2]
           E == (0 .. w - 1) \X (0 .. h - 1)
           D == E \ {<<0, 0>>}
           C == Candidates(p, q)
           f == [c \in D |-> <<SelectionKey(c[1] * h, c[2] * w), c[1], c[2]>>]
<1>1. w \in Nat \ {0} /\ h \in Nat \ {0}
  BY RasterIs
<1>2. C = {<<SelectionKey(c[1] * h, c[2] * w), c[1], c[2]>> : c \in D}
  BY DEF Candidates
<1> HIDE DEF w, h, C
<1>3. \A c \in D : c[1] \in 0 .. w - 1 /\ c[2] \in 0 .. h - 1 /\ (c[1] # 0 \/ c[2] # 0) /\ c = <<c[1], c[2]>>
  OBVIOUS
<1>4. ASSUME NEW c \in D PROVE SelectionKey(c[1] * h, c[2] * w) \in Int
  <2>1. PICK x \in Nat, y \in Nat : x = c[1] /\ y = c[2] /\ (x # 0 \/ y # 0)
    BY <1>3
  <2>2. x * h \in Nat /\ y * w \in Nat /\ (x * h # 0 \/ y * w # 0)
    BY <1>1, <2>1
  <2> QED
    BY <2>1, <2>2, KeyIsInt
<1>5. \A m \in Nat \ {0} : IsFiniteSet(0 .. m - 1) /\ Cardinality(0 .. m - 1) = m
  <2> SUFFICES ASSUME NEW m \in Nat \ {0} PROVE IsFiniteSet(0 .. m - 1) /\ Cardinality(0 .. m - 1) = m
    OBVIOUS
  <2>1. PICK j \in Int : j = m - 1
    OBVIOUS
  <2>2. 0 \in Int /\ IsFiniteSet(0 .. j) /\ Cardinality(0 .. j) = IF 0 > j THEN 0 ELSE j - 0 + 1
    BY FS_Interval
  <2>3. (IF 0 > j THEN 0 ELSE j - 0 + 1) = m
    BY <2>1
  <2> QED
    BY <2>1, <2>2, <2>3
<1>6. IsFiniteSet(E) /\ Cardinality(E) = w * h
  <2>1. PICK X, Y : X = 0 .. w - 1 /\ Y = 0 .. h - 1
    OBVIOUS
  <2>2. IsFiniteSet(X) /\ Cardinality(X) = w /\ IsFiniteSet(Y) /\ Cardinality(Y) = h
    BY <1>1, <1>5, <2>1
  <2>3. IsFiniteSet(X \X Y) /\ Cardinality(X \X Y) = Cardinality(X) * Cardinality(Y)
    BY <2>2, FS_Product
  <2> QED
    BY <2>1, <2>2, <2>3
<1>7. <<0, 0>> \in E
  BY <1>1
<1> HIDE DEF E
<1>8. IsFiniteSet(D) /\ Cardinality(D) = w * h - 1
  BY <1>6, <1>7, FS_RemoveElement
<1> HIDE DEF D
<1>9. f \in Bijection(D, C)
  <2>1. /\ DOMAIN f = D /\ f = [c \in D |-> f[c]]
        /\ \A c \in D : f[c] = <<SelectionKey(c[1] * h, c[2] * w), c[1], c[2]>>
    OBVIOUS
  <2> HIDE DEF f
  <2>2. \A c \in D : f[c] \in C
    BY <1>2, <2>1
  <2>3. ASSUME NEW c \in D, NEW d \in D, f[c] = f[d] PROVE c = d
    <3>1. f[c][2] = c[1] /\ f[c][3] = c[2] /\ f[d][2] = d[1] /\ f[d][3] = d[2]
      BY <2>1
    <3>2. c[1] = d[1] /\ c[2] = d[2]
      BY <2>3, <3>1
    <3> QED
      BY <1>3, <3>2
  <2>4. \A e \in C : \E c \in D : f[c] = e
    BY <1>2, <2>1
  <2> QED
    BY <2>1, <2>2, <2>3, <2>4 DEF Bijection, Injection, IsInjective, Surjection
<1>10. IsFiniteSet(C) /\ Cardinality(C) = Cardinality(D)
  <2>1. ExistsBijection(D, C)
    BY <1>9 DEF ExistsBijection
  <2> HIDE DEF f
  <2> QED
    BY <1>8, <2>1, FS_Bijection
<1>11. ASSUME NEW c \in C
       PROVE  /\ c[1] \in Int /\ c[2] \in 0 .. w - 1 /\ c[3] \in 0 .. h - 1
              /\ c = <<c[1], c[2], c[3]>> /\ c[1] = SelectionKey(c[2] * h, c[3] * w)
  <2>1. PICK d \in D : c = <<SelectionKey(d[1] * h, d[2] * w), d[1], d[2]>>
    BY <1>2
  <2>2. c[1] = SelectionKey(d[1] * h, d[2] * w) /\ c[2] = d[1] /\ c[3] = d[2]
    BY <2>1
  <2>3. c = <<c[1], c[2], c[3]>>
    BY <2>1, <2>2
  <2> QED
    BY <1>3, <1>4, <2>2, <2>3
<1> QED
  BY <1>8, <1>10, <1>11 DEF C, w, h

\* Ties are broken, so that every frequency has a rank of its own.
LEMMA AllPlaced ==
  ASSUME NEW p \in Aspects, NEW q \in 0 .. MAX_TIER, NEW k \in Nat,
         k <= 28 * tier_count_scale(q)
  PROVE  Placed(p, q, k) = k
<1> DEFINE w == OutputSize(p, q)[1]
           h == OutputSize(p, q)[2]
           C == Candidates(p, q)
           R == {e \in C \X C : Before(e[1], e[2])}
           S == SelectCoefficients(p, q, k)
<1>1. w \in Nat \ {0} /\ h \in Nat \ {0} /\ w * h >= 29 * tier_count_scale(q)
  BY RasterIs
<1>2. /\ IsFiniteSet(C) /\ Cardinality(C) = w * h - 1
      /\ \A c \in C : /\ c[1] \in Int /\ c[2] \in 0 .. w - 1 /\ c[3] \in 0 .. h - 1
                      /\ c = <<c[1], c[2], c[3]>> /\ c[1] = SelectionKey(c[2] * h, c[3] * w)
  BY CandidatesAre
<1>3. Placed(p, q, k) = Cardinality(Shown(S, w, h))
  BY DEF Placed
<1>4. S = {c \in C : Cardinality({d \in C : Before(d, c)}) < k}
  BY DEF SelectCoefficients
<1> HIDE DEF w, h, C, S
<1>5. k <= Cardinality(C)
  <2>1. PICK s \in Nat : s = tier_count_scale(q) /\ s >= 1
    BY ScaleIs
  <2>2. PICK a \in Nat : a = w * h
    BY <1>1, ProductIsNat
  <2> QED
    BY <1>1, <1>2, <2>1, <2>2
<1>6. \A c \in C : c[1] \in Int /\ c[2] \in Int /\ c[3] \in Int
  BY <1>2
<1>7. \A c, d \in C : <<c, d>> \in R <=> Before(c, d)
  OBVIOUS
<1>8. ASSUME NEW c \in C PROVE ~ Before(c, c)
  BY <1>6 DEF Before
<1>9. ASSUME NEW c \in C, NEW d \in C, NEW e \in C, Before(c, d), Before(d, e) PROVE Before(c, e)
  <2>1. /\ c[1] \in Int /\ c[2] \in Int /\ c[3] \in Int /\ d[1] \in Int /\ d[2] \in Int /\ d[3] \in Int
        /\ e[1] \in Int /\ e[2] \in Int /\ e[3] \in Int
    BY <1>6
  <2> QED
    BY <1>9, <2>1 DEF Before
<1>10. ASSUME NEW c \in C, NEW d \in C, c # d PROVE Before(c, d) \/ Before(d, c)
  <2>1. c[1] # d[1] \/ c[2] # d[2] \/ c[3] # d[3]
    BY <1>2, <1>10
  <2>2. /\ c[1] \in Int /\ c[2] \in Int /\ c[3] \in Int /\ d[1] \in Int /\ d[2] \in Int /\ d[3] \in Int
    BY <1>6
  <2> QED
    BY <2>1, <2>2 DEF Before
<1> HIDE DEF R
<1>11. Cardinality(Firsts(C, R, k)) = k
  <2>1. \A c \in C : <<c, c>> \notin R
    BY <1>7, <1>8
  <2>2. \A c, d, e \in C : <<c, d>> \in R /\ <<d, e>> \in R => <<c, e>> \in R
    BY <1>7, <1>9
  <2>3. \A c, d \in C : c # d => <<c, d>> \in R \/ <<d, c>> \in R
    BY <1>7, <1>10
  <2>4. Ordered(C, R)
    BY <2>1, <2>2, <2>3 DEF Ordered
  <2>5. IsFiniteSet(C)
    BY <1>2
  <2> QED
    BY <1>5, <2>4, <2>5, FirstOnes
<1>12. \A c \in C : {d \in C : <<d, c>> \in R} = {d \in C : Before(d, c)}
  BY <1>7
<1>13. S = Firsts(C, R, k)
  BY <1>4, <1>12 DEF Firsts
<1>14. Shown(S, w, h) = S
  <2>1. ASSUME NEW c \in S PROVE c[2] < w /\ c[3] < h
    <3>1. c \in C
      BY <1>4
    <3> QED
      BY <1>1, <1>2, <3>1
  <2> QED
    BY <2>1 DEF Shown
<1> QED
  BY <1>3, <1>11, <1>13, <1>14

-----------------------------------------------------------------------------
(* The two decoders                                                            *)

\* A channel has no more codes than the smallest raster has frequencies.
LEMMA CountsFit ==
  ASSUME NEW q \in 0 .. MAX_TIER, NEW a \in BOOLEAN, DEFAULT \in Tunables
  PROVE  \A k \in {Bands(q, a)[1][1] + Bands(q, a)[2][1], Chroma(q, a)[1],
                   IF a THEN AlphaAc(q)[1] ELSE 0} :
           k \in Nat /\ k <= 28 * tier_count_scale(q)
<1> DEFINE h == ac_shape(DEFAULT, a, q)
           z == tier_layout(DEFAULT, q)
           y == IF a THEN z.la_tiers ELSE z.l_tiers
<1>1. PICK s \in Nat : s = tier_count_scale(q)
  BY ScaleIs
<1>2. z = LayoutT0 \/ z = LayoutB \/ z = LayoutTC
  <2>1. DEFAULT.layout = LayoutT0 /\ DEFAULT.layout_upper = LayoutB /\ DEFAULT.layout_compact = LayoutTC
    BY DEF DEFAULT
  <2> QED
    BY <2>1 DEF tier_layout
<1>3. /\ y[1][1] \in {28, 26, 22, 19, 12} /\ y[2][1] = 0
      /\ (IF a THEN z.ca_count ELSE z.c_count) \in {15, 9, 6, 3, 1} /\ z.a_count \in {28, 16}
  BY <1>2 DEF LayoutT0, LayoutB, LayoutTC
<1>4. /\ h.l0 = y[1][1] * s /\ h.l1 = y[2][1] * s
      /\ h.c = (IF a THEN z.ca_count ELSE z.c_count) * s
      /\ a => h.alpha = z.a_count * s
  BY <1>1 DEF ac_shape
<1>5. /\ Bands(q, a)[1][1] = h.l0 /\ Bands(q, a)[2][1] = h.l1 /\ Chroma(q, a)[1] = h.c
      /\ a => AlphaAc(q)[1] = h.alpha
  <2>1. /\ Bands(q, a)[1] = <<h.l0, h.l0_bits>> /\ Bands(q, a)[2] = <<h.l1, h.l1_bits>>
        /\ Chroma(q, a) = <<h.c, h.c_bits>> /\ (a => AlphaAc(q) = <<h.alpha, h.alpha_bits>>)
    BY TableAgrees
  <2> HIDE DEF h
  <2> QED
    BY <2>1
<1> HIDE DEF h, y, z
<1>6. \A n \in {28, 26, 22, 19, 16, 15, 12, 9, 6, 3, 1, 0} : n * s \in Nat /\ n * s <= 28 * s
  OBVIOUS
<1>7. /\ h.l0 \in Nat /\ h.l0 <= 28 * s /\ h.l1 = 0 /\ h.c \in Nat /\ h.c <= 28 * s
      /\ a => h.alpha \in Nat /\ h.alpha <= 28 * s
  <2>1. PICK n, c, m : /\ n = y[1][1] /\ c = (IF a THEN z.ca_count ELSE z.c_count) /\ m = z.a_count
                       /\ n \in {28, 26, 22, 19, 12} /\ c \in {15, 9, 6, 3, 1} /\ m \in {28, 16}
    BY <1>3
  <2>2. h.l0 = n * s /\ h.l1 = 0 * s /\ h.c = c * s /\ (a => h.alpha = m * s)
    BY <1>3, <1>4, <2>1
  <2> QED
    BY <1>6, <2>1, <2>2
<1>8. 0 \in Nat /\ 0 <= 28 * s
  OBVIOUS
<1>9. /\ Bands(q, a)[1][1] + Bands(q, a)[2][1] = h.l0
      /\ (IF a THEN AlphaAc(q)[1] ELSE 0) = IF a THEN h.alpha ELSE 0
  BY <1>5, <1>7
<1> QED
  BY <1>1, <1>5, <1>7, <1>8, <1>9

\* What is read of a string from_bytes has taken or refused is a whole string.
LEMMA ByteZeroIs ==
  ASSUME Inv, rpc \in {"accepted", "rejected"}
  PROVE  len \in Nat /\ b0 \in 0 .. 255
<1>1. wpc \in {"packed", "absent"}
  BY DEF Inv, DecInv
<1>2. CASE wpc = "absent"
  BY <1>2 DEF Inv, EncInv
<1>3. CASE wpc = "packed"
  <2>1. b0 = Descriptor /\ tier \in 0 .. MAX_TIER /\ len \in Nat
    BY <1>3 DEF Inv, EncInv, Allocated
  <2>2. tier \in 0 .. 4
    BY <2>1 DEF MAX_TIER
  <2> QED
    BY <2>1, <2>2 DEF Descriptor, FORMAT_VERSION
<1> QED
  BY <1>1, <1>2, <1>3

\* TsAgrees: TypeScript's decoder, with its own table, byte count and selection,
\* takes the strings that from_bytes takes, reads each field of a packed one whole
\* and to the last byte, and finds a frequency for every code (header.ts,
\* decode.ts against lib.rs, decode.rs and encode.rs).
THEOREM TsDecodesAlike == Spec => []TsAgrees
<1>1. Inv /\ Judged => TsAgrees
  <2> SUFFICES ASSUME Inv, Judged, rpc \in {"accepted", "rejected"}, t = DEFAULT PROVE TsAgrees
    BY DEF TsAgrees
  <2>1. /\ DEFAULT \in Tunables /\ aspect \in Aspects
        /\ rtier \in 0 .. MAX_TIER /\ ralpha \in BOOLEAN
    BY DEF Inv, EncInv, DecInv
  <2>2. TsAccepts <=> rpc = "accepted"
    <3>1. TsAccepts <=> Accepts
      BY <2>1, ByteZeroIs, VerdictsAgree
    <3> QED
      BY <3>1 DEF Judged
  <2>3. ASSUME rpc = "accepted"
        PROVE  LET reads == Reads(rtier, ralpha)
               IN  Bitpos(reads)[Len(reads)] + reads[Len(reads)][2] \in 8 * len - 7 .. 8 * len
    <3>1. len = body_len_bytes(DEFAULT, ralpha, rtier)
      BY <2>3 DEF Inv, DecInv
    <3> QED
      BY <2>1, <3>1, TsReadsToTheEnd
  <2>4. \A k \in {Bands(rtier, ralpha)[1][1] + Bands(rtier, ralpha)[2][1], Chroma(rtier, ralpha)[1],
                  IF ralpha THEN AlphaAc(rtier)[1] ELSE 0} :
          Placed(aspect, rtier, k) = k
    BY <2>1, CountsFit, AllPlaced
  <2>5. wpc = "packed" =>
          /\ TsRendered(tier, has_alpha) =
               [f \in (DOMAIN TsRendered(tier, has_alpha)) |-> Whole(f, WrittenWidth(f))]
          /\ Codes(Shape) \subseteq DOMAIN TsRendered(tier, has_alpha)
          /\ \A f \in DOMAIN TsAveraged(has_alpha) :
               TsAveraged(has_alpha)[f] = Whole(f, WrittenWidth(f))
    BY TsRendersAll, TsAveragesWhole DEF Inv
  <2> QED
    BY <2>2, <2>3, <2>4, <2>5 DEF TsAgrees
<1> QED
  BY <1>1, InvHolds, JudgedHolds, PTL
=============================================================================
