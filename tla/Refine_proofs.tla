---------------------------- MODULE Refine_proofs ----------------------------
(***************************************************************************)
(* What holds of quantisation and refinement for every image, grid, basis  *)
(* and table of levels: the search scores what a decoder shows, its early  *)
(* exit decides nothing, and it stops where no single code can be better.  *)
(***************************************************************************)
EXTENDS Refine, SequenceTheorems, WellFoundedInduction, TLAPS

-----------------------------------------------------------------------------
(* Sums. What a recursive function computes is proved by the least number for  *)
(* which it would not.                                                         *)

LEMMA LeastNumber ==
  ASSUME NEW T \in SUBSET Nat, T # {}
  PROVE  \E n \in T : \A m \in T : n <= m
<1> DEFINE R == {p \in Nat \X Nat : p[1] < p[2]}
<1>1. OpToRel(<, Nat) = R
  BY DEF OpToRel
<1>2. IsWellFoundedOn(R, Nat)
  BY <1>1, NatLessThanWellFounded
<1>3. PICK n \in T : \A m \in T : ~ (<<m, n>> \in R)
  BY <1>2, WFMin
<1>4. \A m \in T : ~ (m < n)
  BY <1>3
<1> QED
  BY <1>4

\* s has the sums of the first elements of f.
Partial(s, f, n) ==
  /\ s \in [0 .. n -> Int] /\ s[0] = 0
  /\ \A k \in 1 .. n : s[k] = s[k - 1] + f[k]

LEMMA PartialExists ==
  ASSUME NEW n \in Nat, NEW f \in [1 .. n -> Int]
  PROVE  \E s : Partial(s, f, n)
<1> DEFINE T == {k \in 0 .. n : ~ \E s : Partial(s, f, k)}
<1>1. SUFFICES ASSUME T # {} PROVE FALSE
  <2>1. n \in 0 .. n
    OBVIOUS
  <2> QED
    BY <2>1
<1>2. PICK m \in T : \A k \in T : m <= k
  BY <1>1, LeastNumber, T \in SUBSET Nat
<1>3. CASE m = 0
  <2>1. Partial([k \in 0 .. 0 |-> 0], f, 0)
    BY DEF Partial
  <2> QED
    BY <1>2, <1>3, <2>1
<1>4. CASE m # 0
  <2>1. m - 1 \in 0 .. n /\ m - 1 \notin T
    BY <1>2, <1>4
  <2>2. PICK s : Partial(s, f, m - 1)
    BY <2>1
  <2> DEFINE t == [k \in 0 .. m |-> IF k < m THEN s[k] ELSE s[m - 1] + f[m]]
  <2>3. m \in 1 .. n /\ m - 1 \in 0 .. m - 1
    BY <1>4
  <2>4. f[m] \in Int /\ s[m - 1] \in Int
    BY <2>2, <2>3 DEF Partial
  <2>5. t \in [0 .. m -> Int] /\ t[0] = 0
    BY <2>2, <2>3, <2>4 DEF Partial
  <2>6. \A k \in 1 .. m : t[k] = t[k - 1] + f[k]
    BY <2>2, <2>3, <2>4 DEF Partial
  <2>7. Partial(t, f, m)
    BY <2>5, <2>6 DEF Partial
  <2> QED
    BY <1>2, <2>7
<1> QED
  BY <1>3, <1>4

\* Total is what any such function ends with.
LEMMA TotalIs ==
  ASSUME NEW n \in Nat, NEW f \in [1 .. n -> Int], NEW s, Partial(s, f, n)
  PROVE  Total(f, n) = s[n]
<1> DEFINE Sums(t) == t = [k \in 0 .. n |-> IF k = 0 THEN 0 ELSE t[k - 1] + f[k]]
           u == CHOOSE t : Sums(t)
<1>1. Total(f, n) = u[n]
  BY DEF Total
<1>2. Sums(s)
  BY DEF Partial
<1>3. Sums(u)
  BY <1>2
<1>4. \A k \in 0 .. n : u[k] = IF k = 0 THEN 0 ELSE u[k - 1] + f[k]
  BY <1>3
<1> HIDE DEF u, Sums
<1> DEFINE T == {k \in 0 .. n : u[k] # s[k]}
<1>5. T = {}
  <2>1. SUFFICES ASSUME T # {} PROVE FALSE
    OBVIOUS
  <2>2. PICK m \in T : \A k \in T : m <= k
    BY <2>1, LeastNumber, T \in SUBSET Nat
  <2>3. m # 0
    BY <1>4 DEF Partial
  <2>4. m - 1 \in 0 .. n /\ m - 1 \notin T /\ m \in 1 .. n
    BY <2>2, <2>3
  <2>5. u[m] = u[m - 1] + f[m] /\ s[m] = s[m - 1] + f[m]
    BY <1>4, <2>3, <2>4 DEF Partial
  <2> QED
    BY <2>4, <2>5
<1> QED
  BY <1>1, <1>5

LEMMA TotalType ==
  ASSUME NEW n \in Nat, NEW f \in [1 .. n -> Int]
  PROVE  Total(f, n) \in Int
<1>1. PICK s : Partial(s, f, n)
  BY PartialExists
<1>2. s[n] \in Int
  BY <1>1 DEF Partial
<1> QED
  BY <1>1, <1>2, TotalIs

\* One element changed.
LEMMA TotalOfChanged ==
  ASSUME NEW n \in Nat, NEW f \in [1 .. n -> Int], NEW g \in [1 .. n -> Int], NEW i \in 1 .. n,
         \A j \in 1 .. n : j # i => g[j] = f[j]
  PROVE  Total(g, n) = Total(f, n) + (g[i] - f[i])
<1>1. PICK s : Partial(s, f, n)
  BY PartialExists
<1> DEFINE d == g[i] - f[i]
           t == [k \in 0 .. n |-> IF k < i THEN s[k] ELSE s[k] + d]
<1>2. d \in Int /\ \A k \in 0 .. n : s[k] \in Int
  BY <1>1 DEF Partial
<1>3. t \in [0 .. n -> Int] /\ t[0] = 0
  BY <1>1, <1>2 DEF Partial
<1>4. ASSUME NEW k \in 1 .. n PROVE t[k] = t[k - 1] + g[k]
  <2>1. s[k] = s[k - 1] + f[k] /\ k - 1 \in 0 .. n /\ f[k] \in Int /\ g[k] \in Int
        /\ s[k - 1] \in Int
    BY <1>1, <1>2 DEF Partial
  <2> QED
    BY <1>2, <2>1
<1>5. Partial(t, g, n)
  BY <1>3, <1>4 DEF Partial
<1>6. t[n] = s[n] + d
  BY <1>2
<1> QED
  BY <1>1, <1>5, <1>6, TotalIs

\* More elements that are not negative.
LEMMA TotalOfMore ==
  ASSUME NEW n \in Nat, NEW f \in [1 .. n -> Nat], NEW m \in 0 .. n, NEW g \in [1 .. m -> Nat],
         \A j \in 1 .. m : g[j] = f[j]
  PROVE  /\ Total(g, m) \in Nat /\ Total(f, n) \in Nat
         /\ Total(g, m) <= Total(f, n)
<1>1. PICK s : Partial(s, f, n)
  BY PartialExists
<1> DEFINE t == [k \in 0 .. m |-> s[k]]
<1>2. Partial(t, g, m)
  BY <1>1 DEF Partial
<1>3. \A j, k \in 0 .. n : j <= k => s[j] <= s[k]
  <2> SUFFICES ASSUME NEW j \in 0 .. n PROVE \A k \in 0 .. n : j <= k => s[j] <= s[k]
    OBVIOUS
  <2> DEFINE T == {k \in 0 .. n : j <= k /\ ~ (s[j] <= s[k])}
  <2>1. SUFFICES ASSUME T # {} PROVE FALSE
    OBVIOUS
  <2>2. PICK l \in T : \A k \in T : l <= k
    BY <2>1, LeastNumber, T \in SUBSET Nat
  <2>3. s[j] \in Int /\ s[l] \in Int
    BY <1>1, <2>2 DEF Partial
  <2>4. l # j /\ l - 1 \in 0 .. n /\ l \in 1 .. n /\ j <= l - 1
    BY <2>2, <2>3
  <2>5. l - 1 \notin T /\ s[l - 1] \in Int
    BY <1>1, <2>2, <2>4 DEF Partial
  <2>6. s[j] <= s[l - 1]
    BY <2>4, <2>5
  <2>7. s[l] = s[l - 1] + f[l] /\ f[l] \in Nat
    BY <1>1, <2>4 DEF Partial
  <2> QED
    BY <2>2, <2>3, <2>5, <2>6, <2>7
<1>4. s[0] = 0 /\ s[0] <= s[m] /\ s[m] <= s[n] /\ s[m] \in Int /\ s[n] \in Int
  BY <1>1, <1>3 DEF Partial
<1>5. Total(g, m) = s[m] /\ Total(f, n) = s[n]
  BY <1>1, <1>2, TotalIs
<1> QED
  BY <1>4, <1>5

LEMMA TotalIsNat ==
  ASSUME NEW n \in Nat, NEW f \in [1 .. n -> Nat]
  PROVE  Total(f, n) \in Nat
BY TotalOfMore, n \in 0 .. n

\* What a function on 0 .. n defined from the value before is, in any set that
\* its steps stay in.
Steps(F, n, S) == F \in [(1 .. n) \X S -> S]

Follows(s, F, n, S, z) ==
  /\ s \in [0 .. n -> S] /\ s[0] = z
  /\ \A k \in 1 .. n : s[k] = F[<<k, s[k - 1]>>]

LEMMA Recursion ==
  ASSUME NEW n \in Nat, NEW S, NEW z \in S, NEW F, Steps(F, n, S)
  PROVE  \E s : Follows(s, F, n, S, z)
<1> USE DEF Steps
<1> DEFINE Found(s, m) == s[0] = z /\ \A k \in 1 .. m : s[k] = F[<<k, s[k - 1]>>]
           T == {m \in 0 .. n : ~ \E s \in [0 .. m -> S] : Found(s, m)}
<1>1. SUFFICES ASSUME T # {} PROVE FALSE
  <2>1. n \in 0 .. n
    OBVIOUS
  <2> QED
    BY <2>1 DEF Follows
<1>2. PICK m \in T : \A k \in T : m <= k
  BY <1>1, LeastNumber, T \in SUBSET Nat
<1>3. m # 0
  <2>1. Found([k \in 0 .. 0 |-> z], 0)
    OBVIOUS
  <2>2. [k \in 0 .. 0 |-> z] \in [0 .. 0 -> S]
    OBVIOUS
  <2> QED
    BY <2>1, <2>2
<1>4. m \in 1 .. n /\ m - 1 \in 0 .. n /\ ~ (m <= m - 1)
  BY <1>3
<1>5. PICK s \in [0 .. m - 1 -> S] : Found(s, m - 1)
  BY <1>2, <1>4
<1> DEFINE last == F[<<m, s[m - 1]>>]
           t == [k \in 0 .. m |-> IF k < m THEN s[k] ELSE last]
<1>6. s[m - 1] \in S
  BY <1>4
<1>7. last \in S
  BY <1>4, <1>6
<1>8. \A k \in 0 .. m : k < m => k \in 0 .. m - 1
  BY <1>4
<1>9. t \in [0 .. m -> S]
  BY <1>7, <1>8
<1>10. ASSUME NEW k \in 1 .. m PROVE t[k] = F[<<k, t[k - 1]>>]
  <2>1. k \in 0 .. m /\ k - 1 \in 0 .. m /\ k - 1 < m
    BY <1>4
  <2>2. t[k - 1] = s[k - 1]
    BY <2>1
  <2>3. CASE k = m
    BY <2>1, <2>2, <2>3
  <2>4. CASE k # m
    <3>1. k < m /\ k \in 1 .. m - 1
      BY <1>4, <2>4
    <3> QED
      BY <1>5, <2>1, <2>2, <3>1
  <2> QED
    BY <2>3, <2>4
<1>11. t[0] = z
  BY <1>4, <1>5
<1> QED
  BY <1>2, <1>9, <1>10, <1>11

-----------------------------------------------------------------------------
(* Codes that quantisation chooses: the CHOOSEs of the model have a witness.   *)

LEMMA FirstLeast ==
  ASSUME NEW S \in SUBSET Nat, S # {}, NEW e \in [S -> Nat]
  PROVE  \E q \in S : \A r \in S : e[q] < e[r] \/ (e[q] = e[r] /\ q <= r)
<1> DEFINE V == {e[q] : q \in S}
<1>1. V \in SUBSET Nat /\ V # {}
  OBVIOUS
<1>2. PICK v \in V : \A w \in V : v <= w
  BY <1>1, LeastNumber
<1> DEFINE Q == {q \in S : e[q] = v}
<1>3. Q \in SUBSET Nat /\ Q # {}
  OBVIOUS
<1>4. PICK q \in Q : \A r \in Q : q <= r
  BY <1>3, LeastNumber
<1>5. ASSUME NEW r \in S PROVE e[q] < e[r] \/ (e[q] = e[r] /\ q <= r)
  <2>1. e[r] \in Nat /\ v \in Nat /\ v <= e[r] /\ e[q] = v
    BY <1>1, <1>2, <1>4
  <2> QED
    BY <2>1, <1>4
<1> QED
  BY <1>4, <1>5

LEMMA LastLeast ==
  ASSUME NEW n \in Nat, NEW e \in [0 .. n -> Nat]
  PROVE  \E q \in 0 .. n : \A r \in 0 .. n : e[q] < e[r] \/ (e[q] = e[r] /\ q >= r)
<1> DEFINE d == [q \in 0 .. n |-> e[n - q]]
<1>1. d \in [0 .. n -> Nat] /\ 0 .. n \in SUBSET Nat /\ 0 .. n # {}
  <2>1. \A q \in 0 .. n : n - q \in 0 .. n
    OBVIOUS
  <2>2. \A q \in 0 .. n : e[n - q] \in Nat
    BY <2>1
  <2>3. d \in [0 .. n -> Nat]
    BY <2>2
  <2>4. 0 .. n \in SUBSET Nat
    OBVIOUS
  <2>5. 0 \in 0 .. n
    OBVIOUS
  <2>6. 0 .. n # {}
    BY <2>5
  <2> QED
    BY <2>3, <2>4, <2>6
<1>2. PICK q \in 0 .. n : \A r \in 0 .. n : d[q] < d[r] \/ (d[q] = d[r] /\ q <= r)
  BY <1>1, FirstLeast
<1>3. ASSUME NEW r \in 0 .. n PROVE e[n - q] < e[r] \/ (e[n - q] = e[r] /\ n - q >= r)
  <2>1. n - r \in 0 .. n /\ n - (n - r) = r
    OBVIOUS
  <2>2. d[n - r] = e[r] /\ d[q] = e[n - q]
    BY <2>1
  <2> HIDE DEF d
  <2>3. d[q] < d[n - r] \/ (d[q] = d[n - r] /\ q <= n - r)
    BY <1>2, <2>1
  <2>4. e[n - q] < e[r] \/ (e[n - q] = e[r] /\ q <= n - r)
    BY <2>2, <2>3
  <2>5. q <= n - r => n - q >= r
    OBVIOUS
  <2> QED
    BY <2>4, <2>5
<1> QED
  BY <1>3, n - q \in 0 .. n

LEMMA Bounded ==
  ASSUME NEW n \in Nat, NEW f \in [1 .. n -> Nat]
  PROVE  \E b \in Nat : \A i \in 1 .. n : f[i] <= b
<1> DEFINE T == {k \in 0 .. n : ~ \E b \in Nat : \A i \in 1 .. k : f[i] <= b}
<1>1. SUFFICES ASSUME T # {} PROVE FALSE
  <2>1. n \in 0 .. n
    OBVIOUS
  <2> QED
    BY <2>1
<1>2. PICK m \in T : \A k \in T : m <= k
  BY <1>1, LeastNumber, T \in SUBSET Nat
<1>3. m # 0
  OBVIOUS
<1>4. m - 1 \in 0 .. n /\ m - 1 \notin T /\ m \in 1 .. n
  <2>1. m \in 0 .. n
    OBVIOUS
  <2>2. m \in 1 .. n /\ m - 1 \in 0 .. n /\ ~ (m <= m - 1)
    BY <1>3, <2>1
  <2> HIDE DEF T
  <2> QED
    BY <1>2, <2>2
<1>5. PICK b \in Nat : \A i \in 1 .. m - 1 : f[i] <= b
  BY <1>4
<1>6. f[m] \in Nat /\ \A i \in 1 .. m : f[i] <= b + f[m]
  <2>1. f[m] \in Nat
    BY <1>4
  <2>2. ASSUME NEW i \in 1 .. m PROVE f[i] <= b + f[m]
    <3>1. f[i] \in Nat /\ (i = m \/ i \in 1 .. m - 1)
      BY <1>4
    <3> QED
      BY <2>1, <3>1, <1>5
  <2> QED
    BY <2>1, <2>2
<1>7. b + f[m] \in Nat
  BY <1>6
<1> QED
  BY <1>6, <1>7

\* The largest of finitely many numbers and 0.
LEMMA MaxIs ==
  ASSUME NEW n \in Nat, NEW f \in [1 .. n -> Nat]
  PROVE  Max({0} \cup {f[i] : i \in 1 .. n}) \in Nat
<1> DEFINE S == {0} \cup {f[i] : i \in 1 .. n}
           B == {b \in Nat : \A y \in S : y <= b}
<1>1. B # {}
  <2>1. PICK b \in Nat : \A i \in 1 .. n : f[i] <= b
    BY Bounded
  <2>2. \A y \in S : y <= b
    BY <2>1
  <2>3. b \in B
    BY <2>2
  <2> QED
    BY <2>3
<1>2. PICK b \in B : \A a \in B : b <= a
  BY <1>1, LeastNumber, B \in SUBSET Nat
<1>3. b \in S
  <2>1. SUFFICES ASSUME b \notin S PROVE FALSE
    OBVIOUS
  <2>2. b # 0 /\ b \in Nat
    BY <2>1
  <2>3. \A y \in S : y \in Nat /\ y <= b /\ y # b
    BY <2>1
  <2>4. b - 1 \in B
    BY <2>2, <2>3
  <2> QED
    BY <1>2, <2>2, <2>4
<1>4. \E x \in S : \A y \in S : x >= y
  BY <1>3
<1>5. Max(S) \in S
  BY <1>4 DEF Max
<1> QED
  BY <1>5

LEMMA Constants ==
  /\ MaxIdx \in Nat /\ ScaleMax \in Nat /\ ScaleStep \in Nat /\ DcMax \in Nat
  /\ DcStep \in Nat /\ DcStep # 0
  /\ Zero \in 0 .. MaxIdx /\ Deq[Zero] = 0 /\ Top \in Int
  /\ \A q \in 0 .. MaxIdx : Deq[q] \in Int /\ (Deq[q] = 0 => q = Zero)
  /\ White \in Nat /\ DcCentre \in 1 .. DcMax
  /\ \A q \in 0 .. ScaleMax : scale_val(q) \in Nat /\ ScaleGrid[q] = scale_val(q)
<1>1. MaxIdx \in Nat /\ ScaleMax \in Nat /\ ScaleStep \in Nat /\ DcMax \in Nat
      /\ DcStep \in Nat /\ DcStep # 0
  BY CodeAssumption
<1>2. Zero \in 0 .. MaxIdx
  BY <1>1 DEF Zero
<1>3. Deq[Zero] = 0 /\ Top \in Int
  BY <1>1, CodeAssumption DEF Top
<1>4. ASSUME NEW q \in 0 .. MaxIdx PROVE Deq[q] \in Int /\ (Deq[q] = 0 => q = Zero)
  <2>1. Deq[q] \in Int
    BY CodeAssumption
  <2>2. q < Zero => Deq[q] < Deq[Zero]
    BY <1>2, CodeAssumption
  <2>3. Zero < q => Deq[Zero] < Deq[q]
    BY <1>2, CodeAssumption
  <2> QED
    BY <1>1, <1>2, <1>3, <2>1, <2>2, <2>3
<1>5. White \in Nat
  BY <1>1 DEF White
<1>6. DcCentre \in 1 .. DcMax
  BY CodeAssumption DEF DcCentre
<1>7. ASSUME NEW q \in 0 .. ScaleMax PROVE scale_val(q) \in Nat /\ ScaleGrid[q] = scale_val(q)
  BY <1>1, ScaleAssumption DEF scale_val
<1> QED
  BY <1>1, <1>2, <1>3, <1>4, <1>5, <1>6, <1>7

LEMMA AbsIsNat == \A x \in Int : Abs(x) \in Nat /\ (Abs(x) = 0 => x = 0)
BY DEF Abs

LEMMA SquareIsNat == \A x \in Int : Sq(x) \in Nat
BY DEF Sq

LEMMA ProductIsInt == \A x, y \in Int : x * y \in Int /\ (x * y = 0 => x = 0 \/ y = 0)
OBVIOUS

LEMMA QuantizeOne ==
  ASSUME NEW v \in Int, NEW amp \in Int
  PROVE  /\ quantize_one(v, amp) \in 0 .. MaxIdx
         /\ v = 0 => quantize_one(v, amp) = Zero
<1>1. CASE amp = 0
  BY <1>1, Constants DEF quantize_one
<1>2. CASE amp # 0
  <2> DEFINE err(q) == Abs(Deq[q] * amp - v * Top)
             e == [q \in 0 .. MaxIdx |-> err(q)]
             Best(q) == \A r \in 0 .. MaxIdx : err(q) < err(r) \/ (err(q) = err(r) /\ q <= r)
             one == CHOOSE q \in 0 .. MaxIdx : Best(q)
  <2>1. quantize_one(v, amp) = one
    BY <1>2 DEF quantize_one
  <2>2. ASSUME NEW q \in 0 .. MaxIdx PROVE err(q) \in Nat
    <3>1. Deq[q] * amp \in Int /\ v * Top \in Int
      BY Constants, ProductIsInt
    <3> QED
      BY <3>1, AbsIsNat
  <2>3. e \in [0 .. MaxIdx -> Nat] /\ 0 .. MaxIdx \in SUBSET Nat /\ 0 .. MaxIdx # {}
    BY <2>2, Constants
  <2>4. \E q \in 0 .. MaxIdx : \A r \in 0 .. MaxIdx :
          e[q] < e[r] \/ (e[q] = e[r] /\ q <= r)
    BY <2>3, FirstLeast
  <2>5. \E q \in 0 .. MaxIdx : Best(q)
    BY <2>4
  <2>6. one \in 0 .. MaxIdx /\ Best(one)
    BY <2>5
  <2>7. ASSUME v = 0 PROVE one = Zero
    <3>1. v * Top = 0 /\ Deq[Zero] * amp = 0
      BY <2>7, Constants
    <3>2. err(Zero) = 0
      BY <3>1 DEF Abs
    <3>3. err(one) = 0
      BY <2>2, <2>6, <3>2, Constants
    <3>4. Deq[one] * amp \in Int /\ Deq[one] * amp - v * Top = Deq[one] * amp
      BY <2>6, <3>1, Constants, ProductIsInt
    <3>5. Deq[one] * amp = 0
      BY <3>3, <3>4, AbsIsNat
    <3>6. Deq[one] = 0
      BY <1>2, <2>6, <3>5, Constants, ProductIsInt
    <3> QED
      BY <2>6, <3>6, Constants
  <2> QED
    BY <2>1, <2>6, <2>7
<1> QED
  BY <1>1, <1>2

\* Codes that a channel may have: a dead frequency has the code of zero.
CodesFit(c, cc) ==
  /\ cc \in Seq(0 .. MaxIdx) /\ Len(cc) = Len(Sel[c])
  /\ \A i \in 1 .. Len(Sel[c]) : Sel[c][i] \notin Live => cc[i] = Zero

LEMMA Coefficients ==
  ASSUME NEW x \in Inputs, NEW c \in Channels
  PROVE  /\ Len(Sel[c]) \in Nat
         /\ x.values[c] \in [1 .. Len(Sel[c]) -> Int] /\ Len(x.values[c]) = Len(Sel[c])
         /\ \A i \in 1 .. Len(Sel[c]) : Sel[c][i] \notin Live => x.values[c][i] = 0
<1>1. Len(Sel[c]) \in Nat
  BY GridAssumption, LenProperties
<1>2. x.values[c] \in Seq(Int) /\ Len(x.values[c]) = Len(Sel[c])
  BY InputAssumption
<1>3. x.values[c] \in [1 .. Len(x.values[c]) -> Int]
  BY <1>2, LenProperties
<1> QED
  BY <1>1, <1>2, <1>3, InputAssumption

LEMMA SequenceIs ==
  ASSUME NEW n \in Nat, NEW S, NEW f \in [1 .. n -> S]
  PROVE  f \in Seq(S) /\ Len(f) = n /\ DOMAIN f = 1 .. n
<1>1. f \in Seq(S)
  OBVIOUS
<1> QED
  BY <1>1, LenProperties

LEMMA QuantizeAll ==
  ASSUME NEW x \in Inputs, NEW c \in Channels, NEW amp \in Int
  PROVE  CodesFit(c, quantize_all(x.values[c], amp))
<1> DEFINE n == Len(Sel[c])
           v == x.values[c]
           all == quantize_all(v, amp)
<1>1. n \in Nat /\ Len(v) = n /\ \A i \in 1 .. n : v[i] \in Int
  BY Coefficients
<1>2. all = [i \in 1 .. n |-> quantize_one(v[i], amp)]
  BY <1>1 DEF quantize_all
<1>3. \A i \in 1 .. n : quantize_one(v[i], amp) \in 0 .. MaxIdx
  BY <1>1, QuantizeOne
<1>4. all \in [1 .. n -> 0 .. MaxIdx]
  BY <1>2, <1>3
<1>5. all \in Seq(0 .. MaxIdx) /\ Len(all) = n
  BY <1>1, <1>4, SequenceIs
<1>6. ASSUME NEW i \in 1 .. n, Sel[c][i] \notin Live PROVE all[i] = Zero
  <2>1. v[i] = 0
    BY <1>6, Coefficients
  <2> QED
    BY <1>1, <1>2, <2>1, QuantizeOne
<1> QED
  BY <1>5, <1>6 DEF CodesFit

LEMMA QuantizeScale == ASSUME NEW raw \in Int PROVE quantize_scale(raw) \in 0 .. ScaleMax
<1> DEFINE err(s) == Abs(ScaleGrid[s] * Top - raw)
           e == [q \in 0 .. ScaleMax |-> err(q)]
           Best(q) == \A r \in 0 .. ScaleMax : err(q) < err(r) \/ (err(q) = err(r) /\ q >= r)
<1>1. quantize_scale(raw) = CHOOSE q \in 0 .. ScaleMax : Best(q)
  BY DEF quantize_scale
<1>2. ASSUME NEW q \in 0 .. ScaleMax PROVE err(q) \in Nat
  <2>1. ScaleGrid[q] \in Int /\ Top \in Int
    BY Constants
  <2>2. ScaleGrid[q] * Top \in Int
    BY <2>1, ProductIsInt
  <2> QED
    BY <2>2, AbsIsNat
<1>3. e \in [0 .. ScaleMax -> Nat]
  BY <1>2
<1>4. \E q \in 0 .. ScaleMax : \A r \in 0 .. ScaleMax : e[q] < e[r] \/ (e[q] = e[r] /\ q >= r)
  BY <1>3, Constants, LastLeast
<1>5. \E q \in 0 .. ScaleMax : Best(q)
  BY <1>4
<1> QED
  BY <1>1, <1>5

LEMMA ChannelSse ==
  ASSUME NEW x \in Inputs, NEW c \in Channels, NEW s \in Int
  PROVE  channel_sse(x.values[c], s) \in Nat
<1> DEFINE n == Len(Sel[c])
           v == x.values[c]
           q == quantize_all(v, s * Top)
           f == [i \in 1 .. n |-> Sq(ac_val(q[i], s) - v[i])]
<1>1. n \in Nat /\ Len(v) = n /\ \A i \in 1 .. n : v[i] \in Int
  BY Coefficients
<1>2. channel_sse(v, s) = Total(f, n)
  BY <1>1 DEF channel_sse
<1>3. s * Top \in Int
  BY Constants, ProductIsInt
<1>4. CodesFit(c, q)
  BY <1>3, QuantizeAll
<1>5. ASSUME NEW i \in 1 .. n PROVE Sq(ac_val(q[i], s) - v[i]) \in Nat
  <2>1. q[i] \in 0 .. MaxIdx
    BY <1>4, LenProperties DEF CodesFit
  <2>2. Deq[q[i]] \in Int
    BY <2>1, Constants
  <2>3. Deq[q[i]] * s \in Int
    BY <2>2, ProductIsInt
  <2>4. ac_val(q[i], s) - v[i] \in Int
    BY <1>1, <2>3 DEF ac_val
  <2> QED
    BY <2>4, SquareIsNat
<1>6. f \in [1 .. n -> Nat]
  BY <1>5
<1> QED
  BY <1>1, <1>2, <1>6, TotalIsNat

LEMMA QuantizeAcChannel ==
  ASSUME NEW x \in Inputs, NEW c \in Channels
  PROVE  /\ quantize_ac_channel(x.values[c], x.scaleFit).scl \in 0 .. ScaleMax
         /\ CodesFit(c, quantize_ac_channel(x.values[c], x.scaleFit).codes)
<1> DEFINE n == Len(Sel[c])
           v == x.values[c]
           fit == x.scaleFit
           abs == [i \in 1 .. n |-> Abs(v[i])]
           raw == Max({0} \cup {Abs(v[i]) : i \in 1 .. Len(v)})
           nominal == quantize_scale(raw)
           sseAt(s) == channel_sse(v, ScaleGrid[s])
           Best(s) == \A r \in 1 .. ScaleMax : sseAt(s) < sseAt(r) \/ (sseAt(s) = sseAt(r) /\ s <= r)
           fitted == IF raw = 0 THEN 0 ELSE CHOOSE s \in 1 .. ScaleMax : Best(s)
           code == IF fit = 2 THEN fitted ELSE nominal
           amp == IF fit = 0 THEN raw ELSE ScaleGrid[code] * Top
<1>1. quantize_ac_channel(v, fit) = [scl |-> code, codes |-> quantize_all(v, amp)]
  BY DEF quantize_ac_channel
<1>2. n \in Nat /\ Len(v) = n /\ \A i \in 1 .. n : v[i] \in Int
  BY Coefficients
<1>3. raw \in Nat
  <2>1. abs \in [1 .. n -> Nat]
    BY <1>2, AbsIsNat
  <2>2. {abs[i] : i \in 1 .. n} = {Abs(v[i]) : i \in 1 .. n}
    OBVIOUS
  <2>3. Max({0} \cup {abs[i] : i \in 1 .. n}) \in Nat
    BY <1>2, <2>1, MaxIs
  <2> QED
    BY <1>2, <2>2, <2>3
<1>4. nominal \in 0 .. ScaleMax
  BY <1>3, QuantizeScale
<1>5. fitted \in 0 .. ScaleMax
  <2> DEFINE e == [s \in 1 .. ScaleMax |-> sseAt(s)]
  <2>1. \A s \in 1 .. ScaleMax : sseAt(s) \in Nat
    <3>1. \A s \in 1 .. ScaleMax : ScaleGrid[s] \in Int
      BY Constants
    <3> QED
      BY <3>1, ChannelSse
  <2>2. e \in [1 .. ScaleMax -> Nat] /\ 1 .. ScaleMax \in SUBSET Nat
    BY <2>1
  <2>3. 1 .. ScaleMax # {}
    <3>1. 1 \in 1 .. ScaleMax
      BY CodeAssumption
    <3> QED
      BY <3>1
  <2>4. \E s \in 1 .. ScaleMax : \A r \in 1 .. ScaleMax : e[s] < e[r] \/ (e[s] = e[r] /\ s <= r)
    BY <2>2, <2>3, FirstLeast
  <2>5. \E s \in 1 .. ScaleMax : Best(s)
    BY <2>4
  <2>6. (CHOOSE s \in 1 .. ScaleMax : Best(s)) \in 1 .. ScaleMax
    BY <2>5
  <2> HIDE DEF Best, sseAt
  <2> QED
    BY <2>6, Constants
<1>6. code \in 0 .. ScaleMax
  BY <1>4, <1>5
<1>7. amp \in Int
  <2>1. ScaleGrid[code] \in Int /\ Top \in Int
    BY <1>6, Constants
  <2>2. ScaleGrid[code] * Top \in Int
    BY <2>1, ProductIsInt
  <2> QED
    BY <1>3, <2>2
<1>8. CodesFit(c, quantize_all(v, amp))
  BY <1>7, QuantizeAll
<1> HIDE DEF code, amp, v
<1> QED
  BY <1>1, <1>6, <1>8 DEF v

LEMMA QuantizedFits ==
  ASSUME NEW x \in Inputs
  PROVE  /\ \A c \in Channels : /\ Quantized(x)[c].scl \in 0 .. ScaleMax
                                /\ CodesFit(c, Quantized(x)[c].codes)
         /\ x.shared => Quantized(x)["b"].scl = Quantized(x)["a"].scl
<1> DEFINE a == quantize_ac_channel(x.values["a"], x.scaleFit)
           q == Quantized(x)
<1>1. \A c \in Channels : q[c] = IF x.shared /\ c = "b"
                                 THEN [scl |-> a.scl,
                                       codes |-> quantize_all(x.values["b"], ScaleGrid[a.scl] * Top)]
                                 ELSE quantize_ac_channel(x.values[c], x.scaleFit)
  BY DEF Quantized
<1>2. a.scl \in 0 .. ScaleMax /\ "a" \in Channels /\ "b" \in Channels
  BY QuantizeAcChannel DEF Channels
<1>3. CodesFit("b", quantize_all(x.values["b"], ScaleGrid[a.scl] * Top))
  <2>1. ScaleGrid[a.scl] \in Int /\ Top \in Int
    BY <1>2, Constants
  <2>2. ScaleGrid[a.scl] * Top \in Int
    BY <2>1, ProductIsInt
  <2> QED
    BY <1>2, <2>2, QuantizeAll
<1> HIDE DEF q
<1>4. ASSUME NEW c \in Channels PROVE q[c].scl \in 0 .. ScaleMax /\ CodesFit(c, q[c].codes)
  <2>1. CASE x.shared /\ c = "b"
    BY <1>1, <1>2, <1>3, <2>1
  <2>2. CASE ~ (x.shared /\ c = "b")
    BY <1>1, <2>2, QuantizeAcChannel
  <2> QED
    BY <2>1, <2>2
<1>5. x.shared => q["b"].scl = q["a"].scl
  BY <1>1, <1>2
<1> QED
  BY <1>4, <1>5 DEF q

LEMMA ClampFits ==
  ASSUME NEW v \in Int, NEW lo \in Int, NEW hi \in Int, lo <= hi
  PROVE  Clamp(v, lo, hi) \in lo .. hi
BY DEF Clamp

LEMMA DcLow == \A c \in Channels : dc_lo(c) \in Nat /\ dc_lo(c) <= DcMax
BY CodeAssumption DEF dc_lo

LEMMA DcFits ==
  ASSUME NEW x \in Inputs, NEW d \in DcChoices(x)
  PROVE  d \in [Channels -> 0 .. DcMax]
<1>1. NominalDc(x) \in [Channels -> 0 .. DcMax]
  <2> DEFINE zero(c) == IF c = "l" THEN 0 ELSE DcCentre
             value(c) == RoundTo(x.mean[c] + zero(c) * DcStep, DcStep)
  <2>1. NominalDc(x) = [c \in Channels |-> Clamp(value(c), dc_lo(c), DcMax)]
    BY DEF NominalDc
  <2>2. ASSUME NEW c \in Channels PROVE Clamp(value(c), dc_lo(c), DcMax) \in 0 .. DcMax
    <3>1. x.mean[c] \in Int /\ zero(c) \in Int
      BY InputAssumption, Constants
    <3>2. x.mean[c] + zero(c) * DcStep \in Int
      BY <3>1, Constants, ProductIsInt
    <3>3. \A m \in Int : RoundTo(m, DcStep) \in Int
      <4>1. 2 * DcStep \in Nat /\ 2 * DcStep > 0
        BY Constants
      <4>2. \A m \in Int : 2 * m + DcStep \in Int
        BY Constants
      <4>3. \A m \in Int : \A k \in Nat : k > 0 => m \div k \in Int
        OBVIOUS
      <4> QED
        BY <4>1, <4>2, <4>3 DEF RoundTo
    <3>4. value(c) \in Int
      BY <3>2, <3>3
    <3> HIDE DEF value
    <3>5. Clamp(value(c), dc_lo(c), DcMax) \in dc_lo(c) .. DcMax
      BY <3>4, DcLow, Constants, ClampFits
    <3> QED
      BY <3>5, DcLow, Constants
  <2> QED
    BY <2>1, <2>2
<1>2. CASE x.dcSearch
  BY <1>2 DEF DcChoices
<1>3. CASE ~ x.dcSearch
  BY <1>1, <1>3 DEF DcChoices
<1> QED
  BY <1>2, <1>3

LEMMA DcValues == \A c \in Channels : \A q \in Int : dc_val(c, q) \in Int
<1> SUFFICES ASSUME NEW c \in Channels, NEW q \in Int PROVE dc_val(c, q) \in Int
  OBVIOUS
<1>1. DcStep \in Int /\ DcCentre \in Int /\ q - DcCentre \in Int
  BY Constants
<1>2. q * DcStep \in Int /\ (q - DcCentre) * DcStep \in Int
  BY <1>1, ProductIsInt
<1> QED
  BY <1>2 DEF dc_val

-----------------------------------------------------------------------------
(* What codes stand for.                                                       *)

\* The level of each selected frequency.
Levels(c, s, cc) == [i \in 1 .. Len(Sel[c]) |-> ac_val(cc[i], scale_val(s))]

\* The pixels of a channel with DC code d, scale code s and AC codes cc.
Shown(c, d, s, cc) ==
  [p \in Pixels |-> dc_val(c, d) + Sum(c, Levels(c, s, cc))[p]]

Waves(c, val, p) == [i \in 1 .. Len(Sel[c]) |-> val[i] * Basis[Sel[c][i]][p]]

LEMMA SumAt ==
  ASSUME NEW c \in Channels, NEW val \in [1 .. Len(Sel[c]) -> Int], NEW p \in Pixels
  PROVE  /\ Waves(c, val, p) \in [1 .. Len(Sel[c]) -> Int]
         /\ Sum(c, val)[p] = Total(Waves(c, val, p), Len(Sel[c]))
         /\ Sum(c, val)[p] \in Int
<1> DEFINE n == Len(Sel[c])
<1>1. n \in Nat /\ Len(val) = n
  BY GridAssumption, LenProperties, SequenceIs
<1>2. ASSUME NEW i \in 1 .. n PROVE val[i] * Basis[Sel[c][i]][p] \in Int
  <2>1. Sel[c][i] \in Freqs
    BY GridAssumption, LenProperties
  <2>2. Basis[Sel[c][i]][p] \in Int
    BY <2>1, GridAssumption
  <2> QED
    BY <2>2, ProductIsInt
<1>3. Waves(c, val, p) \in [1 .. n -> Int]
  BY <1>2 DEF Waves
<1>4. Sum(c, val)[p] = Total(Waves(c, val, p), n)
  BY <1>1 DEF Sum, Waves
<1>5. Total(Waves(c, val, p), n) \in Int
  BY <1>1, <1>3, TotalType
<1> QED
  BY <1>3, <1>4, <1>5

LEMMA SumType ==
  ASSUME NEW c \in Channels, NEW val \in [1 .. Len(Sel[c]) -> Int]
  PROVE  Sum(c, val) \in [Pixels -> Int]
<1>1. Sum(c, val) = [p \in Pixels |-> Sum(c, val)[p]]
  BY DEF Sum
<1> QED
  BY <1>1, SumAt

LEMMA CodeInRange ==
  ASSUME NEW c \in Channels, NEW cc, CodesFit(c, cc), NEW i \in 1 .. Len(Sel[c])
  PROVE  cc[i] \in 0 .. MaxIdx
<1>1. cc \in [1 .. Len(cc) -> 0 .. MaxIdx]
  BY LenProperties DEF CodesFit
<1> QED
  BY <1>1 DEF CodesFit

LEMMA LevelIsInt ==
  ASSUME NEW q \in 0 .. MaxIdx, NEW s \in 0 .. ScaleMax
  PROVE  ac_val(q, scale_val(s)) \in Int /\ (q = Zero => ac_val(q, scale_val(s)) = 0)
<1>1. Deq[q] \in Int /\ scale_val(s) \in Int /\ Deq[Zero] = 0
  BY Constants
<1> QED
  BY <1>1, ProductIsInt DEF ac_val

LEMMA LevelsType ==
  ASSUME NEW c \in Channels, NEW s \in 0 .. ScaleMax, NEW cc, CodesFit(c, cc)
  PROVE  Levels(c, s, cc) \in [1 .. Len(Sel[c]) -> Int]
BY CodeInRange, LevelIsInt DEF Levels

LEMMA ShownType ==
  ASSUME NEW c \in Channels, NEW d \in 0 .. DcMax, NEW s \in 0 .. ScaleMax, NEW cc, CodesFit(c, cc)
  PROVE  Shown(c, d, s, cc) \in [Pixels -> Int]
<1>1. dc_val(c, d) \in Int
  BY DcValues
<1>2. Levels(c, s, cc) \in [1 .. Len(Sel[c]) -> Int]
  BY LevelsType
<1>3. \A p \in Pixels : Sum(c, Levels(c, s, cc))[p] \in Int
  BY <1>2, SumAt
<1> QED
  BY <1>1, <1>3 DEF Shown

\* The search passes over dead frequencies, which stand for nothing.
LEMMA BuildIsShown ==
  ASSUME NEW c \in Channels, NEW d, NEW s \in 0 .. ScaleMax, NEW cc, CodesFit(c, cc)
  PROVE  build(c, d, s, cc) = Shown(c, d, s, cc)
<1> DEFINE n == Len(Sel[c])
           lit == [i \in 1 .. n |-> IF Alive(c, i) THEN ac_val(cc[i], scale_val(s)) ELSE 0]
<1>1. Len(cc) = n
  BY DEF CodesFit
<1>2. ASSUME NEW i \in 1 .. n, ~ Alive(c, i) PROVE ac_val(cc[i], scale_val(s)) = 0
  <2>1. cc[i] = Zero
    BY <1>2 DEF CodesFit, Alive
  <2> QED
    BY <2>1, CodeInRange, LevelIsInt
<1>3. lit = Levels(c, s, cc)
  BY <1>2 DEF Levels
<1>4. build(c, d, s, cc) = [p \in Pixels |-> dc_val(c, d) + Sum(c, lit)[p]]
  BY <1>1 DEF build
<1> QED
  BY <1>3, <1>4 DEF Shown

\* The decoder has them too, on its own grid of scales.
LEMMA DecodeIsShown ==
  ASSUME NEW c \in Channels, scl[c] \in 0 .. ScaleMax, CodesFit(c, codes[c]),
         in.shared => scl["b"] = scl["a"]
  PROVE  Decode(c) = Shown(c, dc[c], scl[c], codes[c])
<1>1. ScaleGrid[ScaleField(in, scl, c)] = scale_val(scl[c])
  BY Constants DEF ScaleField
<1>2. Len(codes[c]) = Len(Sel[c])
  BY DEF CodesFit
<1>3. Decode(c) = [p \in Pixels |-> dc_val(c, dc[c])
                     + Sum(c, [i \in 1 .. Len(codes[c]) |->
                                 ac_val(codes[c][i], ScaleGrid[ScaleField(in, scl, c)])])[p]]
  BY DEF Decode
<1> QED
  BY <1>1, <1>2, <1>3 DEF Shown, Levels

-----------------------------------------------------------------------------
(* The objective: a sum that is given up early was too large already.          *)

Triple(m) == m[1] \in Int /\ m[2] \in Int /\ m[3] \in Int

LEMMA MapType ==
  ASSUME NEW clips \in BOOLEAN, NEW l \in Int, NEW a \in Int, NEW b \in Int
  PROVE  Triple(map(clips, l, a, b))
<1>1. Clamp(l, 0, White) \in Int
  BY Constants DEF Clamp
<1> DEFINE y == IF clips THEN Clamp(l, 0, White) ELSE l
           rgb == <<y + a, y - a, y - b>>
<1>2. y \in Int
  BY <1>1
<1>3. rgb[1] \in Int /\ rgb[2] \in Int /\ rgb[3] \in Int
  BY <1>2
<1>4. map(clips, l, a, b) = IF clips THEN [k \in 1 .. 3 |-> Clamp(rgb[k], 0, White)] ELSE rgb
  BY DEF map
<1>5. \A v \in Int : Clamp(v, 0, White) \in Int
  BY Constants DEF Clamp
<1> HIDE DEF rgb
<1>6. CASE clips
  <2> DEFINE m == [k \in 1 .. 3 |-> Clamp(rgb[k], 0, White)]
  <2>1. m[1] \in Int /\ m[2] \in Int /\ m[3] \in Int
    BY <1>3, <1>5
  <2> QED
    BY <1>4, <1>6, <2>1 DEF Triple
<1>7. CASE ~ clips
  BY <1>3, <1>4, <1>7 DEF Triple
<1> QED
  BY <1>6, <1>7

LEMMA MapPixelType ==
  ASSUME NEW x \in Inputs, NEW r \in [Channels -> [Pixels -> Int]], NEW p \in Pixels
  PROVE  Triple(MapPixel(x, r, p))
<1>1. x.clips \in BOOLEAN
  BY InputAssumption
<1>2. r["l"][p] \in Int /\ r["a"][p] \in Int /\ r["b"][p] \in Int
  BY DEF Channels
<1> QED
  BY <1>1, <1>2, MapType DEF MapPixel

LEMMA TargetType ==
  ASSUME NEW x \in Inputs, NEW p \in Pixels
  PROVE  Triple(Target(x)[p])
<1> DEFINE s == [c \in Channels |-> Source(x, c)]
<1>1. ASSUME NEW c \in Channels PROVE Source(x, c) \in [Pixels -> Int]
  <2>1. x.mean[c] \in Int /\ x.rest[c] \in [Pixels -> Int]
    BY InputAssumption
  <2>2. Sum(c, x.values[c]) \in [Pixels -> Int]
    BY Coefficients, SumType
  <2>3. \A q \in Pixels : x.mean[c] + Sum(c, x.values[c])[q] + x.rest[c][q] \in Int
    BY <2>1, <2>2
  <2> QED
    BY <2>3 DEF Source
<1>2. s \in [Channels -> [Pixels -> Int]]
  BY <1>1
<1>3. Target(x)[p] = MapPixel(x, s, p)
  BY DEF Target
<1> QED
  BY <1>2, <1>3, MapPixelType

LEMMA DistanceIsNat ==
  ASSUME NEW m, NEW t, Triple(m), Triple(t)
  PROVE  Distance(m, t) \in Nat
<1>1. m[1] - t[1] \in Int /\ m[2] - t[2] \in Int /\ m[3] - t[3] \in Int
  BY DEF Triple
<1>2. Sq(m[1] - t[1]) \in Nat /\ Sq(m[2] - t[2]) \in Nat /\ Sq(m[3] - t[3]) \in Nat
  BY <1>1, SquareIsNat
<1> QED
  BY <1>2 DEF Distance

LEMMA RowsGrow ==
  ASSUME in \in Inputs, target = Target(in), NEW r \in [Channels -> [Pixels -> Int]],
         NEW n \in 0 .. Height
  PROVE  SseOfRows(r, n) \in Nat /\ sse(r) \in Nat /\ SseOfRows(r, n) <= sse(r)
<1>1. Height \in Nat /\ Width \in Nat /\ n \in Nat
  BY GridAssumption
<1>2. ASSUME NEW y \in 1 .. Height PROVE RowSse(r, y) \in Nat
  <2> DEFINE f == [x \in 1 .. Width |-> Distance(MapPixel(in, r, <<y, x>>), target[<<y, x>>])]
  <2>1. ASSUME NEW x \in 1 .. Width
        PROVE  Distance(MapPixel(in, r, <<y, x>>), target[<<y, x>>]) \in Nat
    <3>1. <<y, x>> \in Pixels
      BY DEF Pixels
    <3> QED
      BY <3>1, MapPixelType, TargetType, DistanceIsNat
  <2>2. f \in [1 .. Width -> Nat]
    BY <2>1
  <2>3. Total(f, Width) \in Nat
    BY <1>1, <2>2, TotalIsNat
  <2> QED
    BY <2>3 DEF RowSse
<1> DEFINE whole == [y \in 1 .. Height |-> RowSse(r, y)]
           part == [y \in 1 .. n |-> RowSse(r, y)]
<1>3. whole \in [1 .. Height -> Nat]
  BY <1>2
<1>4. part \in [1 .. n -> Nat] /\ \A y \in 1 .. n : part[y] = whole[y]
  <2>1. \A y \in 1 .. n : y \in 1 .. Height
    BY <1>1
  <2> QED
    BY <1>2, <2>1
<1>5. SseOfRows(r, n) = Total(part, n) /\ sse(r) = Total(whole, Height)
  BY DEF SseOfRows, sse
<1> HIDE DEF whole, part
<1> QED
  BY <1>1, <1>3, <1>4, <1>5, TotalOfMore

\* A sum that is below the bound was never given up.
LEMMA ScoreIs ==
  ASSUME in \in Inputs, target = Target(in), NEW r \in [Channels -> [Pixels -> Int]],
         NEW early \in BOOLEAN, NEW bound \in Int
  PROVE  /\ Score(r, early, bound) \in Nat /\ sse(r) \in Nat
         /\ Score(r, early, bound) < bound <=> sse(r) < bound
         /\ Score(r, early, bound) < bound => Score(r, early, bound) = sse(r)
<1> DEFINE rows == {n \in 1 .. Height : early /\ Stops(SseOfRows(r, n), bound)}
<1>1. Score(r, early, bound) = SseOfRows(r, IF rows # {} THEN Min(rows) ELSE Height)
  BY DEF Score
<1>2. Height \in 0 .. Height /\ sse(r) \in Nat
  BY RowsGrow, GridAssumption
<1>3. CASE rows = {}
  BY <1>1, <1>2, <1>3 DEF sse
<1>4. CASE rows # {}
  <2>1. \E n \in rows : \A m \in rows : n <= m
    BY <1>4, LeastNumber, rows \in SUBSET Nat
  <2>2. Min(rows) \in rows
    BY <2>1 DEF Min
  <2>3. PICK n \in 1 .. Height : n = Min(rows) /\ Stops(SseOfRows(r, n), bound)
    BY <2>2
  <2>4. SseOfRows(r, n) \in Nat /\ SseOfRows(r, n) <= sse(r)
    BY <2>3, RowsGrow
  <2>5. SseOfRows(r, n) >= bound
    BY <2>3 DEF Stops
  <2>6. Score(r, early, bound) = SseOfRows(r, n)
    BY <1>1, <1>4, <2>3
  <2> QED
    BY <1>2, <2>4, <2>5, <2>6
<1> QED
  BY <1>3, <1>4

-----------------------------------------------------------------------------
(* One coordinate of a pass.                                                   *)

\* The codes, the pixels that are kept and their error belong together.
CodesInv ==
  /\ in \in Inputs /\ target = Target(in)
  /\ dc \in [Channels -> 0 .. DcMax] /\ scl \in [Channels -> 0 .. ScaleMax]
  /\ codes = [c \in Channels |-> codes[c]] /\ \A c \in Channels : CodesFit(c, codes[c])
  /\ in.shared => scl["b"] = scl["a"]
  /\ recon = [c \in Channels |-> Shown(c, dc[c], scl[c], codes[c])]
  /\ best = sse(recon)

Kinds == {"scale", "dc", "ac"}

Coordinate(x, k) ==
  /\ k.kind \in Kinds /\ k.c \in Channels
  /\ k.kind = "scale" => ~ x.shared
  /\ k.kind = "ac" => k.i \in 1 .. Len(Sel[k.c])

LEMMA PlanIs ==
  ASSUME NEW x \in Inputs
  PROVE  /\ Len(Coordinates(x)) \in Nat
         /\ \A j \in 1 .. Len(Coordinates(x)) : Coordinate(x, Coordinates(x)[j])
<1> DEFINE K == {k \in [kind : Kinds, c : Channels, i : Nat] : Coordinate(x, k)}
           each(kind) == [k \in 1 .. 3 |-> [kind |-> kind, c |-> Order[k], i |-> 0]]
           ac(c) == [i \in 1 .. Len(Sel[c]) |-> [kind |-> "ac", c |-> c, i |-> i]]
           scales == IF x.refineScale /\ ~ x.shared THEN each("scale") ELSE <<>>
           dcs == IF x.refineDc THEN each("dc") ELSE <<>>
<1>1. \A k \in 1 .. 3 : Order[k] \in Channels
  BY DEF Order, Channels
<1>2. <<>> \in Seq(K)
  OBVIOUS
<1>3. scales \in Seq(K)
  <2>1. CASE x.refineScale /\ ~ x.shared
    <3>1. \A k \in 1 .. 3 : [kind |-> "scale", c |-> Order[k], i |-> 0] \in K
      BY <1>1, <2>1 DEF Coordinate, Kinds
    <3>2. each("scale") \in [1 .. 3 -> K]
      BY <3>1
    <3>3. each("scale") \in Seq(K)
      BY <3>2, SequenceIs
    <3> QED
      BY <2>1, <3>3
  <2>2. CASE ~ (x.refineScale /\ ~ x.shared)
    BY <1>2, <2>2
  <2> QED
    BY <2>1, <2>2
<1>4. dcs \in Seq(K)
  <2>1. \A k \in 1 .. 3 : [kind |-> "dc", c |-> Order[k], i |-> 0] \in K
    BY <1>1 DEF Coordinate, Kinds
  <2>2. each("dc") \in [1 .. 3 -> K]
    BY <2>1
  <2>3. each("dc") \in Seq(K)
    BY <2>2, SequenceIs
  <2> QED
    BY <1>2, <2>3
<1>5. ASSUME NEW c \in Channels PROVE ac(c) \in Seq(K)
  <2>1. Len(Sel[c]) \in Nat
    BY GridAssumption, LenProperties
  <2>2. \A i \in 1 .. Len(Sel[c]) : [kind |-> "ac", c |-> c, i |-> i] \in K
    BY <2>1 DEF Coordinate, Kinds
  <2>3. ac(c) \in [1 .. Len(Sel[c]) -> K]
    BY <2>2
  <2> QED
    BY <2>1, <2>3, SequenceIs
<1>6. ac("l") \in Seq(K) /\ ac("a") \in Seq(K) /\ ac("b") \in Seq(K)
  BY <1>5 DEF Channels
<1>7. Coordinates(x) = scales \o dcs \o ac("l") \o ac("a") \o ac("b")
  BY DEF Coordinates
<1> HIDE DEF K, scales, dcs, ac
<1>8. Coordinates(x) \in Seq(K)
  <2>1. scales \o dcs \in Seq(K)
    BY <1>3, <1>4, ConcatProperties
  <2>2. scales \o dcs \o ac("l") \in Seq(K)
    BY <1>6, <2>1, ConcatProperties
  <2>3. scales \o dcs \o ac("l") \o ac("a") \in Seq(K)
    BY <1>6, <2>2, ConcatProperties
  <2> QED
    BY <1>6, <1>7, <2>3, ConcatProperties
<1>9. Len(Coordinates(x)) \in Nat /\ \A j \in 1 .. Len(Coordinates(x)) : Coordinates(x)[j] \in K
  BY <1>8, LenProperties
<1> QED
  BY <1>9 DEF K

\* A code that a coordinate may take.
Fits(k, q) ==
  CASE k.kind = "scale" -> q \in 0 .. ScaleMax
    [] k.kind = "dc" -> q \in 0 .. DcMax
    [] k.kind = "ac" -> q \in 0 .. MaxIdx /\ Alive(k.c, k.i)

LEMMA NearFits ==
  ASSUME NEW n \in Nat, NEW offsets \in [1 .. n -> Int], NEW cur \in Int,
         NEW lo \in Int, NEW hi \in Int, lo <= hi
  PROVE  /\ Len(Near(cur, offsets, lo, hi)) = n
         /\ \A j \in 1 .. n : Near(cur, offsets, lo, hi)[j] \in lo .. hi
<1>1. Len(offsets) = n
  BY SequenceIs
<1>2. ASSUME NEW j \in 1 .. n PROVE Clamp(cur + offsets[j], lo, hi) \in lo .. hi
  <2>1. offsets[j] \in Int
    OBVIOUS
  <2>2. cur + offsets[j] \in Int
    BY <2>1
  <2> QED
    BY <2>2, ClampFits
<1>3. Near(cur, offsets, lo, hi) = [j \in 1 .. n |-> Clamp(cur + offsets[j], lo, hi)]
  BY <1>1 DEF Near
<1> QED
  BY <1>2, <1>3, SequenceIs

LEMMA CandidatesFit ==
  ASSUME CodesInv, NEW k, Coordinate(in, k)
  PROVE  /\ Len(Candidates(k)) \in Nat
         /\ \A j \in 1 .. Len(Candidates(k)) : Fits(k, Candidates(k)[j])
<1>1. k.c \in Channels /\ k.kind \in Kinds
  BY DEF Coordinate
<1>2. CASE k.kind = "scale"
  <2> DEFINE offsets == <<-2, -1, 1, 2>>
  <2>1. offsets \in [1 .. 4 -> Int]
    OBVIOUS
  <2>2. Present(k) \in Int
    BY <1>1, <1>2 DEF Present, CodesInv
  <2>3. Candidates(k) = Near(Present(k), offsets, 0, ScaleMax)
    BY <1>2 DEF Candidates
  <2> HIDE DEF offsets
  <2>4. Len(Candidates(k)) = 4 /\ \A j \in 1 .. 4 : Candidates(k)[j] \in 0 .. ScaleMax
    <3>1. 4 \in Nat /\ 0 \in Int /\ ScaleMax \in Int /\ 0 <= ScaleMax
      BY Constants
    <3>2. /\ Len(Near(Present(k), offsets, 0, ScaleMax)) = 4
          /\ \A j \in 1 .. 4 : Near(Present(k), offsets, 0, ScaleMax)[j] \in 0 .. ScaleMax
      BY <2>1, <2>2, <3>1, NearFits
    <3> QED
      BY <2>3, <3>2
  <2> QED
    BY <1>2, <2>4 DEF Fits
<1>3. CASE k.kind = "dc"
  <2> DEFINE offsets == <<-1, 1>>
  <2>1. offsets \in [1 .. 2 -> Int]
    OBVIOUS
  <2>2. Present(k) \in Int
    BY <1>1, <1>3 DEF Present, CodesInv
  <2>3. Candidates(k) = Near(Present(k), offsets, dc_lo(k.c), DcMax)
    BY <1>3 DEF Candidates
  <2> HIDE DEF offsets
  <2>4. Len(Candidates(k)) = 2 /\ \A j \in 1 .. 2 : Candidates(k)[j] \in dc_lo(k.c) .. DcMax
    <3>1. 2 \in Nat /\ dc_lo(k.c) \in Int /\ DcMax \in Int /\ dc_lo(k.c) <= DcMax
      BY <1>1, DcLow, Constants
    <3>2. /\ Len(Near(Present(k), offsets, dc_lo(k.c), DcMax)) = 2
          /\ \A j \in 1 .. 2 : Near(Present(k), offsets, dc_lo(k.c), DcMax)[j]
                                \in dc_lo(k.c) .. DcMax
      BY <2>1, <2>2, <3>1, NearFits
    <3> QED
      BY <2>3, <3>2
  <2>5. \A q \in dc_lo(k.c) .. DcMax : q \in 0 .. DcMax
    BY <1>1, DcLow, Constants
  <2> QED
    BY <1>3, <2>4, <2>5 DEF Fits
<1>4. CASE k.kind = "ac"
  <2>1. CASE ~ Alive(k.c, k.i)
    <3>1. Candidates(k) = <<>>
      BY <1>4, <2>1 DEF Candidates
    <3> QED
      BY <3>1
  <2>2. CASE Alive(k.c, k.i)
    <3> DEFINE n == 2 * RefineDelta
    <3>1. n \in Nat
      BY CodeAssumption
    <3>2. AcOffsets \in [1 .. n -> Int]
      <4>1. \A j \in 1 .. n : (IF j % 2 = 1 THEN -((j + 1) \div 2) ELSE j \div 2) \in Int
        BY <3>1
      <4> QED
        BY <4>1 DEF AcOffsets
    <3>3. Present(k) \in 0 .. MaxIdx
      BY <1>1, <1>4, CodeInRange DEF Present, CodesInv, Coordinate
    <3>4. Candidates(k) = Near(Present(k), AcOffsets, 0, MaxIdx)
      BY <1>4, <2>2 DEF Candidates
    <3> HIDE DEF n
    <3>5. Len(Candidates(k)) = n /\ \A j \in 1 .. n : Candidates(k)[j] \in 0 .. MaxIdx
      BY <3>1, <3>2, <3>3, <3>4, Constants, NearFits
    <3> QED
      BY <1>4, <2>2, <3>1, <3>5 DEF Fits
  <2> QED
    BY <2>1, <2>2
<1> QED
  BY <1>1, <1>2, <1>3, <1>4 DEF Kinds

\* The codes of its channel with a coordinate changed.
DcOf(k, q) == IF k.kind = "dc" THEN q ELSE dc[k.c]
SclOf(k, q) == IF k.kind = "scale" THEN q ELSE scl[k.c]
CodesOf(k, q) ==
  CASE k.kind = "scale" -> Requantized(k.c, q)
    [] k.kind = "dc" -> codes[k.c]
    [] k.kind = "ac" -> [codes[k.c] EXCEPT ![k.i] = q]

LEMMA NewCodesFit ==
  ASSUME CodesInv, NEW k, Coordinate(in, k), NEW q, Fits(k, q)
  PROVE  /\ DcOf(k, q) \in 0 .. DcMax /\ SclOf(k, q) \in 0 .. ScaleMax
         /\ CodesFit(k.c, CodesOf(k, q))
<1> DEFINE c == k.c
<1>1. c \in Channels /\ k.kind \in Kinds
  BY DEF Coordinate
<1>2. dc[c] \in 0 .. DcMax /\ scl[c] \in 0 .. ScaleMax /\ CodesFit(c, codes[c])
  BY <1>1 DEF CodesInv
<1>3. CASE k.kind = "scale"
  <2>1. q \in 0 .. ScaleMax
    BY <1>3 DEF Fits
  <2>2. scale_val(q) \in Int /\ Top \in Int
    BY <2>1, Constants
  <2>3. scale_val(q) * Top \in Int
    BY <2>2, ProductIsInt
  <2>4. CodesFit(c, quantize_all(in.values[c], scale_val(q) * Top))
    BY <1>1, <2>3, QuantizeAll DEF CodesInv
  <2> QED
    BY <1>2, <1>3, <2>1, <2>4 DEF DcOf, SclOf, CodesOf, Requantized
<1>4. CASE k.kind = "dc"
  BY <1>2, <1>4 DEF DcOf, SclOf, CodesOf, Fits
<1>5. CASE k.kind = "ac"
  <2>1. q \in 0 .. MaxIdx /\ Alive(c, k.i) /\ k.i \in 1 .. Len(Sel[c])
    BY <1>5 DEF Fits, Coordinate
  <2>2. codes[c] \in Seq(0 .. MaxIdx) /\ Len(codes[c]) = Len(Sel[c])
    BY <1>2 DEF CodesFit
  <2> DEFINE new == [codes[c] EXCEPT ![k.i] = q]
  <2>3. /\ new \in Seq(0 .. MaxIdx) /\ Len(new) = Len(Sel[c])
        /\ \A i \in 1 .. Len(Sel[c]) : new[i] = IF i = k.i THEN q ELSE codes[c][i]
    BY <2>1, <2>2, ExceptSeq
  <2>4. CodesFit(c, new)
    BY <1>2, <2>1, <2>3 DEF CodesFit, Alive
  <2> QED
    BY <1>2, <1>5, <2>4 DEF DcOf, SclOf, CodesOf
<1> QED
  BY <1>1, <1>3, <1>4, <1>5 DEF Kinds

LEMMA Difference ==
  \A x, y, z \in Int : x * z - y * z = (x - y) * z
OBVIOUS

\* The pixels of a coordinate changed are those of the codes changed.
LEMMA ChangedIs ==
  ASSUME CodesInv, NEW k, Coordinate(in, k), NEW q, Fits(k, q)
  PROVE  /\ Changed(k, q) = Shown(k.c, DcOf(k, q), SclOf(k, q), CodesOf(k, q))
         /\ Changed(k, q) \in [Pixels -> Int]
<1> DEFINE c == k.c
<1>1. c \in Channels /\ k.kind \in Kinds
  BY DEF Coordinate
<1>2. dc[c] \in 0 .. DcMax /\ scl[c] \in 0 .. ScaleMax /\ CodesFit(c, codes[c])
  BY <1>1 DEF CodesInv
<1>3. DcOf(k, q) \in 0 .. DcMax /\ SclOf(k, q) \in 0 .. ScaleMax /\ CodesFit(c, CodesOf(k, q))
  BY NewCodesFit
<1>4. recon[c] = Shown(c, dc[c], scl[c], codes[c])
  BY <1>1 DEF CodesInv
<1>5. Changed(k, q) = Shown(c, DcOf(k, q), SclOf(k, q), CodesOf(k, q))
  <2>1. CASE k.kind = "scale"
    <3>1. SclOf(k, q) = q /\ DcOf(k, q) = dc[c] /\ CodesOf(k, q) = Requantized(c, q)
      BY <2>1 DEF SclOf, DcOf, CodesOf
    <3>2. Changed(k, q) = build(c, dc[c], q, Requantized(c, q))
      BY <2>1 DEF Changed
    <3> QED
      BY <1>1, <1>3, <3>1, <3>2, BuildIsShown
  <2>2. CASE k.kind = "dc"
    <3>1. SclOf(k, q) = scl[c] /\ DcOf(k, q) = q /\ CodesOf(k, q) = codes[c]
      BY <2>2 DEF SclOf, DcOf, CodesOf
    <3>2. dc_val(c, q) \in Int /\ dc_val(c, dc[c]) \in Int
      BY <1>1, <1>2, <1>3, <3>1, DcValues
    <3> DEFINE sum == Sum(c, Levels(c, scl[c], codes[c]))
    <3>3. \A p \in Pixels : sum[p] \in Int
      BY <1>1, <1>2, LevelsType, SumAt
    <3>4. \A p \in Pixels : recon[c][p] = dc_val(c, dc[c]) + sum[p]
      BY <1>4 DEF Shown
    <3>5. Changed(k, q)
            = [p \in Pixels |-> recon[c][p] + (dc_val(c, q) - dc_val(c, dc[c]))]
      BY <2>2 DEF Changed
    <3>6. Shown(c, q, scl[c], codes[c]) = [p \in Pixels |-> dc_val(c, q) + sum[p]]
      BY DEF Shown
    <3> HIDE DEF sum
    <3>7. \A p \in Pixels : recon[c][p] + (dc_val(c, q) - dc_val(c, dc[c]))
                               = dc_val(c, q) + sum[p]
      BY <3>2, <3>3, <3>4
    <3> QED
      BY <3>1, <3>5, <3>6, <3>7
  <2>3. CASE k.kind = "ac"
    <3> DEFINE i == k.i
               s == scl[c]
               n == Len(Sel[c])
               old == Levels(c, s, codes[c])
               new == Levels(c, s, CodesOf(k, q))
    <3>1. SclOf(k, q) = s /\ DcOf(k, q) = dc[c] /\ CodesOf(k, q) = [codes[c] EXCEPT ![i] = q]
      BY <2>3 DEF SclOf, DcOf, CodesOf
    <3>2. i \in 1 .. n /\ n \in Nat
      BY <1>1, <2>3, GridAssumption, LenProperties DEF Coordinate
    <3>3. codes[c] \in Seq(0 .. MaxIdx) /\ Len(codes[c]) = n
      BY <1>2 DEF CodesFit
    <3>4. \A j \in 1 .. n : CodesOf(k, q)[j] = IF j = i THEN q ELSE codes[c][j]
      BY <3>1, <3>2, <3>3, ExceptSeq
    <3>5. /\ \A j \in 1 .. n : j # i => new[j] = old[j]
          /\ new[i] = ac_val(q, scale_val(s)) /\ old[i] = ac_val(codes[c][i], scale_val(s))
      BY <3>2, <3>4 DEF Levels
    <3>6. old \in [1 .. n -> Int] /\ new \in [1 .. n -> Int]
      BY <1>1, <1>2, <1>3, <3>1, LevelsType
    <3> HIDE DEF old, new
    <3>7. ASSUME NEW p \in Pixels
          PROVE  Sum(c, new)[p] = Sum(c, old)[p] + (new[i] - old[i]) * Basis[Sel[c][i]][p]
      <4> DEFINE f == Waves(c, old, p)
                 g == Waves(c, new, p)
      <4>1. /\ f \in [1 .. n -> Int] /\ g \in [1 .. n -> Int]
            /\ Sum(c, old)[p] = Total(f, n) /\ Sum(c, new)[p] = Total(g, n)
        BY <1>1, <3>6, SumAt
      <4>2. \A j \in 1 .. n : j # i => g[j] = f[j]
        BY <3>5 DEF Waves
      <4>3. g[i] = new[i] * Basis[Sel[c][i]][p] /\ f[i] = old[i] * Basis[Sel[c][i]][p]
        BY <3>2 DEF Waves
      <4>4. Basis[Sel[c][i]][p] \in Int /\ new[i] \in Int /\ old[i] \in Int
        <5>1. Sel[c][i] \in Freqs
          BY <1>1, <3>2, GridAssumption, LenProperties
        <5> QED
          BY <3>2, <3>6, <5>1, GridAssumption
      <4> HIDE DEF f, g
      <4>5. Total(g, n) = Total(f, n) + (g[i] - f[i])
        BY <3>2, <4>1, <4>2, TotalOfChanged
      <4>6. g[i] - f[i] = (new[i] - old[i]) * Basis[Sel[c][i]][p]
        BY <4>3, <4>4, Difference
      <4> QED
        BY <4>1, <4>5, <4>6
    <3>8. \A p \in Pixels : recon[c][p] = dc_val(c, dc[c]) + Sum(c, old)[p]
      BY <1>4 DEF Shown, old
    <3>9. Changed(k, q)
            = [p \in Pixels |-> recon[c][p] + (new[i] - old[i]) * Basis[Sel[c][i]][p]]
      BY <2>3, <3>5 DEF Changed, add_basis
    <3>10. Shown(c, dc[c], s, CodesOf(k, q))
             = [p \in Pixels |-> dc_val(c, dc[c]) + Sum(c, new)[p]]
      BY DEF Shown, new
    <3>11. ASSUME NEW p \in Pixels
           PROVE  recon[c][p] + (new[i] - old[i]) * Basis[Sel[c][i]][p]
                    = dc_val(c, dc[c]) + Sum(c, new)[p]
      <4>1. Sum(c, old)[p] \in Int /\ dc_val(c, dc[c]) \in Int
        <5>1. Sum(c, old)[p] \in Int
          BY <1>1, <3>6, SumAt
        <5>2. dc[c] \in Int
          BY <1>2
        <5> QED
          BY <1>1, <5>1, <5>2, DcValues
      <4>2. (new[i] - old[i]) * Basis[Sel[c][i]][p] \in Int
        <5>1. Sel[c][i] \in Freqs
          BY <1>1, <3>2, GridAssumption, LenProperties
        <5>2. Basis[Sel[c][i]][p] \in Int /\ new[i] - old[i] \in Int
          BY <3>2, <3>6, <5>1, GridAssumption
        <5> QED
          BY <5>2, ProductIsInt
      <4> QED
        BY <3>7, <3>8, <4>1, <4>2
    <3> QED
      BY <3>1, <3>9, <3>10, <3>11
  <2> QED
    BY <1>1, <2>1, <2>2, <2>3 DEF Kinds
<1>6. Shown(c, DcOf(k, q), SclOf(k, q), CodesOf(k, q)) \in [Pixels -> Int]
  BY <1>1, <1>3, ShownType
<1> QED
  BY <1>5, <1>6

-----------------------------------------------------------------------------
(* The choice at a coordinate.                                                 *)

\* The error with a coordinate changed.
ErrorOf(k, q) == sse([recon EXCEPT ![k.c] = Changed(k, q)])

LEMMA Trial ==
  ASSUME CodesInv, NEW k, Coordinate(in, k), NEW q, Fits(k, q)
  PROVE  /\ [recon EXCEPT ![k.c] = Changed(k, q)] \in [Channels -> [Pixels -> Int]]
         /\ ErrorOf(k, q) \in Nat
<1>1. ASSUME NEW c \in Channels PROVE recon[c] \in [Pixels -> Int]
  <2>1. recon[c] = Shown(c, dc[c], scl[c], codes[c])
    BY DEF CodesInv
  <2>2. dc[c] \in 0 .. DcMax /\ scl[c] \in 0 .. ScaleMax /\ CodesFit(c, codes[c])
    BY DEF CodesInv
  <2> QED
    BY <2>1, <2>2, ShownType
<1>2. recon \in [Channels -> [Pixels -> Int]]
  BY <1>1 DEF CodesInv
<1>3. [recon EXCEPT ![k.c] = Changed(k, q)] \in [Channels -> [Pixels -> Int]]
  BY <1>2, ChangedIs
<1>4. in \in Inputs /\ target = Target(in) /\ Height \in 0 .. Height
  BY GridAssumption DEF CodesInv
<1> QED
  BY <1>3, <1>4, RowsGrow DEF ErrorOf

LEMMA BestIsNat == ASSUME CodesInv PROVE best \in Nat
<1>1. recon \in [Channels -> [Pixels -> Int]]
  <2>1. \A c \in Channels : Shown(c, dc[c], scl[c], codes[c]) \in [Pixels -> Int]
    BY ShownType DEF CodesInv
  <2> QED
    BY <2>1 DEF CodesInv
<1>2. in \in Inputs /\ target = Target(in) /\ Height \in 0 .. Height
  BY GridAssumption DEF CodesInv
<1>3. sse(recon) \in Nat
  BY <1>1, <1>2, RowsGrow
<1> QED
  BY <1>3 DEF CodesInv

\* What a search at a coordinate may return: a code that fits and its error,
\* which is smaller, or nothing.
Choice(k) ==
  {r \in [moved : BOOLEAN, code : Int, err : Nat] :
     /\ r.moved => Fits(k, r.code) /\ r.err = ErrorOf(k, r.code) /\ r.err < best
     /\ ~ r.moved => r.err = best}

LEMMA PickIs ==
  ASSUME CodesInv, NEW k, Coordinate(in, k)
  PROVE  \E r \in Choice(k) : \A early \in BOOLEAN : Pick(k, early) = r
<1> DEFINE tried == Candidates(k)
           N == Len(tried)
           start == [moved |-> FALSE, code |-> Present(k), err |-> best]
           Step(j, acc) ==
             IF tried[j] # Present(k) /\ ErrorOf(k, tried[j]) < acc.err
             THEN [moved |-> TRUE, code |-> tried[j], err |-> ErrorOf(k, tried[j])] ELSE acc
           F == [y \in (1 .. N) \X Choice(k) |-> Step(y[1], y[2])]
<1>1. N \in Nat /\ \A j \in 1 .. N : Fits(k, tried[j])
  BY CandidatesFit
<1>2. \A j \in 1 .. N : tried[j] \in Int /\ ErrorOf(k, tried[j]) \in Nat
  <2>1. ASSUME NEW q, Fits(k, q) PROVE q \in Int
    <3>1. k.kind = "scale" \/ k.kind = "dc" \/ k.kind = "ac"
      BY DEF Coordinate, Kinds
    <3>2. \A n \in Nat : \A m \in 0 .. n : m \in Int
      OBVIOUS
    <3> QED
      BY <2>1, <3>1, <3>2, Constants DEF Fits
  <2> QED
    BY <1>1, <2>1, Trial
<1>3. best \in Nat /\ Present(k) \in Int
  <2>1. k.c \in Channels /\ k.kind \in Kinds
    BY DEF Coordinate
  <2>2. dc[k.c] \in Int /\ scl[k.c] \in Int /\ CodesFit(k.c, codes[k.c])
    BY <2>1 DEF CodesInv
  <2>3. k.kind = "ac" => codes[k.c][k.i] \in Int
    BY <2>1, <2>2, CodeInRange DEF Coordinate
  <2>4. Present(k) \in Int
    BY <2>1, <2>2, <2>3 DEF Present, Kinds
  <2> QED
    BY <2>4, BestIsNat
<1>4. start \in Choice(k)
  BY <1>3 DEF Choice
<1>5. ASSUME NEW j \in 1 .. N, NEW acc \in Choice(k) PROVE Step(j, acc) \in Choice(k)
  <2>1. CASE tried[j] # Present(k) /\ ErrorOf(k, tried[j]) < acc.err
    <3>1. acc.err \in Nat /\ acc.err <= best
      BY <1>3 DEF Choice
    <3>2. ErrorOf(k, tried[j]) < best
      BY <1>2, <1>3, <2>1, <3>1
    <3>3. [moved |-> TRUE, code |-> tried[j], err |-> ErrorOf(k, tried[j])] \in Choice(k)
      BY <1>1, <1>2, <3>2 DEF Choice
    <3> QED
      BY <2>1, <3>3
  <2>2. CASE ~ (tried[j] # Present(k) /\ ErrorOf(k, tried[j]) < acc.err)
    BY <2>2
  <2> QED
    BY <2>1, <2>2
<1>6. F \in [(1 .. N) \X Choice(k) -> Choice(k)]
  BY <1>5
<1> HIDE DEF F, start, tried
<1>7. PICK s \in [0 .. N -> Choice(k)] :
        s[0] = start /\ \A j \in 1 .. N : s[j] = F[<<j, s[j - 1]>>]
  <2>1. N \in Nat
    BY <1>1
  <2> HIDE DEF N, Step
  <2>2. Steps(F, N, Choice(k))
    BY <1>6 DEF Steps
  <2>3. \E s : Follows(s, F, N, Choice(k), start)
    BY <1>4, <2>1, <2>2, Recursion
  <2> QED
    BY <2>3 DEF Follows
<1>8. \A j \in 1 .. N : s[j - 1] \in Choice(k) /\ s[j] = Step(j, s[j - 1])
  <2> SUFFICES ASSUME NEW j \in 1 .. N PROVE s[j - 1] \in Choice(k) /\ s[j] = Step(j, s[j - 1])
    OBVIOUS
  <2>1. j - 1 \in 0 .. N
    BY <1>1
  <2>2. s[j - 1] \in Choice(k) /\ <<j, s[j - 1]>> \in (1 .. N) \X Choice(k)
    BY <1>7, <2>1
  <2>3. F[<<j, s[j - 1]>>] = Step(j, s[j - 1])
    <3> HIDE DEF Step
    <3> QED
      BY <2>2 DEF F
  <2> QED
    BY <1>7, <2>2, <2>3
<1>9. ASSUME NEW early \in BOOLEAN PROVE Pick(k, early) = s[N]
  <2> DEFINE e(j, acc) == Score([recon EXCEPT ![k.c] = Changed(k, tried[j])],
                                early /\ k.kind # "scale", acc.err)
             Next1(j, acc) == IF tried[j] # Present(k) /\ Wins(e(j, acc), acc.err)
                              THEN [moved |-> TRUE, code |-> tried[j], err |-> e(j, acc)] ELSE acc
             Chosen(t) == t = [n \in 0 .. N |-> IF n = 0 THEN start ELSE Next1(n, t[n - 1])]
             u == CHOOSE t : Chosen(t)
  <2>1. Pick(k, early) = u[N]
    BY DEF Pick, start, tried
  <2>2. ASSUME NEW j \in 1 .. N, NEW acc \in Choice(k) PROVE Next1(j, acc) = Step(j, acc)
    <3>1. acc.err \in Int /\ (early /\ k.kind # "scale") \in BOOLEAN
      BY DEF Choice
    <3>2. [recon EXCEPT ![k.c] = Changed(k, tried[j])] \in [Channels -> [Pixels -> Int]]
      BY <1>1, Trial
    <3>3. in \in Inputs /\ target = Target(in)
      BY DEF CodesInv
    <3>4. /\ e(j, acc) < acc.err <=> ErrorOf(k, tried[j]) < acc.err
          /\ e(j, acc) < acc.err => e(j, acc) = ErrorOf(k, tried[j])
      BY <3>1, <3>2, <3>3, ScoreIs DEF ErrorOf
    <3> HIDE DEF e
    <3> QED
      BY <3>4 DEF Wins
  <2> HIDE DEF Next1
  <2>3. Chosen(s)
    <3>1. s = [n \in 0 .. N |-> s[n]]
      BY <1>7
    <3>2. ASSUME NEW n \in 0 .. N PROVE s[n] = IF n = 0 THEN start ELSE Next1(n, s[n - 1])
      <4>1. CASE n = 0
        BY <1>7, <4>1
      <4>2. CASE n # 0
        <5>1. n \in 1 .. N
          BY <1>1, <4>2
        <5>2. s[n] = Step(n, s[n - 1]) /\ s[n - 1] \in Choice(k)
          BY <1>8, <5>1
        <5> HIDE DEF Step
        <5> QED
          BY <2>2, <4>2, <5>1, <5>2
      <4> QED
        BY <4>1, <4>2
    <3> QED
      BY <3>1, <3>2
  <2>4. Chosen(u)
    <3> HIDE DEF Chosen
    <3> QED
      BY <2>3
  <2>5. \A n \in 0 .. N : u[n] = IF n = 0 THEN start ELSE Next1(n, u[n - 1])
    <3> HIDE DEF u
    <3> QED
      BY <2>4
  <2>6. \A n \in 0 .. N : s[n] = IF n = 0 THEN start ELSE Next1(n, s[n - 1])
    <3> QED
      BY <2>3
  <2> HIDE DEF u, Chosen
  <2> DEFINE T == {n \in 0 .. N : u[n] # s[n]}
  <2>7. T = {}
    <3>1. SUFFICES ASSUME T # {} PROVE FALSE
      OBVIOUS
    <3>2. PICK m \in T : \A n \in T : m <= n
      BY <1>1, <3>1, LeastNumber, T \in SUBSET Nat
    <3>3. m # 0
      BY <2>5, <2>6, <3>2
    <3>4. m - 1 \in 0 .. N /\ ~ (m <= m - 1) /\ m \in 0 .. N
      BY <1>1, <3>2, <3>3
    <3>5. u[m - 1] = s[m - 1]
      BY <3>2, <3>4
    <3> QED
      BY <2>5, <2>6, <3>2, <3>3, <3>4, <3>5
  <2>8. N \in 0 .. N
    BY <1>1
  <2> QED
    BY <2>1, <2>7, <2>8
<1>10. s[N] \in Choice(k)
  BY <1>1, <1>7
<1> QED
  BY <1>9, <1>10

-----------------------------------------------------------------------------
(* The search.                                                                 *)

\* While a pass has gained nothing, the coordinates it has tried have nothing
\* better.
SearchInv ==
  /\ at \in 1 .. Len(Plan) + 1 /\ done \in BOOLEAN
  /\ passStart \in Int /\ best \in Int /\ best <= passStart
  /\ best = passStart => \A j \in 1 .. at - 1 : ~ Pick(Plan[j], FALSE).moved
  /\ done => at = Len(Plan) + 1 /\ (pass < RefinePasses => best = passStart)

Inv == CodesInv /\ SearchInv

LEMMA Begins == Init => Inv
<1> SUFFICES ASSUME Init PROVE Inv
  OBVIOUS
<1>1. in \in Inputs /\ target = Target(in) /\ dc \in [Channels -> 0 .. DcMax]
  BY DcFits DEF Init
<1>2. \A c \in Channels : scl[c] \in 0 .. ScaleMax /\ CodesFit(c, codes[c])
  BY QuantizedFits DEF Init
<1>3. /\ scl \in [Channels -> 0 .. ScaleMax] /\ codes = [c \in Channels |-> codes[c]]
      /\ in.shared => scl["b"] = scl["a"]
  BY <1>2, QuantizedFits DEF Init, Channels
<1>4. recon = [c \in Channels |-> Shown(c, dc[c], scl[c], codes[c])]
  <2>1. \A c \in Channels : build(c, dc[c], scl[c], codes[c]) = Shown(c, dc[c], scl[c], codes[c])
    BY <1>2, BuildIsShown
  <2>2. recon = [c \in Channels |-> build(c, dc[c], scl[c], codes[c])]
    BY DEF Init
  <2> QED
    BY <2>1, <2>2
<1>5. best = sse(recon)
  BY DEF Init
<1>6. CodesInv
  BY <1>1, <1>2, <1>3, <1>4, <1>5 DEF CodesInv
<1>7. Len(Plan) \in Nat
  BY <1>1, PlanIs DEF Plan
<1>8. best \in Int
  BY <1>6, BestIsNat
<1>9. SearchInv
  <2>1. at \in 1 .. Len(Plan) + 1 /\ passStart \in Int /\ best <= passStart
    BY <1>7, <1>8 DEF Init
  <2>2. \A j \in 1 .. at - 1 : FALSE
    BY DEF Init
  <2>3. done \in BOOLEAN /\ ~ done
    BY DEF Init
  <2> QED
    BY <1>8, <2>1, <2>2, <2>3 DEF SearchInv
<1> QED
  BY <1>6, <1>9 DEF Inv

\* A move keeps codes, pixels and error together, and lowers the error.
LEMMA Moved ==
  ASSUME Inv, ~ done, at <= Len(Plan), Pick(Here, in.earlyExit).moved,
         UNCHANGED <<in, target, passStart, done>>, at' = at + 1,
         dc' = [dc EXCEPT ![Here.c] = DcOf(Here, Pick(Here, in.earlyExit).code)],
         scl' = [scl EXCEPT ![Here.c] = SclOf(Here, Pick(Here, in.earlyExit).code)],
         codes' = [codes EXCEPT ![Here.c] = CodesOf(Here, Pick(Here, in.earlyExit).code)],
         Accept(Pick(Here, in.earlyExit))
  PROVE  Inv'
<1>1. PICK k : k = Here
  OBVIOUS
<1>2. PICK r : r = Pick(Here, in.earlyExit)
  OBVIOUS
<1>3. CodesInv /\ in \in Inputs /\ at \in 1 .. Len(Plan) /\ Len(Plan) \in Nat
  BY PlanIs DEF Inv, SearchInv, CodesInv, Plan
<1>4. Coordinate(in, k)
  BY <1>1, <1>3, PlanIs DEF Here, Plan
<1>5. in.earlyExit \in BOOLEAN
  BY <1>3, InputAssumption
<1>6. r \in Choice(k) /\ r.moved
  BY <1>1, <1>2, <1>3, <1>4, <1>5, PickIs
<1>7. Fits(k, r.code) /\ r.err = ErrorOf(k, r.code) /\ r.err < best /\ r.err \in Nat
  BY <1>6 DEF Choice
<1> DEFINE c == k.c
           q == r.code
<1>8. c \in Channels /\ (k.kind = "scale" => ~ in.shared)
  BY <1>4 DEF Coordinate
<1>9. /\ DcOf(k, q) \in 0 .. DcMax /\ SclOf(k, q) \in 0 .. ScaleMax
      /\ CodesFit(c, CodesOf(k, q))
      /\ Changed(k, q) = Shown(c, DcOf(k, q), SclOf(k, q), CodesOf(k, q))
  BY <1>3, <1>4, <1>7, NewCodesFit, ChangedIs
<1>10. PICK d, s, cc : d = DcOf(k, q) /\ s = SclOf(k, q) /\ cc = CodesOf(k, q)
  OBVIOUS
<1>11. /\ in' = in /\ target' = target
       /\ dc' = [dc EXCEPT ![c] = d] /\ scl' = [scl EXCEPT ![c] = s]
       /\ codes' = [codes EXCEPT ![c] = cc]
  BY <1>1, <1>2, <1>10
<1>12. recon' = [recon EXCEPT ![c] = Changed(k, q)] /\ best' = r.err
  BY <1>1, <1>2 DEF Accept
<1>13. recon' = [recon EXCEPT ![c] = Shown(c, d, s, cc)]
  BY <1>9, <1>10, <1>12
<1>14. /\ dc' \in [Channels -> 0 .. DcMax] /\ scl' \in [Channels -> 0 .. ScaleMax]
       /\ codes' = [e \in Channels |-> codes'[e]]
       /\ \A e \in Channels : CodesFit(e, codes'[e])
  <2>1. /\ dc \in [Channels -> 0 .. DcMax] /\ scl \in [Channels -> 0 .. ScaleMax]
        /\ codes = [e \in Channels |-> codes[e]] /\ \A e \in Channels : CodesFit(e, codes[e])
    BY <1>3 DEF CodesInv
  <2>2. d \in 0 .. DcMax /\ s \in 0 .. ScaleMax /\ CodesFit(c, cc)
    BY <1>9, <1>10
  <2>3. dc' \in [Channels -> 0 .. DcMax] /\ scl' \in [Channels -> 0 .. ScaleMax]
    <3>1. \A D : \A f \in [Channels -> D] : \A v \in D : [f EXCEPT ![c] = v] \in [Channels -> D]
      BY <1>8
    <3>2. [dc EXCEPT ![c] = d] \in [Channels -> 0 .. DcMax]
      BY <2>1, <2>2, <3>1
    <3>3. [scl EXCEPT ![c] = s] \in [Channels -> 0 .. ScaleMax]
      BY <2>1, <2>2, <3>1
    <3> QED
      BY <1>11, <3>2, <3>3
  <2>4. codes' = [e \in Channels |-> IF e = c THEN cc ELSE codes[e]]
    BY <1>8, <1>11, <2>1
  <2>5. \A e \in Channels : CodesFit(e, codes'[e])
    BY <2>1, <2>2, <2>4
  <2> QED
    BY <2>3, <2>4, <2>5
<1>15. in.shared => scl'["b"] = scl'["a"]
  <2>1. ASSUME in.shared PROVE scl' = scl
    <3>1. s = scl[c]
      BY <1>8, <1>10, <2>1 DEF SclOf
    <3> QED
      BY <1>3, <1>8, <1>11, <3>1 DEF CodesInv
  <2> QED
    BY <1>3, <2>1 DEF CodesInv
<1>16. recon' = [e \in Channels |-> Shown(e, dc'[e], scl'[e], codes'[e])]
  <2>1. /\ recon = [e \in Channels |-> Shown(e, dc[e], scl[e], codes[e])]
        /\ DOMAIN dc = Channels /\ DOMAIN scl = Channels /\ DOMAIN codes = Channels
    BY <1>3 DEF CodesInv
  <2>2. \A e \in Channels : recon'[e] = Shown(e, dc'[e], scl'[e], codes'[e])
    <3>1. recon'[c] = Shown(c, dc'[c], scl'[c], codes'[c])
      BY <1>8, <1>11, <1>13, <2>1
    <3>2. ASSUME NEW e \in Channels, e # c
          PROVE  recon'[e] = Shown(e, dc'[e], scl'[e], codes'[e])
      <4>1. dc'[e] = dc[e] /\ scl'[e] = scl[e] /\ codes'[e] = codes[e] /\ recon'[e] = recon[e]
        BY <1>11, <1>13, <2>1, <3>2
      <4> QED
        BY <2>1, <4>1
    <3> QED
      BY <3>1, <3>2
  <2>3. recon' = [e \in Channels |-> recon'[e]]
    BY <1>13, <2>1
  <2> QED
    BY <2>2, <2>3
<1>17. best' = sse(recon)'
  <2>1. best' = sse([recon EXCEPT ![c] = Changed(k, q)])
    BY <1>7, <1>12 DEF ErrorOf
  <2>2. PICK new : new = [recon EXCEPT ![c] = Changed(k, q)]
    OBVIOUS
  <2>3. sse(new)' = sse(new)
    BY <1>11 DEF sse, SseOfRows, RowSse
  <2> QED
    BY <1>12, <2>1, <2>2, <2>3
<1>18. target' = Target(in') /\ in' \in Inputs
  BY <1>3, <1>11 DEF CodesInv
<1>19. CodesInv'
  BY <1>14, <1>15, <1>16, <1>17, <1>18, <1>11 DEF CodesInv
<1>20. Len(Plan)' = Len(Plan)
  BY <1>11 DEF Plan
<1>21. SearchInv'
  <2>1. best' \in Int /\ best' < best /\ best <= passStart /\ passStart \in Int /\ best \in Int
    BY <1>7, <1>12 DEF Inv, SearchInv
  <2>2. best' < passStart' /\ best' <= passStart' /\ passStart' \in Int
    BY <2>1
  <2>3. at' \in 1 .. Len(Plan)' + 1
    BY <1>3, <1>20
  <2>4. done' \in BOOLEAN /\ ~ done'
    <3>1. done \in BOOLEAN /\ done' = done
      BY DEF Inv, SearchInv
    <3> QED
      BY <3>1
  <2>5. best' \in Int /\ best' # passStart'
    BY <2>1, <2>2
  <2> QED
    BY <2>2, <2>3, <2>4, <2>5 DEF SearchInv
<1> QED
  BY <1>19, <1>21 DEF Inv

LEMMA MovesKeep ==
  ASSUME Inv, NEW kind, Turn(kind), Pick(Here, in.earlyExit).moved,
         ScaleMove \/ DcMove \/ AcMove
  PROVE  Inv'
<1>1. PICK k, q : k = Here /\ q = Pick(Here, in.earlyExit).code
  OBVIOUS
<1>2. /\ Len(Plan) \in Nat /\ at \in 1 .. Len(Plan) /\ ~ done /\ in \in Inputs
      /\ dc \in [Channels -> 0 .. DcMax] /\ scl \in [Channels -> 0 .. ScaleMax]
      /\ codes = [c \in Channels |-> codes[c]]
  BY PlanIs DEF Inv, SearchInv, CodesInv, Turn, Plan
<1>3. Coordinate(in, k)
  BY <1>1, <1>2, PlanIs DEF Here, Plan
<1>4. k.c \in Channels
  BY <1>3 DEF Coordinate
<1>5. /\ [dc EXCEPT ![k.c] = dc[k.c]] = dc /\ [scl EXCEPT ![k.c] = scl[k.c]] = scl
      /\ [codes EXCEPT ![k.c] = codes[k.c]] = codes
  BY <1>2, <1>4
<1>6. CASE ScaleMove
  <2>1. k.kind = "scale"
    BY <1>1, <1>6 DEF ScaleMove, Turn
  <2>2. DcOf(k, q) = dc[k.c] /\ SclOf(k, q) = q /\ CodesOf(k, q) = Requantized(k.c, q)
    BY <2>1 DEF DcOf, SclOf, CodesOf
  <2>3. /\ dc' = [dc EXCEPT ![k.c] = DcOf(k, q)] /\ scl' = [scl EXCEPT ![k.c] = SclOf(k, q)]
        /\ codes' = [codes EXCEPT ![k.c] = CodesOf(k, q)]
    BY <1>1, <1>5, <1>6, <2>2 DEF ScaleMove
  <2> QED
    BY <1>1, <1>2, <1>6, <2>3, Moved DEF ScaleMove, Turn
<1>7. CASE DcMove
  <2>1. k.kind = "dc"
    BY <1>1, <1>7 DEF DcMove, Turn
  <2>2. DcOf(k, q) = q /\ SclOf(k, q) = scl[k.c] /\ CodesOf(k, q) = codes[k.c]
    BY <2>1 DEF DcOf, SclOf, CodesOf
  <2>3. /\ dc' = [dc EXCEPT ![k.c] = DcOf(k, q)] /\ scl' = [scl EXCEPT ![k.c] = SclOf(k, q)]
        /\ codes' = [codes EXCEPT ![k.c] = CodesOf(k, q)]
    BY <1>1, <1>5, <1>7, <2>2 DEF DcMove
  <2> QED
    BY <1>1, <1>2, <1>7, <2>3, Moved DEF DcMove, Turn
<1>8. CASE AcMove
  <2>1. k.kind = "ac"
    BY <1>1, <1>8 DEF AcMove, Turn
  <2>2. /\ DcOf(k, q) = dc[k.c] /\ SclOf(k, q) = scl[k.c]
        /\ CodesOf(k, q) = [codes[k.c] EXCEPT ![k.i] = q]
    BY <2>1 DEF DcOf, SclOf, CodesOf
  <2>3. codes' = [codes EXCEPT ![k.c] = [codes[k.c] EXCEPT ![k.i] = q]]
    BY <1>1, <1>8 DEF AcMove
  <2>4. /\ dc' = [dc EXCEPT ![k.c] = DcOf(k, q)] /\ scl' = [scl EXCEPT ![k.c] = SclOf(k, q)]
        /\ codes' = [codes EXCEPT ![k.c] = CodesOf(k, q)]
    BY <1>1, <1>5, <1>8, <2>2, <2>3 DEF AcMove
  <2> QED
    BY <1>1, <1>2, <1>8, <2>4, Moved DEF AcMove, Turn
<1> QED
  BY <1>6, <1>7, <1>8

LEMMA Goes == Inv /\ [Next]_vars => Inv'
<1> SUFFICES ASSUME Inv, [Next]_vars PROVE Inv'
  OBVIOUS
<1>1. Len(Plan) \in Nat /\ in \in Inputs /\ CodesInv /\ done \in BOOLEAN
  BY PlanIs DEF Inv, SearchInv, CodesInv, Plan
<1>2. ASSUME UNCHANGED <<in, target, dc, scl, codes, recon, best>> PROVE CodesInv'
  <2>1. sse(recon)' = sse(recon)
    BY <1>2 DEF sse, SseOfRows, RowSse
  <2> QED
    BY <1>1, <1>2, <2>1 DEF CodesInv
<1>3. ASSUME UNCHANGED <<in, target, dc, scl, codes, recon, best>>
      PROVE  Plan' = Plan /\ \A k : Pick(k, FALSE)' = Pick(k, FALSE)
  <2>1. Plan' = Plan
    BY <1>3 DEF Plan
  <2>2. ASSUME NEW k PROVE Pick(k, FALSE)' = Pick(k, FALSE)
    <3>1. /\ in' = in /\ target' = target /\ dc' = dc /\ scl' = scl /\ codes' = codes
          /\ recon' = recon /\ best' = best
      BY <1>3
    <3> QED
      BY <3>1 DEF Pick, Candidates, Present, Changed, Requantized, Score, Stops, SseOfRows,
                  RowSse, add_basis
  <2> QED
    BY <2>1, <2>2
<1>4. CASE ScaleMove
  BY <1>4, MovesKeep DEF ScaleMove
<1>5. CASE DcMove
  BY <1>5, MovesKeep DEF DcMove
<1>6. CASE AcMove
  BY <1>6, MovesKeep DEF AcMove
<1>7. CASE Keep
  <2>1. /\ CodesInv' /\ Plan' = Plan /\ \A k : Pick(k, FALSE)' = Pick(k, FALSE)
        /\ UNCHANGED <<in, target, dc, scl, codes, recon, best, passStart, done>>
        /\ at' = at + 1 /\ at <= Len(Plan) /\ ~ done /\ ~ Pick(Here, in.earlyExit).moved
    BY <1>2, <1>3, <1>7 DEF Keep
  <2>2. at \in 1 .. Len(Plan)
    BY <1>1, <2>1 DEF Inv, SearchInv
  <2>3. ~ Pick(Plan[at], FALSE).moved
    <3>1. Coordinate(in, Plan[at]) /\ in.earlyExit \in BOOLEAN
      BY <1>1, <2>2, PlanIs, InputAssumption DEF Plan
    <3> QED
      BY <1>1, <2>1, <3>1, PickIs DEF Here
  <2>4. ASSUME best = passStart, NEW j \in 1 .. at' - 1 PROVE ~ Pick(Plan[j], FALSE).moved
    <3>1. CASE j = at
      BY <2>3, <3>1
    <3>2. CASE j # at
      <4>1. j \in 1 .. at - 1
        BY <2>1, <2>2, <3>2
      <4> QED
        BY <2>4, <4>1 DEF Inv, SearchInv
    <3> QED
      BY <3>1, <3>2
  <2>5. best' = passStart' => \A j \in 1 .. at' - 1 : ~ Pick(Plan[j], FALSE)'.moved
    BY <2>1, <2>4
  <2>6. at' \in 1 .. Len(Plan) + 1
    BY <1>1, <2>1, <2>2
  <2>7. passStart' \in Int /\ best' \in Int /\ best' <= passStart'
    BY <2>1 DEF Inv, SearchInv
  <2>8. done' \in BOOLEAN /\ ~ done'
    BY <1>1, <2>1
  <2>9. SearchInv'
    BY <2>1, <2>5, <2>6, <2>7, <2>8 DEF SearchInv
  <2> QED
    BY <2>1, <2>9 DEF Inv
<1>8. CASE NextPass
  <2>1. CodesInv' /\ Plan' = Plan /\ at' = 1 /\ passStart' = best /\ best' = best
        /\ done' = done /\ ~ done
    BY <1>2, <1>3, <1>8 DEF NextPass
  <2>2. best \in Int
    BY DEF Inv, SearchInv
  <2>3. \A j \in 1 .. at' - 1 : FALSE
    BY <2>1
  <2>4. at' \in 1 .. Len(Plan)' + 1 /\ passStart' \in Int /\ best' \in Int /\ best' <= passStart'
    BY <1>1, <2>1, <2>2
  <2>5. done' \in BOOLEAN /\ ~ done'
    BY <1>1, <2>1
  <2>6. SearchInv'
    BY <2>3, <2>4, <2>5 DEF SearchInv
  <2> QED
    BY <2>1, <2>6 DEF Inv
<1>9. CASE Finish
  <2>1. /\ CodesInv' /\ Plan' = Plan /\ \A k : Pick(k, FALSE)' = Pick(k, FALSE)
        /\ UNCHANGED <<best, pass, passStart, at>> /\ done' = TRUE
    BY <1>2, <1>3, <1>9 DEF Finish
  <2>2. at = Len(Plan) + 1
    BY <1>1, <1>9 DEF Finish, Inv, SearchInv
  <2>3. pass < RefinePasses => best = passStart
    <3>1. ~ (RefinePasses < RefinePasses)
      BY CodeAssumption
    <3> QED
      BY <1>9, <3>1 DEF Finish, Stalled, Inv, SearchInv
  <2>4. best = passStart => \A j \in 1 .. at - 1 : ~ Pick(Plan[j], FALSE).moved
    BY DEF Inv, SearchInv
  <2>5. best' = passStart' => \A j \in 1 .. at' - 1 : ~ Pick(Plan[j], FALSE)'.moved
    BY <2>1, <2>4
  <2>6. at' \in 1 .. Len(Plan)' + 1 /\ passStart' \in Int /\ best' \in Int /\ best' <= passStart'
    BY <1>1, <2>1, <2>2 DEF Inv, SearchInv
  <2>7. done' \in BOOLEAN
    BY <2>1
  <2>8. at' = Len(Plan)' + 1 /\ (pass' < RefinePasses => best' = passStart')
    BY <2>1, <2>2, <2>3
  <2>9. SearchInv'
    BY <2>1, <2>5, <2>6, <2>7, <2>8 DEF SearchInv
  <2> QED
    BY <2>1, <2>9 DEF Inv
<1>10. CASE UNCHANGED vars
  <2>1. /\ CodesInv' /\ Plan' = Plan /\ \A k : Pick(k, FALSE)' = Pick(k, FALSE)
        /\ UNCHANGED <<best, pass, passStart, at, done>>
    BY <1>2, <1>3, <1>10 DEF vars
  <2>2. SearchInv
    BY DEF Inv
  <2>3. SearchInv'
    BY <2>1, <2>2 DEF SearchInv
  <2> QED
    BY <2>1, <2>3 DEF Inv
<1>11. CASE Refined
  BY <1>10, <1>11 DEF Refined
<1> QED
  BY <1>4, <1>5, <1>6, <1>7, <1>8, <1>9, <1>10, <1>11 DEF Next

LEMMA Holds == Spec => []Inv
BY Begins, Goes, PTL DEF Spec

\* At every point of every refinement, the pixels the search keeps are those that
\* a decoder of the codes shows, the error it compares with is theirs in full,
\* and the early exit of the sum leaves the choice of a code what it would be.
THEOREM ScoresAreDecoded == Spec => []ScoredIsDecoded
<1>1. Inv => ScoredIsDecoded
  <2> SUFFICES ASSUME Inv PROVE ScoredIsDecoded
    OBVIOUS
  <2>1. CodesInv
    BY DEF Inv
  <2>2. ASSUME NEW c \in Channels PROVE recon[c] = Decode(c)
    <3>1. scl[c] \in 0 .. ScaleMax /\ CodesFit(c, codes[c])
          /\ (in.shared => scl["b"] = scl["a"])
      BY <2>1 DEF CodesInv
    <3>2. recon[c] = Shown(c, dc[c], scl[c], codes[c])
      BY <2>1 DEF CodesInv
    <3> QED
      BY <3>1, <3>2, DecodeIsShown
  <2>3. best = sse(recon)
    BY <2>1 DEF CodesInv
  <2>4. ASSUME at <= Len(Plan) PROVE Pick(Here, TRUE) = Pick(Here, FALSE)
    <3>1. Len(Plan) \in Nat /\ in \in Inputs
      BY <2>1, PlanIs DEF CodesInv, Plan
    <3>2. at \in 1 .. Len(Plan)
      BY <2>4, <3>1 DEF Inv, SearchInv
    <3>3. Coordinate(in, Here)
      BY <3>1, <3>2, PlanIs DEF Here, Plan
    <3> QED
      BY <2>1, <3>3, PickIs
  <2> QED
    BY <2>2, <2>3, <2>4 DEF ScoredIsDecoded
<1> QED
  BY <1>1, Holds, PTL

\* A refinement that ends before its last pass returns codes that no change of a
\* single coordinate would make better.
THEOREM SearchEndsAtOptimum == Spec => []EndsAtOptimum
<1>1. Inv => EndsAtOptimum
  <2> SUFFICES ASSUME Inv, done, pass < RefinePasses, NEW k \in 1 .. Len(Plan)
               PROVE  ~ Pick(Plan[k], FALSE).moved
    BY DEF EndsAtOptimum
  <2>1. Len(Plan) \in Nat
    BY PlanIs DEF Inv, CodesInv, Plan
  <2>2. at = Len(Plan) + 1 /\ best = passStart
    BY DEF Inv, SearchInv
  <2>3. k \in 1 .. at - 1
    BY <2>1, <2>2
  <2> QED
    BY <2>2, <2>3 DEF Inv, SearchInv
<1> QED
  BY <1>1, Holds, PTL
=============================================================================
