--------------------------- MODULE RingIndexProofs ---------------------------
(***************************************************************************)
(* What the users of RingIndex rely on: how a step of an index changes its *)
(* distance to another one, and that two indices less than a ring apart    *)
(* have different slots, on both sides of the wrap.                        *)
(***************************************************************************)
EXTENDS RingIndex, TLAPS

-----------------------------------------------------------------------------
(* Division with remainder.                                                *)

(* an integer is its quotient times the divisor plus its remainder         *)
LEMMA DivMod ==
  ASSUME NEW a \in Int, NEW S \in Nat \ {0}
  PROVE  /\ a % S \in 0 .. S - 1
         /\ a = S * (a \div S) + (a % S)
         /\ a \div S \in Int
OBVIOUS

(* a positive multiple is at least the number itself                       *)
LEMMA MulGe ==
  ASSUME NEW S \in Nat \ {0}, NEW d \in Int, d >= 1
  PROVE  S * d >= S
OBVIOUS

(* multiplication distributes over addition                                *)
LEMMA Distr ==
  ASSUME NEW S \in Int, NEW q \in Int, NEW m \in Int
  PROVE  S * (q + m) = S * q + S * m
OBVIOUS

(* two different numbers with the same remainder are a divisor apart       *)
LEMMA Far ==
  ASSUME NEW S \in Nat \ {0}, NEW a \in Int, NEW b \in Int,
         a % S = b % S, a > b
  PROVE  a - b >= S
<1> DEFINE qa == a \div S
           qb == b \div S
<1>1. a = S * qa + (a % S) /\ qa \in Int BY DivMod
<1>2. b = S * qb + (b % S) /\ qb \in Int BY DivMod
<1>3. a % S \in Int BY DivMod
<1> HIDE DEF qa, qb
<1>4. a - b = S * (qa - qb) BY <1>1, <1>2, <1>3
<1>5. CASE qa - qb >= 1
  <2>1. S * (qa - qb) >= S BY <1>5, <1>1, <1>2, MulGe
  <2> QED BY <2>1, <1>4
<1>6. CASE qa - qb <= 0
  <2>1. S * (qa - qb) <= 0 BY <1>6, <1>1, <1>2
  <2> QED BY <2>1, <1>4
<1> QED BY <1>1, <1>2, <1>5, <1>6

(* the remainder is determined by the number                               *)
LEMMA Unique ==
  ASSUME NEW S \in Nat \ {0}, NEW k \in Int, NEW l \in Int,
         NEW r \in 0 .. S - 1, NEW x \in 0 .. S - 1,
         S * k + r = S * l + x
  PROVE  r = x
<1>1. S * (k - l) = x - r OBVIOUS
<1>2. CASE k - l >= 1
  <2>1. S * (k - l) >= S BY <1>2, MulGe
  <2> QED BY <2>1, <1>1
<1>3. CASE l - k >= 1
  <2>1. S * (l - k) >= S BY <1>3, MulGe
  <2>2. S * (l - k) = r - x OBVIOUS
  <2> QED BY <2>1, <2>2
<1>4. CASE k = l BY <1>4, <1>1
<1> QED BY <1>2, <1>3, <1>4

(* adding a multiple of the divisor does not change the remainder          *)
LEMMA Shift ==
  ASSUME NEW S \in Nat \ {0}, NEW a \in Int, NEW M \in Nat, M % S = 0
  PROVE  (a + M) % S = a % S
<1>1. PICK q \in Int, r \in 0 .. S - 1 : a = S * q + r /\ r = a % S BY DivMod
<1>2. PICK m \in Int : M = S * m
  <2>1. M \in Int OBVIOUS
  <2>2. M = S * (M \div S) + (M % S) /\ M \div S \in Int BY <2>1, DivMod
  <2>3. S * (M \div S) \in Int BY <2>2
  <2>4. M = S * (M \div S) BY <2>2, <2>3
  <2> QED BY <2>2, <2>4
<1>3. PICK k \in Int, x \in 0 .. S - 1 : a + M = S * k + x /\ x = (a + M) % S
  BY DivMod, a + M \in Int
<1>4. S * (q + m) = S * q + S * m BY Distr
<1>5. S * q \in Int /\ S * m \in Int /\ S * k \in Int /\ S * (q + m) \in Int
  OBVIOUS
<1>6. S * (q + m) + r = S * k + x BY <1>1, <1>2, <1>3, <1>4, <1>5
<1>7. q + m \in Int OBVIOUS
<1>8. r = x BY <1>6, <1>7, Unique
<1> QED BY <1>1, <1>3, <1>8

-----------------------------------------------------------------------------
(* The indices.                                                            *)

(* every operation on indices stays in range                               *)
LEMMA IndexTypes ==
  ASSUME NEW i \in Indices, NEW j \in Indices
  PROVE  /\ WrapInc(i) \in Indices
         /\ WrapDec(i) \in Indices
         /\ Ahead(i, j) \in Indices
         /\ Mask(i) \in Slots
         /\ 0 \in Indices
<1>1. Mask(i) \in Slots
  <2>1. i \in Int BY IndexModAssumption DEF Indices
  <2> QED BY <2>1, DivMod, SizeAssumption DEF Mask, Slots
<1> QED BY <1>1, SizeAssumption, IndexModAssumption
        DEF WrapInc, WrapDec, Ahead, Indices

(* a distance is a number                                                  *)
LEMMA AheadNat ==
  ASSUME NEW i \in Indices, NEW j \in Indices
  PROVE  Ahead(i, j) \in Nat
BY IndexModAssumption DEF Ahead, Indices

(* only equal indices have no distance                                     *)
LEMMA AheadZero ==
  ASSUME NEW i \in Indices, NEW j \in Indices
  PROVE  Ahead(i, j) = 0 <=> i = j
BY IndexModAssumption DEF Ahead, Indices

(* wrapping_add(1) on the first index: one further ahead                   *)
LEMMA AheadInc ==
  ASSUME NEW i \in Indices, NEW j \in Indices, Ahead(i, j) < IndexMod - 1
  PROVE  Ahead(WrapInc(i), j) = Ahead(i, j) + 1
BY IndexModAssumption DEF Ahead, Indices, WrapInc

(* wrapping_add(1) on the second index: one closer                         *)
LEMMA AheadIncSecond ==
  ASSUME NEW i \in Indices, NEW j \in Indices, i # j
  PROVE  Ahead(i, WrapInc(j)) = Ahead(i, j) - 1
BY IndexModAssumption DEF Ahead, Indices, WrapInc

(* wrapping_sub(1) on the first index: one less ahead                      *)
LEMMA AheadDec ==
  ASSUME NEW i \in Indices, NEW j \in Indices, i # j
  PROVE  Ahead(WrapDec(i), j) = Ahead(i, j) - 1
BY IndexModAssumption DEF Ahead, Indices, WrapDec

(* distances to a common base order the indices                            *)
LEMMA AheadSub ==
  ASSUME NEW i \in Indices, NEW j \in Indices, NEW b \in Indices,
         Ahead(j, b) <= Ahead(i, b)
  PROVE  Ahead(i, j) = Ahead(i, b) - Ahead(j, b)
BY IndexModAssumption DEF Ahead, Indices

(* two indices less than a ring apart never share a slot                   *)
LEMMA MasksDiffer ==
  ASSUME NEW i \in Indices, NEW j \in Indices,
         i # j, Ahead(i, j) < Size
  PROVE  Mask(i) # Mask(j)
<1> SUFFICES ASSUME Mask(i) = Mask(j) PROVE FALSE
  OBVIOUS
<1>0. i \in Int /\ j \in Int /\ Size \in Nat \ {0} /\ IndexMod \in Nat
  BY SizeAssumption, IndexModAssumption DEF Indices
<1>1. CASE i > j
  <2>1. i - j >= Size BY <1>0, <1>1, Far DEF Mask
  <2> QED BY <1>0, <1>1, <2>1 DEF Ahead
<1>2. CASE j > i
  <2> DEFINE k == i + IndexMod
  <2>1. k % Size = j % Size
    BY <1>0, Shift, IndexModAssumption DEF Mask
  <2>2. k \in Int /\ k > j
    BY <1>0, IndexModAssumption DEF Indices
  <2>3. k - j >= Size
    <3> HIDE DEF k
    <3> QED BY <1>0, <2>1, <2>2, Far
  <2> QED BY <1>0, <1>2, <2>3 DEF Ahead
<1> QED BY <1>0, <1>1, <1>2
=============================================================================
