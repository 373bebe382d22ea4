--------------------------- MODULE ModularArithmetic -------------------------
(***************************************************************************)
(* Facts about multiplication and remainder that the proofs about counters *)
(* and addresses of fixed width rest on.                                   *)
(***************************************************************************)
EXTENDS Integers, TLAPS, WellFoundedInduction

(* Induction over the naturals, for a set.                                 *)
LEMMA SetInduction ==
    ASSUME NEW T \in SUBSET Nat, 0 \in T, \A n \in T : n + 1 \in T
    PROVE  T = Nat
<1> DEFINE Rest == Nat \ T
<1>1. SUFFICES ASSUME Rest # {} PROVE FALSE
  OBVIOUS
<1>2. PICK x \in Rest : \A y \in Rest : ~(<<y, x>> \in OpToRel(<, Nat))
  BY <1>1, WFMin, NatLessThanWellFounded, Zenon
<1>3. \A y \in Rest : ~(y < x)
  BY <1>2 DEF OpToRel
<1>4. x # 0 /\ x - 1 \in Nat /\ x - 1 < x
  OBVIOUS
<1>5. x - 1 \in T
  BY <1>3, <1>4
<1> QED
  BY <1>4, <1>5

(* The product of two naturals is a natural.                               *)
LEMMA ProductNat ==
    ASSUME NEW a \in Nat, NEW b \in Nat
    PROVE  a * b \in Nat
  BY SMT

(* A multiple grows with its factor.                                       *)
LEMMA ProductMonotone ==
    ASSUME NEW a \in Nat, NEW b \in Nat, NEW m \in Nat, a <= b
    PROVE  a * m <= b * m
<1>1. PICK d \in Nat : b = a + d
  BY SMT
<1>2. b * m = a * m + d * m
  BY <1>1, SMT
<1>3. d * m \in Nat /\ a * m \in Nat
  BY ProductNat
<1> QED
  BY <1>2, <1>3, SMT

(* Quotient and remainder, the defining property.                          *)
LEMMA DivMod ==
    ASSUME NEW x \in Nat, NEW m \in Nat \ {0}
    PROVE  /\ x \div m \in Nat
           /\ x % m \in 0 .. m - 1
           /\ x = (x \div m) * m + (x % m)
  BY SMT

(* Quotient and remainder are unique.                                      *)
LEMMA ModUnique ==
    ASSUME NEW x \in Nat, NEW m \in Nat \ {0}, NEW q \in Nat, NEW r \in 0 .. m - 1,
           x = q * m + r
    PROVE  x % m = r /\ x \div m = q
<1> DEFINE p == x \div m
           s == x % m
<1>1. p \in Nat /\ s \in 0 .. m - 1 /\ x = p * m + s
  BY DivMod
<1> HIDE DEF p, s
<1>2. p * m \in Nat /\ q * m \in Nat
  BY <1>1, ProductNat
<1>3. ~(p + 1 <= q)
  <2> SUFFICES ASSUME p + 1 <= q PROVE FALSE
    OBVIOUS
  <2>1. (p + 1) * m <= q * m
    BY <1>1, ProductMonotone, SMT
  <2>2. (p + 1) * m = p * m + m
    BY <1>1, SMT
  <2> QED
    BY <1>1, <1>2, <2>1, <2>2, SMT
<1>4. ~(q + 1 <= p)
  <2> SUFFICES ASSUME q + 1 <= p PROVE FALSE
    OBVIOUS
  <2>1. (q + 1) * m <= p * m
    BY <1>1, ProductMonotone, SMT
  <2>2. (q + 1) * m = q * m + m
    BY SMT
  <2> QED
    BY <1>1, <1>2, <2>1, <2>2, SMT
<1>5. p = q
  BY <1>1, <1>3, <1>4, SMT
<1>6. s = r
  BY <1>1, <1>2, <1>5, SMT
<1> QED
  BY <1>5, <1>6 DEF p, s

(* A number below the modulus is its own remainder.                        *)
LEMMA ModSmall ==
    ASSUME NEW m \in Nat \ {0}, NEW x \in 0 .. m - 1
    PROVE  x % m = x
<1>1. x = 0 * m + x
  BY SMT
<1> QED
  BY <1>1, ModUnique, SMT

(* The modulus may be added or left out.                                   *)
LEMMA ModPlusModulus ==
    ASSUME NEW m \in Nat \ {0}, NEW x \in 0 .. m - 1
    PROVE  (x + m) % m = x
<1>1. x + m = 1 * m + x
  BY SMT
<1> QED
  BY <1>1, ModUnique, SMT

(* Reducing before adding changes nothing.                                 *)
LEMMA ModAdd ==
    ASSUME NEW m \in Nat \ {0}, NEW x \in Nat, NEW y \in Nat
    PROVE  ((x % m) + y) % m = (x + y) % m
<1> DEFINE p == x \div m
           s == x % m
           q == (s + y) \div m
           r == (s + y) % m
<1>1. p \in Nat /\ s \in 0 .. m - 1 /\ x = p * m + s
  BY DivMod
<1>2. s + y \in Nat
  BY <1>1, SMT
<1>3. q \in Nat /\ r \in 0 .. m - 1 /\ s + y = q * m + r
  BY <1>2, DivMod
<1> HIDE DEF p, s, q, r
<1>4. x + y = (p + q) * m + r
  <2>1. (p + q) * m = p * m + q * m
    BY <1>1, <1>3, SMT
  <2>2. p * m \in Nat /\ q * m \in Nat
    BY <1>1, <1>3, ProductNat
  <2> QED
    BY <1>1, <1>3, <2>1, <2>2, SMT
<1>5. x + y \in Nat /\ p + q \in Nat
  BY <1>1, <1>3, SMT
<1>6. (x + y) % m = r
  BY <1>3, <1>4, <1>5, ModUnique
<1> QED
  BY <1>6 DEF r, s

(* Position b in window k of n windows of m words: it is before the end,   *)
(* and it is the last one exactly at the end of the last window.           *)
LEMMA WindowPosition ==
    ASSUME NEW m \in Nat \ {0}, NEW n \in Nat, NEW k \in Nat, k < n,
           NEW b \in 0 .. m - 1
    PROVE  /\ k * m + b \in Nat
           /\ n * m \in Nat
           /\ k * m + b < n * m
           /\ k * m + b = n * m - 1 <=> k + 1 = n /\ b = m - 1
           /\ (k + 1) * m = k * m + m
<1>1. (k + 1) * m = k * m + m /\ (k + 2) * m = k * m + m + m
  BY SMT
<1>2. k * m \in Nat /\ n * m \in Nat
  BY ProductNat
<1>3. (k + 1) * m <= n * m
  BY ProductMonotone, SMT
<1>4. CASE k + 1 = n
  BY <1>1, <1>2, <1>4, SMT
<1>5. CASE k + 1 # n
  <2>1. (k + 2) * m <= n * m
    BY <1>5, ProductMonotone, SMT
  <2> QED
    BY <1>1, <1>2, <1>5, <2>1, SMT
<1> QED
  BY <1>4, <1>5

-----------------------------------------------------------------------------
(* The same for integers.                                                  *)
LEMMA IntDivMod ==
    ASSUME NEW x \in Int, NEW m \in Nat \ {0}
    PROVE  /\ x \div m \in Int
           /\ x % m \in 0 .. m - 1
           /\ x = (x \div m) * m + (x % m)
  BY SMT

(* A multiple of m closer to 0 than m is 0.                                *)
LEMMA SmallMultiple ==
    ASSUME NEW k \in Int, NEW m \in Nat \ {0}, -m < k * m, k * m < m
    PROVE  k = 0
<1>1. CASE k > 0
  <2>1. k \in Nat /\ 1 \in Nat /\ 1 <= k
    BY <1>1
  <2>2. 1 * m <= k * m
    BY <2>1, ProductMonotone
  <2> QED
    BY <2>2, SMT
<1>2. CASE k < 0
  <2>1. -k \in Nat /\ 1 \in Nat /\ 1 <= -k
    BY <1>2
  <2>2. 1 * m <= (-k) * m
    BY <2>1, ProductMonotone
  <2> QED
    BY <2>2, SMT
<1> QED
  BY <1>1, <1>2

(* Quotient and remainder of an integer are unique.                        *)
LEMMA IntModUnique ==
    ASSUME NEW x \in Int, NEW m \in Nat \ {0}, NEW q \in Int, NEW r \in 0 .. m - 1,
           x = q * m + r
    PROVE  x % m = r /\ x \div m = q
<1> DEFINE p == x \div m
           s == x % m
<1>1. p \in Int /\ s \in 0 .. m - 1 /\ x = p * m + s
  BY IntDivMod
<1> HIDE DEF p, s
<1>2. (p - q) * m = r - s
  BY <1>1, SMT
<1>3. p - q \in Int /\ -m < (p - q) * m /\ (p - q) * m < m
  BY <1>1, <1>2, SMT
<1>4. p - q = 0
  BY <1>3, SmallMultiple
<1> QED
  BY <1>1, <1>2, <1>4, SMT DEF p, s
=============================================================================
