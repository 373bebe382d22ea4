----------------------- MODULE MultiplyAccumulateProofs ----------------------
(***************************************************************************)
(* Proofs about the datapath's arithmetic, for every width.  The invariant *)
(* is that the accumulator differs from the exact sum by a multiple of its *)
(* range; a sum that fits it is therefore exact, whatever the partial sums *)
(* did.                                                                    *)
(***************************************************************************)
EXTENDS MultiplyAccumulate, ModularArithmetic, FiniteSetTheorems

(* The widths, with the products named.                                    *)
LEMMA Widths ==
    /\ 2 * Half * Half \in Nat \ {0}
    /\ DoubleMod \in Nat \ {0}
    /\ DoubleMod = 2 * Half * Half + 2 * Half * Half
    /\ Half * Scale \in Nat
    /\ Half * Scale <= 2 * Half * Half
<1>1. Half \in Nat \ {0} /\ Scale \in Nat \ {0} /\ Scale <= 2 * Half
      /\ DoubleMod = 4 * Half * Half
  BY FixedPointAssumption
<1>2. Half * Half \in Nat /\ 1 * Half <= Half * Half
  <2>1. 1 \in Nat /\ Half \in Nat /\ 1 <= Half
    BY <1>1
  <2> QED
    BY <2>1, ProductNat, ProductMonotone
<1>3. Scale * Half \in Nat /\ Scale * Half <= (2 * Half) * Half
  <2>1. 2 * Half \in Nat
    BY <1>1
  <2> QED
    BY <1>1, <2>1, ProductNat, ProductMonotone
<1> QED
  BY <1>1, <1>2, <1>3, SMT

(* Signed subtracts a multiple of the range and lands in it.               *)
LEMMA SignedCongruent ==
    ASSUME NEW x \in Int
    PROVE  Signed(x) \in Double /\ \E k \in Int : x = Signed(x) + k * DoubleMod
<1> DEFINE m == 2 * Half * Half
           q == (x + m) \div DoubleMod
           r == (x + m) % DoubleMod
<1>1. m \in Nat \ {0} /\ DoubleMod \in Nat \ {0} /\ DoubleMod = m + m
  BY Widths
<1>2. Signed(x) = r - m
  BY DEF Signed
<1>3. Double = -m .. m - 1
  BY DEF Double
<1>4. q \in Int /\ r \in 0 .. DoubleMod - 1 /\ x + m = q * DoubleMod + r
  <2> HIDE DEF m
  <2>1. x + m \in Int
    BY <1>1
  <2> QED
    BY <1>1, <2>1, IntDivMod
<1> HIDE DEF m, q, r
<1>5. Signed(x) \in Double
  BY <1>1, <1>2, <1>3, <1>4
<1>6. x = Signed(x) + q * DoubleMod
  BY <1>1, <1>2, <1>4, SMT
<1> QED
  BY <1>4, <1>5, <1>6

(* Narrow keeps the sign and returns a word.                               *)
LEMMA NarrowKeepsSign ==
    ASSUME NEW x \in Int
    PROVE  Narrow(x) \in Word /\ (Narrow(x) < 0 <=> x < 0)
<1>1. Half \in Nat \ {0} /\ Scale \in Nat \ {0} /\ Word = -Half .. Half - 1
  BY FixedPointAssumption
<1>2. x \div Scale \in Int
  BY <1>1, IntDivMod
<1>3. (x \div Scale) % Half \in 0 .. Half - 1
  BY <1>1, <1>2, IntDivMod
<1> QED
  BY <1>1, <1>3 DEF Narrow

(* Narrow is exact on what fits.                                           *)
LEMMA NarrowExact ==
    ASSUME NEW x \in Int, -(Half * Scale) <= x, x < Half * Scale
    PROVE  Narrow(x) = x \div Scale
<1> DEFINE q == x \div Scale
           r == x % Scale
<1>1. Half \in Nat \ {0} /\ Scale \in Nat \ {0}
  BY FixedPointAssumption
<1>2. q \in Int /\ r \in 0 .. Scale - 1 /\ x = q * Scale + r
  BY <1>1, IntDivMod
<1>3. Narrow(x) = (q % Half) - (IF x < 0 THEN Half ELSE 0)
  BY DEF Narrow
<1> HIDE DEF q, r
<1>4. CASE x >= 0
  <2>1. q >= 0
    <3> SUFFICES ASSUME q < 0 PROVE FALSE
      BY <1>2
    <3>1. -q \in Nat /\ 1 <= -q /\ 1 \in Nat /\ Scale \in Nat
      BY <1>1, <1>2
    <3>2. 1 * Scale <= (-q) * Scale
      BY <3>1, ProductMonotone
    <3> QED
      BY <1>1, <1>2, <1>4, <3>2, SMT
  <2>2. q < Half
    <3> SUFFICES ASSUME q >= Half PROVE FALSE
      BY <1>1, <1>2
    <3>1. Half * Scale <= q * Scale
      BY <1>1, <1>2, <2>1, ProductMonotone
    <3> QED
      BY <1>1, <1>2, <3>1, SMT
  <2>3. q % Half = q
    BY <1>1, <1>2, <2>1, <2>2, ModSmall
  <2> QED
    BY <1>2, <1>3, <1>4, <2>3 DEF q
<1>5. CASE x < 0
  <2>1. q < 0
    <3> SUFFICES ASSUME q >= 0 PROVE FALSE
      BY <1>2
    <3>1. q * Scale \in Nat
      BY <1>1, <1>2, ProductNat
    <3> QED
      BY <1>1, <1>2, <1>5, <3>1, SMT
  <2>2. -Half <= q
    <3> SUFFICES ASSUME q < -Half PROVE FALSE
      BY <1>1, <1>2
    <3>1. Half + 1 \in Nat /\ -q \in Nat /\ Half + 1 <= -q /\ Scale \in Nat
      BY <1>1, <1>2
    <3>2. (Half + 1) * Scale <= (-q) * Scale
      BY <3>1, ProductMonotone
    <3> QED
      BY <1>1, <1>2, <3>2, SMT
  <2>3. q + Half \in 0 .. Half - 1 /\ q = (-1) * Half + (q + Half)
    BY <1>1, <1>2, <2>1, <2>2
  <2>4. q % Half = q + Half
    BY <1>1, <1>2, <2>3, IntModUnique
  <2> QED
    BY <1>1, <1>2, <1>3, <1>5, <2>4 DEF q
<1> QED
  BY <1>4, <1>5

-----------------------------------------------------------------------------
Congruent == \E k \in Int : exact = sum + k * DoubleMod

Inv ==
    /\ i \in 0 .. Terms
    /\ sum \in Double
    /\ exact \in Int
    /\ Congruent

(* The accumulator is the exact sum up to a multiple of its range, after   *)
(* every product (conv_filter.vhd:36-40, neuron.vhd:27-30).                *)
THEOREM AccumulatorModular == Spec => []Inv
<1>1. Init => Inv
  <2> SUFFICES ASSUME Init PROVE Inv
    OBVIOUS
  <2>1. sum \in Double /\ Double \subseteq Int
    BY LoopAssumption, Widths DEF Init, Double
  <2>2. exact = sum + 0 * DoubleMod
    BY <2>1, Widths DEF Init
  <2> QED
    BY <2>1, <2>2, LoopAssumption DEF Init, Inv, Congruent
<1>2. Inv /\ [Next]_vars => Inv'
  <2> SUFFICES ASSUME Inv, [Next]_vars PROVE Inv'
    OBVIOUS
  <2>1. ASSUME NEW x \in Word, NEW y \in Word, AddProduct(x, y) PROVE Inv'
    <3>1. x * y \in Int /\ sum \in Int /\ DoubleMod \in Int
      <4>1. Word \subseteq Int
        BY FixedPointAssumption
      <4>2. Double \subseteq Int
        BY Widths DEF Double
      <4> QED
        BY <4>1, <4>2, Widths DEF Inv
    <3> DEFINE p == x * y
    <3>2. sum' = Signed(sum + p) /\ exact' = exact + p /\ i' = i + 1 /\ i < Terms
      BY <2>1 DEF AddProduct, MulAdd
    <3> HIDE DEF p
    <3>3. p \in Int
      BY <3>1 DEF p
    <3>4. sum + p \in Int
      BY <3>1, <3>3
    <3>5. PICK j \in Int : sum + p = sum' + j * DoubleMod
      BY <3>2, <3>4, SignedCongruent
    <3>6. PICK k \in Int : exact = sum + k * DoubleMod
      BY DEF Inv, Congruent
    <3>7. sum' \in Double
      BY <3>2, <3>4, SignedCongruent
    <3>8. sum' \in Int
      BY <3>7, Widths DEF Double
    <3>9. exact' = sum' + (j + k) * DoubleMod
      BY <3>1, <3>2, <3>3, <3>5, <3>6, <3>8, SMT
    <3>10. i' \in 0 .. Terms
      BY <3>2, LoopAssumption DEF Inv
    <3>11. exact' \in Int
      BY <3>2, <3>3 DEF Inv
    <3> QED
      BY <3>7, <3>9, <3>10, <3>11 DEF Inv, Congruent
  <2>2. CASE UNCHANGED vars
    BY <2>2 DEF vars, Inv, Congruent
  <2> QED
    BY <2>1, <2>2 DEF Next
<1> QED
  BY <1>1, <1>2, PTL DEF Spec

(* A sum that fits the accumulator is in it.                               *)
LEMMA ExactSum ==
    ASSUME Inv, exact \in Double
    PROVE  sum = exact
<1>1. PICK k \in Int : exact = sum + k * DoubleMod
  BY DEF Inv, Congruent
<1>2. sum \in Int /\ exact - sum = k * DoubleMod
      /\ -DoubleMod < k * DoubleMod /\ k * DoubleMod < DoubleMod
  <2> DEFINE m == 2 * Half * Half
             p == k * DoubleMod
  <2>1. m \in Nat /\ DoubleMod = m + m /\ Double = -m .. m - 1
    BY Widths DEF Double
  <2>2. p \in Int
    BY <2>1
  <2> HIDE DEF m, p
  <2>3. exact = sum + p
    BY <1>1 DEF p
  <2>4. sum \in Double
    BY DEF Inv
  <2>5. sum \in Int /\ exact - sum = p /\ -DoubleMod < p /\ p < DoubleMod
    BY <2>1, <2>2, <2>3, <2>4
  <2> QED
    BY <2>5 DEF p
<1>3. k = 0
  BY <1>2, Widths, SmallMultiple
<1> QED
  BY <1>1, <1>2, <1>3, Widths, SMT

(* Sums that fit come out exact, whatever the partial sums did.            *)
THEOREM SumsThatFitAreExact == Spec => []ExactIfItFits
<1>1. Inv => ExactIfItFits
  <2> SUFFICES ASSUME Inv, exact \in -(Half * Scale) .. Half * Scale - 1
               PROVE  Result = exact \div Scale
    BY DEF ExactIfItFits
  <2>1. exact \in Int /\ -(Half * Scale) <= exact /\ exact < Half * Scale
    BY Widths DEF Inv
  <2>2. exact \in Double
    BY <2>1, Widths DEF Double
  <2>3. sum = exact
    BY <2>2, ExactSum
  <2> QED
    BY <2>1, <2>3, NarrowExact DEF Result
<1> QED
  BY <1>1, AccumulatorModular, PTL

(* The sign survives whenever the sum fits the accumulator.                *)
THEOREM SignsSurvive == Spec => []SignSurvives
<1>1. Inv => SignSurvives
  <2> SUFFICES ASSUME Inv, exact \in Double
               PROVE  /\ Result < 0 <=> exact < 0
                      /\ exact < 0 => ReLU(Result) = 0
    BY DEF SignSurvives
  <2>1. sum = exact /\ exact \in Int
    BY ExactSum DEF Inv
  <2>2. Result \in Word /\ (Result < 0 <=> exact < 0)
    BY <2>1, NarrowKeepsSign DEF Result
  <2>3. Word \subseteq Int
    BY FixedPointAssumption
  <2> QED
    BY <2>2, <2>3 DEF ReLU
<1> QED
  BY <1>1, AccumulatorModular, PTL

(* The accumulator and the result never leave their types.                 *)
THEOREM MacTypeCorrect == Spec => []TypeOK
<1>1. Inv => TypeOK
  <2> SUFFICES ASSUME Inv PROVE TypeOK
    OBVIOUS
  <2>1. sum \in Int
    BY Widths DEF Inv, Double
  <2>2. Result \in Word
    BY <2>1, NarrowKeepsSign DEF Result
  <2> QED
    BY <2>2 DEF Inv, TypeOK
<1> QED
  BY <1>1, AccumulatorModular, PTL
-----------------------------------------------------------------------------
(***************************************************************************)
(* The accumulation over whole vectors.                                    *)
(***************************************************************************)
\* The sum in unbounded integers.
Exact(start, xs, ys) ==
    LET words == Cardinality(DOMAIN xs)
        part[k \in 0 .. words] ==
            IF k = 0 THEN start ELSE part[k - 1] + xs[k - 1] * ys[k - 1]
    IN  part[words]

\* f and g are the sums after each of the first n turns.
Sums(f, n, start, xs, ys) ==
    f = [k \in 0 .. n |-> IF k = 0 THEN start
                          ELSE MulAdd(f[k - 1], xs[k - 1], ys[k - 1])]
ExactSums(g, n, start, xs, ys) ==
    g = [k \in 0 .. n |-> IF k = 0 THEN start
                          ELSE g[k - 1] + xs[k - 1] * ys[k - 1]]

(* There are such functions.                                               *)
LEMMA SumsExist ==
    ASSUME NEW start, NEW xs, NEW ys, NEW n \in Nat
    PROVE  \E f, g : Sums(f, n, start, xs, ys) /\ ExactSums(g, n, start, xs, ys)
<1> DEFINE T == {m \in Nat : \E f, g : /\ Sums(f, m, start, xs, ys)
                                       /\ ExactSums(g, m, start, xs, ys)}
<1>1. 0 \in T
  <2> DEFINE f == [k \in 0 .. 0 |-> start]
  <2>1. Sums(f, 0, start, xs, ys) /\ ExactSums(f, 0, start, xs, ys)
    BY DEF Sums, ExactSums
  <2> QED
    BY <2>1
<1>2. ASSUME NEW m \in T PROVE m + 1 \in T
  <2>1. PICK f, g : Sums(f, m, start, xs, ys) /\ ExactSums(g, m, start, xs, ys)
    OBVIOUS
  <2> DEFINE f1 == [k \in 0 .. m + 1 |-> IF k = m + 1 THEN MulAdd(f[m], xs[m], ys[m])
                                         ELSE f[k]]
             g1 == [k \in 0 .. m + 1 |-> IF k = m + 1 THEN g[m] + xs[m] * ys[m]
                                         ELSE g[k]]
  <2>2. \A k \in 0 .. m : f1[k] = f[k] /\ g1[k] = g[k]
    OBVIOUS
  <2>3. ASSUME NEW k \in 0 .. m + 1
        PROVE  /\ f1[k] = IF k = 0 THEN start ELSE MulAdd(f1[k - 1], xs[k - 1], ys[k - 1])
               /\ g1[k] = IF k = 0 THEN start ELSE g1[k - 1] + xs[k - 1] * ys[k - 1]
    <3>1. CASE k = m + 1
      BY <2>2, <3>1
    <3>2. CASE k # m + 1
      <4>1. k \in 0 .. m /\ (k # 0 => k - 1 \in 0 .. m)
        BY <3>2
      <4>2. /\ f[k] = IF k = 0 THEN start ELSE MulAdd(f[k - 1], xs[k - 1], ys[k - 1])
            /\ g[k] = IF k = 0 THEN start ELSE g[k - 1] + xs[k - 1] * ys[k - 1]
        BY <2>1, <4>1 DEF Sums, ExactSums
      <4> HIDE DEF f1, g1
      <4> QED
        BY <2>2, <4>1, <4>2
    <3> QED
      BY <3>1, <3>2
  <2>4. Sums(f1, m + 1, start, xs, ys) /\ ExactSums(g1, m + 1, start, xs, ys)
    BY <2>3 DEF Sums, ExactSums
  <2> HIDE DEF f1, g1
  <2> QED
    BY <2>4
<1>3. T = Nat
  BY <1>1, <1>2, SetInduction
<1> QED
  BY <1>3

(* What the two definitions by recursion are.                              *)
LEMMA SumsOfVectors ==
    ASSUME NEW start, NEW n \in Nat, NEW xs, DOMAIN xs = 0 .. n - 1, NEW ys
    PROVE  \E f, g : /\ Sums(f, n, start, xs, ys) /\ ExactSums(g, n, start, xs, ys)
                     /\ Accumulate(start, xs, ys) = f[n]
                     /\ Exact(start, xs, ys) = g[n]
<1>1. Cardinality(DOMAIN xs) = n
  <2>1. 0 \in Int /\ n - 1 \in Int
    OBVIOUS
  <2> QED
    BY <2>1, FS_Interval
<1> DEFINE f == CHOOSE f : Sums(f, n, start, xs, ys)
           g == CHOOSE g : ExactSums(g, n, start, xs, ys)
<1>2. Accumulate(start, xs, ys) = f[n] /\ Exact(start, xs, ys) = g[n]
  BY <1>1 DEF Accumulate, Exact, Sums, ExactSums
<1>3. Sums(f, n, start, xs, ys) /\ ExactSums(g, n, start, xs, ys)
  BY SumsExist
<1> QED
  BY <1>2, <1>3

Vectors(n) == [0 .. n - 1 -> Word]

(* The machine's sum of products is a 32-bit word, and differs from the    *)
(* exact one by a multiple of the accumulator's range.                     *)
LEMMA SumsAreModular ==
    ASSUME NEW start \in Double, NEW n \in Nat, NEW xs \in Vectors(n), NEW ys \in Vectors(n)
    PROVE  /\ Accumulate(start, xs, ys) \in Double
           /\ Exact(start, xs, ys) \in Int
           /\ \E k \in Int : Exact(start, xs, ys)
                                = Accumulate(start, xs, ys) + k * DoubleMod
<1>1. PICK f, g : /\ Sums(f, n, start, xs, ys) /\ ExactSums(g, n, start, xs, ys)
                  /\ Accumulate(start, xs, ys) = f[n]
                  /\ Exact(start, xs, ys) = g[n]
  BY SumsOfVectors DEF Vectors
<1> DEFINE Modular(i0) == /\ f[i0] \in Double /\ g[i0] \in Int
                          /\ \E k \in Int : g[i0] = f[i0] + k * DoubleMod
           T == {m \in Nat : m \in 0 .. n => Modular(m)}
<1>2. Double \subseteq Int /\ DoubleMod \in Int /\ Word \subseteq Int
  BY Widths, FixedPointAssumption DEF Double
<1>3. 0 \in T
  <2>1. f[0] = start /\ g[0] = start
    BY <1>1 DEF Sums, ExactSums
  <2>2. start = start + 0 * DoubleMod /\ start \in Int
    BY <1>2
  <2>3. \E k \in Int : g[0] = f[0] + k * DoubleMod
    BY <2>1, <2>2
  <2> QED
    BY <2>1, <2>2, <2>3
<1>4. ASSUME NEW m \in T PROVE m + 1 \in T
  <2> SUFFICES ASSUME m + 1 \in 0 .. n PROVE Modular(m + 1)
    OBVIOUS
  <2>1. m \in Nat /\ m \in 0 .. n - 1 /\ f[m] \in Double /\ g[m] \in Int
    OBVIOUS
  <2>2. PICK k \in Int : g[m] = f[m] + k * DoubleMod
    OBVIOUS
  <2> HIDE DEF T
  <2> DEFINE p == xs[m] * ys[m]
  <2>3. f[m + 1] = Signed(f[m] + p) /\ g[m + 1] = g[m] + p
    BY <1>1, <2>1 DEF Sums, ExactSums, MulAdd
  <2>4. p \in Int
    <3>1. xs[m] \in Word /\ ys[m] \in Word
      BY <2>1 DEF Vectors
    <3>2. xs[m] \in Int /\ ys[m] \in Int
      BY <1>2, <3>1, Zenon
    <3> QED
      BY <3>2
  <2> HIDE DEF p
  <2>5. f[m] \in Int /\ f[m] + p \in Int
    <3>1. f[m] \in Int
      BY <1>2, <2>1, Zenon
    <3> QED
      BY <2>4, <3>1
  <2>6. PICK j \in Int : f[m] + p = Signed(f[m] + p) + j * DoubleMod
    BY <2>5, SignedCongruent
  <2>7. f[m + 1] \in Double
    BY <2>3, <2>5, SignedCongruent
  <2>8. g[m + 1] = f[m + 1] + (j + k) * DoubleMod
    <3> DEFINE d == DoubleMod
               s == Signed(f[m] + p)
    <3>1. d \in Int /\ s \in Int
      BY <1>2, <2>3, <2>7
    <3>2. g[m] = f[m] + k * d /\ f[m] + p = s + j * d
      BY <2>2, <2>6
    <3> HIDE DEF d, s
    <3>3. (j + k) * d = j * d + k * d /\ j * d \in Int /\ k * d \in Int
      BY <3>1
    <3>4. g[m] + p = s + (j + k) * d
      BY <2>1, <2>4, <2>5, <3>1, <3>2, <3>3
    <3> QED
      BY <2>3, <3>4 DEF d, s
  <2>9. g[m + 1] \in Int
    BY <2>1, <2>3, <2>4
  <2> QED
    BY <2>7, <2>8, <2>9
<1>5. T = Nat
  <2> HIDE DEF Modular
  <2> QED
    BY <1>3, <1>4, SetInduction
<1>6. Modular(n)
  BY <1>5
<1> QED
  BY <1>1, <1>6

(* A sum of products that fits the Q7.8 range comes out as its value       *)
(* rounded down, for every pair of vectors of any length and whatever the  *)
(* partial sums did on the way (conv_filter.vhd:36-42, neuron.vhd:27-31).  *)
THEOREM DotProductsThatFitAreExact ==
    ASSUME NEW start \in Double, NEW n \in Nat, NEW xs \in Vectors(n), NEW ys \in Vectors(n),
           Exact(start, xs, ys) \in -(Half * Scale) .. Half * Scale - 1
    PROVE  Narrow(Accumulate(start, xs, ys)) = Exact(start, xs, ys) \div Scale
<1> DEFINE a == Accumulate(start, xs, ys)
           e == Exact(start, xs, ys)
           m == 2 * Half * Half
           l == Half * Scale
<1>1. a \in Double /\ e \in Int /\ \E k \in Int : e = a + k * DoubleMod
  BY SumsAreModular
<1>2. l \in Nat /\ m \in Nat /\ l <= m /\ DoubleMod = m + m /\ Double = -m .. m - 1
  BY Widths DEF Double
<1>3. e \in -l .. l - 1
  OBVIOUS
<1> HIDE DEF a, e, m, l
<1>4. PICK k \in Int : e = a + k * DoubleMod
  BY <1>1
<1>5. k = 0
  <2> DEFINE p == k * DoubleMod
  <2>1. p \in Int
    BY <1>2
  <2>2. e = a + p
    BY <1>4
  <2> HIDE DEF p
  <2>3. a \in Int
    BY <1>1, <1>2
  <2>4. -DoubleMod < p /\ p < DoubleMod
    BY <1>1, <1>2, <1>3, <2>1, <2>2, <2>3
  <2> QED
    BY <2>4, Widths, SmallMultiple DEF p
<1>6. a = e
  BY <1>1, <1>2, <1>4, <1>5
<1>7. -(Half * Scale) <= e /\ e < Half * Scale
  BY <1>2, <1>3 DEF l
<1>8. Narrow(e) = e \div Scale
  BY <1>1, <1>7, NarrowExact
<1> QED
  BY <1>6, <1>8 DEF a, e

(* The outputs of the filter and of a neuron are words.                    *)
LEMMA DotProductType ==
    ASSUME NEW n \in Nat, NEW xs \in Vectors(n), NEW ys \in Vectors(n)
    PROVE  /\ \A bias \in Double : ConvFilter(xs, bias, ys) \in Word
           /\ Neuron(ys, xs) \in Word
<1>1. \A bias \in Double : Narrow(Accumulate(bias, xs, ys)) \in Word
  <2>1. \A bias \in Double : Accumulate(bias, xs, ys) \in Int
    BY SumsAreModular, Widths DEF Double
  <2> QED
    BY <2>1, NarrowKeepsSign
<1>2. 0 \in Double
  BY Widths DEF Double
<1> QED
  BY <1>1, <1>2 DEF ConvFilter, Neuron
=============================================================================
