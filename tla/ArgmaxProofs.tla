----------------------------- MODULE ArgmaxProofs ----------------------------
(***************************************************************************)
(* Proofs about the argmax stage, for every set of scores.                 *)
(***************************************************************************)
EXTENDS ArgmaxUnit, TLAPS

(* Word is a set of integers with 0 in it; there are three classes.        *)
LEMMA ScoreFacts ==
    /\ Word \subseteq Int
    /\ 0 \in Word
    /\ Class = {0, 1, 2}
  BY WordAssumption, ScoreAssumption DEF Class

(* A class no other class beats or equals from above is the one that       *)
(* MaxIndex chooses.                                                       *)
LEMMA MaxIndexUnique ==
    ASSUME NEW data \in Scores, NEW i \in Class,
           \A j \in Class : data[j] <= data[i] /\ (j > i => data[j] < data[i])
    PROVE  MaxIndex(data) = i
<1> DEFINE Largest(k) == \A j \in Class : /\ data[j] <= data[k]
                                          /\ j > k => data[j] < data[k]
<1>1. Largest(i)
  OBVIOUS
<1>2. \A k \in Class : data[k] \in Int /\ k \in Int
  <2>1. ASSUME NEW k \in Class PROVE data[k] \in Word
    BY DEF Scores
  <2>2. Class \subseteq Int
    BY DEF Class
  <2> QED
    BY <2>1, <2>2, ScoreFacts
<1>3. ASSUME NEW k \in Class, Largest(k) PROVE k = i
  <2>1. data[k] <= data[i] /\ data[i] <= data[k]
    BY <1>1, <1>3
  <2>2. (k > i => data[k] < data[i]) /\ (i > k => data[i] < data[k])
    BY <1>1, <1>3
  <2> QED
    BY <1>2, <2>1, <2>2
<1>4. MaxIndex(data) = CHOOSE k \in Class : Largest(k)
  BY DEF MaxIndex
<1> HIDE DEF Largest
<1> QED
  BY <1>1, <1>3, <1>4

(* What one scan over the scores computes.                                 *)
LEMMA ScanResult ==
    ASSUME NEW data \in Scores, max_val_reg \in Word, max_idx_reg \in Class
    PROVE  /\ Scan(data).val = Larger(max_val_reg, Top(data))
           /\ Scan(data).val \in Word
           /\ Scan(data).idx \in Class
           /\ Top(data) >= max_val_reg => Scan(data).idx = MaxIndex(data)
<1> DEFINE best0 == [val |-> max_val_reg, idx |-> max_idx_reg]
           best1 == Consider(best0, 0, data[0])
           best2 == Consider(best1, 1, data[1])
           best3 == Consider(best2, 2, data[2])
<1>1. Word \subseteq Int /\ Class = {0, 1, 2}
      /\ data[0] \in Word /\ data[1] \in Word /\ data[2] \in Word
  BY ScoreFacts DEF Scores
<1>2. Scan(data) = best3
  BY DEF Scan
<1>3. best1 = IF data[0] >= max_val_reg THEN [val |-> data[0], idx |-> 0]
              ELSE [val |-> max_val_reg, idx |-> max_idx_reg]
  BY DEF Consider
<1>4. best2 = IF data[1] >= best1.val THEN [val |-> data[1], idx |-> 1] ELSE best1
  BY DEF Consider
<1>5. best3 = IF data[2] >= best2.val THEN [val |-> data[2], idx |-> 2] ELSE best2
  BY DEF Consider
<1> HIDE DEF best1, best2, best3
<1> DEFINE s0 == data[0]
           s1 == data[1]
           s2 == data[2]
           v == max_val_reg
<1>6. s0 \in Int /\ s1 \in Int /\ s2 \in Int /\ v \in Int
  BY <1>1
<1>7. /\ best1.val = IF s0 >= v THEN s0 ELSE v
      /\ best1.idx = IF s0 >= v THEN 0 ELSE max_idx_reg
  BY <1>3
<1>8. /\ best2.val = IF s1 >= best1.val THEN s1 ELSE best1.val
      /\ best2.idx = IF s1 >= best1.val THEN 1 ELSE best1.idx
  BY <1>4
<1>9. /\ best3.val = IF s2 >= best2.val THEN s2 ELSE best2.val
      /\ best3.idx = IF s2 >= best2.val THEN 2 ELSE best2.idx
  BY <1>5
<1>10. Top(data) = Larger(s0, Larger(s1, s2))
  BY DEF Top
<1>11. s0 \in Word /\ s1 \in Word /\ s2 \in Word /\ v \in Word
  BY <1>1
<1> HIDE DEF s0, s1, s2, v
<1>12. best3.val = Larger(v, Top(data))
  BY <1>6, <1>7, <1>8, <1>9, <1>10 DEF Larger
<1>13. best3.val \in Word
  BY <1>7, <1>8, <1>9, <1>11
<1>14. best3.idx \in Class
  BY <1>1, <1>7, <1>8, <1>9
<1>15. ASSUME Top(data) >= v PROVE best3.idx = MaxIndex(data)
  <2>1. CASE s2 >= s0 /\ s2 >= s1
    <3>1. best3.idx = 2
      BY <1>6, <1>7, <1>8, <1>9, <1>10, <1>15, <2>1 DEF Larger
    <3>2. \A j \in Class : data[j] <= data[2] /\ (j > 2 => data[j] < data[2])
      BY <1>1, <1>6, <2>1 DEF s0, s1, s2
    <3> QED
      BY <1>1, <3>1, <3>2, MaxIndexUnique
  <2>2. CASE s1 >= s0 /\ s1 > s2
    <3>1. best3.idx = 1
      BY <1>6, <1>7, <1>8, <1>9, <1>10, <1>15, <2>2 DEF Larger
    <3>2. \A j \in Class : data[j] <= data[1] /\ (j > 1 => data[j] < data[1])
      BY <1>1, <1>6, <2>2 DEF s0, s1, s2
    <3> QED
      BY <1>1, <3>1, <3>2, MaxIndexUnique
  <2>3. CASE s0 > s1 /\ s0 > s2
    <3>1. best3.idx = 0
      BY <1>6, <1>7, <1>8, <1>9, <1>10, <1>15, <2>3 DEF Larger
    <3>2. \A j \in Class : data[j] <= data[0] /\ (j > 0 => data[j] < data[0])
      BY <1>1, <1>6, <2>3 DEF s0, s1, s2
    <3> QED
      BY <1>1, <3>1, <3>2, MaxIndexUnique
  <2> QED
    BY <1>6, <2>1, <2>2, <2>3
<1> QED
  BY <1>2, <1>12, <1>13, <1>14, <1>15 DEF v

-----------------------------------------------------------------------------
Inv ==
    /\ TypeOK
    /\ KeepsPeak
    /\ BestVectorWins

(* The three invariants together are inductive: that the register holds    *)
(* the best score so far is what BestVectorWins needs in the next step.    *)
THEOREM ArgmaxInvariance == Spec => []Inv
<1>1. Init => Inv
  BY ScoreFacts DEF Init, ArgmaxInit, Inv, TypeOK, ArgmaxTypeOK, KeepsPeak,
                    BestVectorWins
<1>2. Inv /\ [Next]_vars => Inv'
  <2> SUFFICES ASSUME Inv, [Next]_vars PROVE Inv'
    OBVIOUS
  <2>1. ASSUME Reset PROVE Inv'
    BY <2>1, ScoreFacts DEF Reset, ArgmaxReset, Inv, TypeOK, ArgmaxTypeOK,
                            KeepsPeak, BestVectorWins
  <2>2. ASSUME NEW data \in Scores, Clock(TRUE, data) PROVE Inv'
    <3>1. max_val_reg \in Word /\ max_idx_reg \in Class /\ peak = max_val_reg
      BY DEF Inv, TypeOK, ArgmaxTypeOK, KeepsPeak
    <3>2. /\ max_val_reg' = Scan(data).val
          /\ max_idx_reg' = Scan(data).idx
          /\ last' = {data}
          /\ earlier' = max_val_reg
          /\ peak' = Larger(max_val_reg, Top(data))
      BY <2>2, <3>1 DEF Clock, ArgmaxEdge
    <3>3. /\ Scan(data).val = Larger(max_val_reg, Top(data))
          /\ Scan(data).val \in Word
          /\ Scan(data).idx \in Class
          /\ Top(data) >= max_val_reg => Scan(data).idx = MaxIndex(data)
      BY <3>1, ScanResult
    <3>4. TypeOK' /\ KeepsPeak'
      BY <3>1, <3>2, <3>3 DEF TypeOK, ArgmaxTypeOK, KeepsPeak
    <3>5. BestVectorWins'
      <4> SUFFICES ASSUME Top(data) >= max_val_reg
                   PROVE  max_idx_reg' = MaxIndex(data)
        BY <3>2 DEF BestVectorWins
      <4> QED
        BY <3>2, <3>3
    <3> QED
      BY <3>4, <3>5 DEF Inv
  <2>3. ASSUME NEW data \in Scores, Clock(FALSE, data) PROVE Inv'
    BY <2>3 DEF Clock, ArgmaxEdge, argmaxVars, Inv, TypeOK, ArgmaxTypeOK,
                KeepsPeak, BestVectorWins
  <2>4. CASE UNCHANGED vars
    BY <2>4 DEF vars, argmaxVars, Inv, TypeOK, ArgmaxTypeOK, KeepsPeak,
                BestVectorWins
  <2> QED
    BY <2>1, <2>2, <2>3, <2>4 DEF Next
<1> QED
  BY <1>1, <1>2, PTL DEF Spec

(* The class of the best vector since reset, for any scores.               *)
THEOREM BestVectorsWin == Spec => []BestVectorWins
<1>1. Inv => BestVectorWins
  BY DEF Inv
<1> QED
  BY <1>1, ArgmaxInvariance, PTL

(* The score in the register is the best one since reset, for any scores.  *)
THEOREM PeaksAreKept == Spec => []KeepsPeak
<1>1. Inv => KeepsPeak
  BY DEF Inv
<1> QED
  BY <1>1, ArgmaxInvariance, PTL
=============================================================================
