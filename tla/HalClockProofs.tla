--------------------------- MODULE HalClockProofs ---------------------------
(***************************************************************************)
(* The alarms of Hal, for every width of the tick counter, every set of    *)
(* alarms and every delay shorter than a turn of the counter.              *)
(*                                                                         *)
(* The invariant says what an alarm's time and flag mean: it is due        *)
(* remaining ticks from now, in this turn of the counter when the flag is  *)
(* clear and in the next one when it is set.  alt_tick clears flags while  *)
(* it goes through the list, so it is the flag as it will be that counts.  *)
(* What alt_tick has done with, or goes by because it has been led astray, *)
(* is told apart by the place of its pointer on the list.                  *)
(***************************************************************************)
EXTENDS HalFileProofs, ModularArithmetic, SequenceTheorems

Distinct(s) == \A i, j \in DOMAIN s : s[i] = s[j] => i = j

Elements(s) == {s[i] : i \in DOMAIN s}

\* The elements of s from p on.
Behind(s, p) == {s[i] : i \in {k \in DOMAIN s : p \in Elements(s) /\ Place(s, p) <= k}}

\* The elements of s from place k on.
Rest(s, k) == {s[i] : i \in {j \in DOMAIN s : k <= j}}

\* Alarm a is due in remaining[a] ticks.
DueIn(a, flag) ==
    \/ /\ nticks + remaining[a] < Wrap
       /\ time[a] = nticks + remaining[a]
       /\ ~flag
    \/ /\ nticks + remaining[a] >= Wrap
       /\ time[a] = nticks + remaining[a] - Wrap
       /\ flag

\* Where alt_tick goes next.
Pointer == IF calling THEN next ELSE alarm

\* The alarms on the list, and those alt_tick may be at although they are not.
Known == Listed \cup ({alarm, next} \ {ListHead})

\* Nothing is left for a tick to do with a.
DoneWith(a) == remaining[a] > 0 /\ (rollover[a] => nticks # 0)

ClockInv ==
    /\ ClockTypeOK
    /\ Distinct(alarms)
    /\ ~ticking => alarm = ListHead /\ ~calling
    /\ ~calling => next = ListHead
    /\ calling => alarm # ListHead /\ (rollover[alarm] => nticks # 0)
    /\ \A a \in Known : DueIn(a, Rollover(a))
    /\ \A a \in Listed : a \in ToCome \/ Astray \/ DoneWith(a)

(***************************************************************************)
(* Sequences without repetition.                                           *)
(***************************************************************************)
LEMMA PlaceOf ==
  ASSUME NEW S, NEW s \in Seq(S), Distinct(s), NEW p \in 1 .. Len(s)
  PROVE  Place(s, s[p]) = p
<1>1. DOMAIN s = 1 .. Len(s)
  BY LenProperties
<1> DEFINE place == CHOOSE k \in DOMAIN s : s[k] = s[p]
<1>2. place \in DOMAIN s /\ s[place] = s[p]
  BY <1>1
<1>3. place = p
  BY <1>1, <1>2 DEF Distinct
<1> QED
  BY <1>3 DEF Place

LEMMA WithoutPlace ==
  ASSUME NEW S, NEW s \in Seq(S), Distinct(s), NEW p \in 1 .. Len(s)
  PROVE  Without(s, s[p]) = [i \in 1 .. Len(s) - 1 |-> IF i < p THEN s[i] ELSE s[i + 1]]
<1>1. DOMAIN s = 1 .. Len(s)
  BY LenProperties
<1>2. Place(s, s[p]) = p
  BY PlaceOf
<1> QED
  BY <1>1, <1>2 DEF Without

LEMMA WithoutNothing ==
  ASSUME NEW S, NEW s \in Seq(S), NEW a, a \notin Elements(s)
  PROVE  Without(s, a) = s
  BY DEF Without, Elements

LEMMA WithoutIsSeq ==
  ASSUME NEW S, NEW s \in Seq(S), Distinct(s), NEW p \in 1 .. Len(s), NEW a, a = s[p],
         NEW t, t = Without(s, a)
  PROVE  /\ t \in Seq(S)
         /\ Len(t) = Len(s) - 1
         /\ \A i \in 1 .. Len(s) - 1 : t[i] = IF i < p THEN s[i] ELSE s[i + 1]
         /\ DOMAIN t = 1 .. Len(s) - 1
<1>1. t = [i \in 1 .. Len(s) - 1 |-> IF i < p THEN s[i] ELSE s[i + 1]]
  BY WithoutPlace
<1>2. Len(s) \in Nat /\ s \in [1 .. Len(s) -> S]
  BY LenProperties
<1>3. Len(s) - 1 \in Nat
  BY <1>2
<1>4. t \in [1 .. Len(s) - 1 -> S]
  BY <1>1, <1>2
<1>5. t \in Seq(S)
  BY <1>3, <1>4, SeqDef
<1>6. Len(t) = Len(s) - 1
  BY <1>3, <1>4, <1>5, LenProperties
<1> QED
  BY <1>1, <1>5, <1>6

LEMMA WithoutDistinct ==
  ASSUME NEW S, NEW s \in Seq(S), Distinct(s), NEW a
  PROVE  /\ Without(s, a) \in Seq(S)
         /\ Distinct(Without(s, a))
         /\ Elements(Without(s, a)) = Elements(s) \ {a}
<1>1. CASE a \notin Elements(s)
  <2>1. Without(s, a) = s
    BY <1>1, WithoutNothing
  <2> QED
    BY <1>1, <2>1
<1>2. CASE a \in Elements(s)
  <2>1. DOMAIN s = 1 .. Len(s) /\ Len(s) \in Nat
    BY LenProperties
  <2>2. PICK p \in 1 .. Len(s) : a = s[p]
    BY <1>2, <2>1 DEF Elements
  <2> DEFINE t == Without(s, a)
  <2>a. t = Without(s, a)
    OBVIOUS
  <2> HIDE DEF t
  <2>3. /\ t \in Seq(S)
        /\ DOMAIN t = 1 .. Len(s) - 1
        /\ \A i \in 1 .. Len(s) - 1 : t[i] = IF i < p THEN s[i] ELSE s[i + 1]
    BY <2>2, <2>a, WithoutIsSeq
  <2>4. Distinct(t)
    <3> SUFFICES ASSUME NEW i \in DOMAIN t, NEW j \in DOMAIN t, t[i] = t[j]
                 PROVE  i = j
      BY DEF Distinct
    <3> DEFINE from(k) == IF k < p THEN k ELSE k + 1
    <3>1. /\ from(i) \in DOMAIN s /\ t[i] = s[from(i)]
          /\ from(j) \in DOMAIN s /\ t[j] = s[from(j)]
      BY <2>1, <2>3
    <3>2. from(i) = from(j)
      BY <3>1 DEF Distinct
    <3> QED
      BY <3>2, <2>3
  <2>5. Elements(t) = Elements(s) \ {a}
    <3>1. ASSUME NEW x \in Elements(t)
          PROVE  x \in Elements(s) \ {a}
      <4>1. PICK i \in 1 .. Len(s) - 1 : x = t[i]
        BY <2>3 DEF Elements
      <4>2. PICK k \in DOMAIN s : k # p /\ x = s[k]
        <5>1. CASE i < p
          <6>1. i \in DOMAIN s /\ i # p
            BY <4>1, <5>1, <2>1
          <6> QED
            BY <4>1, <5>1, <6>1, <2>3
        <5>2. CASE ~(i < p)
          <6>1. i + 1 \in DOMAIN s /\ i + 1 # p
            BY <4>1, <5>2, <2>1
          <6> QED
            BY <4>1, <5>2, <6>1, <2>3
        <5> QED
          BY <5>1, <5>2
      <4> QED
        BY <4>2, <2>1, <2>2 DEF Elements, Distinct
    <3>2. ASSUME NEW x \in Elements(s), x # a
          PROVE  x \in Elements(t)
      <4>1. PICK k \in 1 .. Len(s) : x = s[k]
        BY <2>1 DEF Elements
      <4>2. k # p
        BY <3>2, <4>1, <2>2
      <4>3. CASE k < p
        <5>1. k \in 1 .. Len(s) - 1 /\ t[k] = x
          BY <4>1, <4>3, <2>1, <2>3
        <5> QED
          BY <5>1, <2>3 DEF Elements
      <4>4. CASE k > p
        <5>1. k - 1 \in 1 .. Len(s) - 1 /\ t[k - 1] = x
          BY <4>1, <4>4, <2>1, <2>3
        <5> QED
          BY <5>1, <2>3 DEF Elements
      <4> QED
        BY <4>2, <4>3, <4>4
    <3> QED
      BY <3>1, <3>2
  <2> QED
    BY <2>3, <2>4, <2>5 DEF t
<1> QED
  BY <1>1, <1>2

\* What comes after an element: its place says it.
LEMMA BehindIs ==
  ASSUME NEW S, NEW s \in Seq(S), Distinct(s), NEW k \in 1 .. Len(s), NEW p, p = s[k]
  PROVE  /\ Behind(s, p) = Rest(s, k)
         /\ p \in Elements(s)
<1>1. DOMAIN s = 1 .. Len(s)
  BY LenProperties
<1>2. Place(s, p) = k /\ p \in Elements(s)
  BY <1>1, PlaceOf DEF Elements
<1> QED
  BY <1>2 DEF Behind, Rest

LEMMA BehindNothing ==
  ASSUME NEW s, NEW p, p \notin Elements(s)
  PROVE  Behind(s, p) = {}
  BY DEF Behind

LEMMA RestIs ==
  ASSUME NEW S, NEW s \in Seq(S), NEW k \in Nat, NEW x
  PROVE  x \in Rest(s, k) <=> \E i \in 1 .. Len(s) : k <= i /\ x = s[i]
<1>1. DOMAIN s = 1 .. Len(s)
  BY LenProperties
<1> QED
  BY <1>1 DEF Rest

\* An element, and what comes after the next one.
LEMMA BehindNext ==
  ASSUME NEW S, NEW s \in Seq(S), Distinct(s), NEW k \in 1 .. Len(s),
         NEW c \in 1 .. Len(s), c = k + 1
  PROVE  /\ Behind(s, s[k]) = {s[k]} \cup Behind(s, s[c])
         /\ s[c] \in Elements(s)
<1>1. DOMAIN s = 1 .. Len(s) /\ Len(s) \in Nat
  BY LenProperties
<1>2. Behind(s, s[k]) = Rest(s, k)
  BY BehindIs
<1>3. Behind(s, s[c]) = Rest(s, c) /\ s[c] \in Elements(s)
  BY BehindIs
<1>4. \A i \in DOMAIN s : k <= i <=> i = k \/ c <= i
  BY <1>1
<1>5. k \in DOMAIN s
  BY <1>1
<1>6. Rest(s, k) = {s[k]} \cup Rest(s, c)
  BY <1>4, <1>5 DEF Rest
<1> QED
  BY <1>2, <1>3, <1>6

LEMMA BehindLast ==
  ASSUME NEW S, NEW s \in Seq(S), Distinct(s), NEW k \in 1 .. Len(s), k = Len(s)
  PROVE  Behind(s, s[k]) = {s[k]}
<1>1. DOMAIN s = 1 .. Len(s) /\ Len(s) \in Nat
  BY LenProperties
<1>2. Behind(s, s[k]) = Rest(s, k)
  BY BehindIs
<1>3. \A i \in DOMAIN s : k <= i <=> i = k
  BY <1>1
<1>4. k \in DOMAIN s
  BY <1>1
<1> QED
  BY <1>2, <1>3, <1>4 DEF Rest

\* From its head on a sequence is whole.
LEMMA BehindHead ==
  ASSUME NEW S, NEW s \in Seq(S), Distinct(s), s # <<>>
  PROVE  Head(s) \in Elements(s) /\ Behind(s, Head(s)) = Elements(s)
<1>1. DOMAIN s = 1 .. Len(s) /\ Len(s) \in Nat \ {0}
  BY LenProperties, EmptySeq
<1>2. Head(s) = s[1] /\ 1 \in 1 .. Len(s)
  BY <1>1
<1>3. Behind(s, s[1]) = Rest(s, 1) /\ s[1] \in Elements(s)
  BY <1>2, BehindIs
<1>4. \A i \in DOMAIN s : 1 <= i
  BY <1>1
<1>5. Rest(s, 1) = Elements(s)
  BY <1>4 DEF Rest, Elements
<1> QED
  BY <1>2, <1>3, <1>5

\* What is taken out of a sequence is taken out of its end.
LEMMA BehindWithout ==
  ASSUME NEW S, NEW s \in Seq(S), Distinct(s), NEW a, NEW p, p # a
  PROVE  Behind(Without(s, a), p) = Behind(s, p) \ {a}
<1> DEFINE t == Without(s, a)
<1>a. t = Without(s, a)
  OBVIOUS
<1>1. t \in Seq(S) /\ Distinct(t) /\ Elements(t) = Elements(s) \ {a}
  BY WithoutDistinct
<1> HIDE DEF t
<1>2. DOMAIN s = 1 .. Len(s) /\ Len(s) \in Nat
  BY LenProperties
<1>3. CASE p \notin Elements(s)
  BY <1>1, <1>3, <1>a, BehindNothing
<1>4. CASE a \notin Elements(s)
  <2>1. t = s
    BY <1>4, <1>a, WithoutNothing
  <2>2. Behind(s, p) \subseteq Elements(s)
    BY DEF Behind, Elements
  <2> QED
    BY <1>4, <1>a, <2>1, <2>2
<1>5. CASE p \in Elements(s) /\ a \in Elements(s)
  <2>1. PICK k \in 1 .. Len(s) : p = s[k]
    BY <1>2, <1>5 DEF Elements
  <2>2. PICK c \in 1 .. Len(s) : a = s[c]
    BY <1>2, <1>5 DEF Elements
  <2>3. c # k
    BY <2>1, <2>2
  <2>4. /\ Len(t) = Len(s) - 1
        /\ \A i \in 1 .. Len(s) - 1 : t[i] = IF i < c THEN s[i] ELSE s[i + 1]
    BY <2>2, <1>a, WithoutIsSeq
  <2> DEFINE m == IF k < c THEN k ELSE k - 1
  <2>5. m \in 1 .. Len(t) /\ t[m] = p
    <3>1. m \in 1 .. Len(s) - 1
      BY <1>2, <2>3
    <3>2. (IF m < c THEN s[m] ELSE s[m + 1]) = s[k]
      BY <2>3
    <3> QED
      BY <2>1, <2>4, <3>1, <3>2
  <2>6. Behind(t, p) = Rest(t, m)
    <3> HIDE DEF m
    <3> QED
      BY <1>1, <2>5, BehindIs
  <2>7. Behind(s, p) = Rest(s, k)
    BY <2>1, BehindIs
  <2>8. ASSUME NEW x \in Behind(t, p)
        PROVE  x \in Behind(s, p) \ {a}
    <3>1. PICK i \in 1 .. Len(t) : m <= i /\ x = t[i]
      <4>1. x \in Rest(t, m) /\ m \in Nat
        BY <2>5, <2>6, <2>8, <1>2
      <4> HIDE DEF m
      <4> QED
        BY <4>1, <1>1, RestIs
    <3> DEFINE j == IF i < c THEN i ELSE i + 1
    <3>2. i \in 1 .. Len(s) - 1 /\ j \in 1 .. Len(s) /\ k <= j /\ j # c
      BY <1>2, <2>3, <2>4, <2>5, <3>1
    <3>3. x = s[j]
      BY <2>4, <3>1, <3>2
    <3> HIDE DEF j
    <3>4. x # a
      BY <1>2, <2>2, <3>2, <3>3 DEF Distinct
    <3> QED
      <4>1. x \in Rest(s, k)
        BY <3>2, <3>3, RestIs
      <4> QED
        BY <4>1, <2>7, <3>4
  <2>9. ASSUME NEW x \in Behind(s, p) \ {a}
        PROVE  x \in Behind(t, p)
    <3>1. PICK j \in 1 .. Len(s) : k <= j /\ x = s[j]
      BY <2>7, <2>9, RestIs
    <3>2. j # c
      BY <2>2, <2>9, <3>1
    <3> DEFINE i == IF j < c THEN j ELSE j - 1
    <3>3. i \in 1 .. Len(t) /\ m <= i /\ i \in 1 .. Len(s) - 1
      BY <1>2, <2>3, <2>4, <3>1, <3>2
    <3>4. (IF i < c THEN s[i] ELSE s[i + 1]) = s[j]
      BY <3>2
    <3>5. x = t[i]
      BY <2>4, <3>1, <3>3, <3>4
    <3>6. m \in Nat
      BY <2>5
    <3> HIDE DEF i, m
    <3>7. x \in Rest(t, m)
      BY <1>1, <3>3, <3>5, <3>6, RestIs
    <3> QED
      BY <2>6, <3>7
  <2> QED
    BY <2>8, <2>9 DEF t
<1> QED
  BY <1>3, <1>4, <1>5

\* A sequence with a new first element has the same ends.
LEMMA Prepended ==
  ASSUME NEW S, NEW s \in Seq(S), NEW a \in S, NEW u, u = <<a>> \o s
  PROVE  /\ u \in Seq(S)
         /\ Len(u) = Len(s) + 1
         /\ u[1] = a
         /\ \A i \in 2 .. Len(s) + 1 : u[i] = s[i - 1]
<1>1. Len(s) \in Nat
  BY LenProperties
<1>2. <<a>> \in Seq(S) /\ Len(<<a>>) = 1 /\ <<a>>[1] = a
  OBVIOUS
<1>3. /\ <<a>> \o s \in Seq(S)
      /\ Len(<<a>> \o s) = Len(s) + 1
      /\ \A i \in 1 .. Len(s) + 1 : (<<a>> \o s)[i] = IF i <= 1 THEN <<a>>[i] ELSE s[i - 1]
  BY <1>1, <1>2, ConcatProperties
<1> QED
  BY <1>1, <1>2, <1>3

LEMMA BehindLonger ==
  ASSUME NEW S, NEW s \in Seq(S), Distinct(s), NEW a \in S, a \notin Elements(s),
         NEW u \in Seq(S), Len(u) = Len(s) + 1, u[1] = a,
         \A i \in 2 .. Len(s) + 1 : u[i] = s[i - 1]
  PROVE  /\ Distinct(u)
         /\ Elements(u) = Elements(s) \cup {a}
         /\ Behind(u, a) = Elements(s) \cup {a}
         /\ \A p \in Elements(s) : Behind(u, p) = Behind(s, p)
<1>1. DOMAIN s = 1 .. Len(s) /\ Len(s) \in Nat
  BY LenProperties
<1>3. u \in Seq(S) /\ Len(u) = Len(s) + 1
  OBVIOUS
<1>4. DOMAIN u = 1 .. Len(s) + 1
  BY <1>3, LenProperties
<1>5. u[1] = a /\ \A i \in 2 .. Len(s) + 1 : u[i] = s[i - 1] /\ i - 1 \in DOMAIN s
  BY <1>1
<1>6. Elements(u) = Elements(s) \cup {a}
  <2>1. \A i \in DOMAIN s : i + 1 \in DOMAIN u /\ u[i + 1] = s[i]
    BY <1>1, <1>4, <1>5
  <2>2. 1 \in DOMAIN u
    BY <1>1, <1>4
  <2>3. \A i \in DOMAIN u : i = 1 \/ i \in 2 .. Len(s) + 1
    BY <1>1, <1>4
  <2>4. ASSUME NEW x \in Elements(u)
        PROVE  x \in Elements(s) \cup {a}
    <3>1. PICK i \in DOMAIN u : x = u[i]
      BY <2>4 DEF Elements
    <3> QED
      BY <3>1, <2>3, <1>5 DEF Elements
  <2>5. ASSUME NEW x \in Elements(s)
        PROVE  x \in Elements(u)
    <3>1. PICK i \in DOMAIN s : x = s[i]
      BY <2>5 DEF Elements
    <3> QED
      BY <3>1, <2>1 DEF Elements
  <2>6. a \in Elements(u)
    BY <1>5, <2>2 DEF Elements
  <2> QED
    BY <2>4, <2>5, <2>6
<1>7. Distinct(u)
  <2> SUFFICES ASSUME NEW i \in DOMAIN u, NEW j \in DOMAIN u, u[i] = u[j]
               PROVE  i = j
    BY DEF Distinct
  <2>1. \A k \in 2 .. Len(s) + 1 : u[k] # a
    BY <1>5 DEF Elements
  <2>2. CASE i = 1 \/ j = 1
    BY <2>1, <2>2, <1>1, <1>4, <1>5
  <2>3. CASE i \in 2 .. Len(s) + 1 /\ j \in 2 .. Len(s) + 1
    <3>1. i - 1 = j - 1
      BY <2>3, <1>5 DEF Distinct
    <3> QED
      BY <3>1, <2>3
  <2> QED
    BY <2>2, <2>3, <1>1, <1>4
<1>8. Behind(u, a) = Elements(u)
  <2>1. 1 \in 1 .. Len(u) /\ a = u[1]
    BY <1>1, <1>3, <1>5
  <2>2. Behind(u, a) = Rest(u, 1)
    BY <2>1, <1>3, <1>7, BehindIs
  <2>3. \A i \in DOMAIN u : 1 <= i
    BY <1>1, <1>4
  <2> QED
    BY <2>2, <2>3 DEF Rest, Elements
<1>9. ASSUME NEW p \in Elements(s)
      PROVE  Behind(u, p) = Behind(s, p)
  <2>1. PICK k \in 1 .. Len(s) : p = s[k]
    BY <1>1, <1>9 DEF Elements
  <2>2. k + 1 \in 1 .. Len(u) /\ p = u[k + 1]
    BY <1>1, <1>3, <1>5, <2>1
  <2>3. Behind(u, p) = Rest(u, k + 1)
    BY <2>2, <1>3, <1>7, BehindIs
  <2>4. Behind(s, p) = Rest(s, k)
    BY <2>1, BehindIs
  <2>5. \A i \in DOMAIN u :
          k + 1 <= i => i - 1 \in DOMAIN s /\ k <= i - 1 /\ u[i] = s[i - 1]
    BY <1>1, <1>4, <1>5
  <2>6. \A i \in DOMAIN s :
          k <= i => i + 1 \in DOMAIN u /\ k + 1 <= i + 1 /\ u[i + 1] = s[i]
    BY <1>1, <1>4, <1>5
  <2>7. Rest(u, k + 1) = Rest(s, k)
    BY <2>5, <2>6 DEF Rest
  <2> QED
    BY <2>3, <2>4, <2>7
<1> QED
  BY <1>6, <1>7, <1>8, <1>9

(***************************************************************************)
(* Steps of the clock.                                                     *)
(***************************************************************************)
USE ClockAssumption, HalAssumption

LEMMA ClockInitially == Init => ClockInv
<1> SUFFICES ASSUME ClockInit
             PROVE  ClockInv
  BY DEF Init
<1>1. /\ alarms = <<>> /\ Len(<<>>) = 0 /\ DOMAIN <<>> = {}
      /\ ~ticking /\ alarm = ListHead /\ ~calling /\ next = ListHead
  BY DEF ClockInit
<1>a. alarms \in Seq(Alarm)
  BY <1>1, EmptySeq
<1>b. resettime \in TimeVal /\ setting \in TimeVal
  BY DEF ClockInit, TimeVal
<1>c. /\ 0 \in Ticks /\ 0 \in 0 .. MaxDelay + 1 /\ 0 \in 0 .. Wrap
  BY DEF Ticks
<1>2. ClockTypeOK
  BY <1>a, <1>b, <1>c DEF ClockInit, ClockTypeOK
<1>3. Distinct(alarms) /\ Listed = {} /\ Known = {}
  BY <1>1 DEF Distinct, Listed, Known
<1> QED
  BY <1>1, <1>2, <1>3 DEF ClockInv

\* What a tick has yet to do with lies behind its pointer.
LEMMA ListFacts ==
  ASSUME ClockInv
  PROVE  /\ alarms \in Seq(Alarm) /\ Distinct(alarms)
         /\ Listed = Elements(alarms)
         /\ Listed \subseteq Alarm /\ ListHead \notin Listed
         /\ Known \subseteq Alarm
         /\ \A p : From(p) = Behind(alarms, p)
         /\ \A a \in Alarm : /\ time[a] \in 0 .. Wrap - 1
                             /\ rollover[a] \in BOOLEAN
                             /\ remaining[a] \in 0 .. MaxDelay + 1
         /\ nticks \in 0 .. Wrap - 1
         /\ alarm \in Alarm \cup {ListHead} /\ next \in Alarm \cup {ListHead}
<1>1. alarms \in Seq(Alarm) /\ Distinct(alarms)
  BY DEF ClockInv, ClockTypeOK
<1>2. Listed = Elements(alarms)
  BY DEF Listed, Elements
<1>3. Listed \subseteq Alarm
  BY <1>1, LenProperties, ElementOfSeq DEF Listed
<1>4. \A p : From(p) = Behind(alarms, p)
  BY <1>2 DEF From, Behind
<1>5. alarm \in Alarm \cup {ListHead} /\ next \in Alarm \cup {ListHead}
  BY DEF ClockInv, ClockTypeOK
<1>6. Known \subseteq Alarm
  BY <1>3, <1>5 DEF Known
<1> QED
  BY <1>1, <1>2, <1>3, <1>4, <1>5, <1>6 DEF ClockInv, ClockTypeOK, Ticks

LEMMA FromIs == \A p : From(p)' = Behind(alarms', p') /\ Listed' = Elements(alarms')
  BY DEF From, Behind, Listed, Elements

\* The link of an alarm on the list, and what is behind it.
LEMMA AfterFacts ==
  ASSUME ClockInv, NEW a \in Listed
  PROVE  /\ From(a) = {a} \cup From(After(a))
         /\ After(a) \in Listed \cup {ListHead}
<1>1. /\ alarms \in Seq(Alarm) /\ Distinct(alarms) /\ Listed = Elements(alarms)
      /\ ListHead \notin Elements(alarms)
      /\ \A p : From(p) = Behind(alarms, p)
  BY ListFacts
<1>2. DOMAIN alarms = 1 .. Len(alarms)
  BY <1>1, LenProperties
<1>3. PICK k \in 1 .. Len(alarms) : a = alarms[k]
  BY <1>1, <1>2 DEF Elements
<1>4. Place(alarms, a) = k
  BY <1>1, <1>3, PlaceOf
<1>5. CASE k = Len(alarms)
  <2>1. After(a) = ListHead /\ Behind(alarms, a) = {a} /\ Behind(alarms, ListHead) = {}
    BY <1>1, <1>3, <1>4, <1>5, BehindLast, BehindNothing DEF After
  <2> QED
    BY <1>1, <2>1
<1>6. CASE k # Len(alarms)
  <2>1. PICK c \in 1 .. Len(alarms) : c = k + 1
    BY <1>1, <1>6, LenProperties
  <2>2. After(a) = alarms[c]
    BY <1>4, <1>6, <2>1 DEF After
  <2>3. /\ Behind(alarms, a) = {a} \cup Behind(alarms, alarms[c])
        /\ alarms[c] \in Elements(alarms)
    BY <1>1, <1>3, <2>1, BehindNext
  <2> QED
    BY <1>1, <2>2, <2>3
<1> QED
  BY <1>5, <1>6

\* An alarm that has been set is due when its delay is over, and its flag is not
\* one to be cleared.
LEMMA SetIsDue ==
  ASSUME ClockInv, NEW a \in Alarm, NEW ticks, NEW flag \in BOOLEAN,
         NEW left \in 1 .. MaxDelay + 1,
         ticks = IF flag THEN nticks + left - Wrap ELSE nticks + left,
         ticks \in Nat, Reschedule(a, ticks, flag, left), nticks' = nticks
  PROVE  /\ DueIn(a, Rollover(a))'
         /\ DoneWith(a)'
         /\ time' \in [Alarm -> Ticks]
         /\ rollover' \in [Alarm -> BOOLEAN]
         /\ remaining' \in [Alarm -> 0 .. MaxDelay + 1]
         /\ \A b \in Alarm \ {a} : /\ time'[b] = time[b]
                                   /\ rollover'[b] = rollover[b]
                                   /\ remaining'[b] = remaining[b]
<1> DEFINE sum == nticks + left
<1>1. /\ nticks \in 0 .. Wrap - 1 /\ sum \in Nat /\ sum < 2 * Wrap /\ left < Wrap
      /\ left \in Nat \ {0}
  BY DEF ClockInv, ClockTypeOK, Ticks
<1>2. ticks % Wrap \in Ticks
  BY DivMod DEF Ticks
<1>3. ~flag /\ sum < Wrap => ticks % Wrap = sum
  BY <1>1, ModSmall
<1>4. ~flag /\ sum >= Wrap => ticks % Wrap = sum - Wrap
  <2> SUFFICES ASSUME ~flag, sum >= Wrap
               PROVE  ticks % Wrap = sum - Wrap
    OBVIOUS
  <2>1. sum - Wrap \in 0 .. Wrap - 1 /\ ticks = (sum - Wrap) + Wrap
    BY <1>1
  <2> QED
    BY <2>1, ModPlusModulus
<1>5. flag => sum >= Wrap /\ ticks % Wrap = sum - Wrap
  <2> SUFFICES ASSUME flag
               PROVE  sum >= Wrap /\ ticks % Wrap = sum - Wrap
    OBVIOUS
  <2>1. ticks \in 0 .. Wrap - 1 /\ ticks = sum - Wrap /\ sum >= Wrap
    BY <1>1
  <2> QED
    BY <2>1, ModSmall
<1>6. /\ time' = [time EXCEPT ![a] = ticks % Wrap]
      /\ rollover' = [rollover EXCEPT ![a] = flag \/ time'[a] < nticks]
      /\ remaining' = [remaining EXCEPT ![a] = left]
  BY DEF Reschedule
<1>7. /\ time \in [Alarm -> Ticks] /\ rollover \in [Alarm -> BOOLEAN]
      /\ remaining \in [Alarm -> 0 .. MaxDelay + 1]
  BY DEF ClockInv, ClockTypeOK
<1>8. /\ time'[a] = ticks % Wrap
      /\ rollover'[a] = (flag \/ ticks % Wrap < nticks)
      /\ remaining'[a] = left
  BY <1>6, <1>7
<1>9. DueIn(a, rollover[a])' /\ (rollover'[a] => nticks' # 0)
  <2>a. sum = nticks + left
    OBVIOUS
  <2> HIDE DEF sum
  <2>1. CASE sum < Wrap
    <3>1. ~flag /\ ticks % Wrap = nticks + left
      BY <1>3, <1>5, <2>1, <2>a, <1>1
    <3>2. ~(ticks % Wrap < nticks)
      BY <3>1, <1>1
    <3>3. rollover'[a] = FALSE
      BY <3>1, <3>2, <1>8
    <3> QED
      BY <2>1, <2>a, <3>1, <3>3, <1>8 DEF DueIn
  <2>2. CASE sum >= Wrap
    <3>1. ticks % Wrap = nticks + left - Wrap
      BY <2>2, <2>a, <1>1, <1>4, <1>5
    <3>2. ticks % Wrap < nticks /\ nticks # 0
      BY <3>1, <2>2, <2>a, <1>1
    <3>3. rollover'[a] = TRUE
      BY <3>2, <1>8
    <3> QED
      BY <2>2, <2>a, <3>1, <3>2, <3>3, <1>8 DEF DueIn
  <2> QED
    BY <1>1, <2>1, <2>2
<1>10. DueIn(a, Rollover(a))' /\ DoneWith(a)'
  <2>1. Rollover(a)' <=> rollover'[a]
    BY <1>9 DEF Rollover
  <2>2. remaining'[a] > 0
    BY <1>1, <1>8
  <2> QED
    BY <1>9, <2>1, <2>2 DEF DueIn, DoneWith
<1>11. time' \in [Alarm -> Ticks]
  BY <1>2, <1>6, <1>7
<1>12. rollover' \in [Alarm -> BOOLEAN]
  BY <1>6, <1>7
<1>13. remaining' \in [Alarm -> 0 .. MaxDelay + 1]
  BY <1>6, <1>7
<1> QED
  BY <1>6, <1>7, <1>10, <1>11, <1>12, <1>13

\* An alarm alt_tick looks at is due exactly when it takes it to be.
LEMMA DueIsExpired ==
  ASSUME ClockInv, NEW a \in Alarm, LooksAt(a)
  PROVE  /\ DueIn(a, Rollover(a))
         /\ Expired(a) <=> remaining[a] = 0
         /\ Expired(a) => time[a] = nticks
<1>1. a \in Known
  BY DEF LooksAt, Known
<1>2. DueIn(a, Rollover(a))
  BY <1>1 DEF ClockInv
<1>3. time[a] \in Nat /\ remaining[a] \in Nat /\ nticks \in 0 .. Wrap - 1
  BY ListFacts
<1> QED
  BY <1>2, <1>3 DEF DueIn, Expired

LEMMA ClockUntouched ==
  ASSUME ClockInv, UNCHANGED clockVars
  PROVE  ClockInv'
  BY DEF clockVars, alarmVars, walkVars, timeVars, ClockInv, ClockTypeOK, Known, DoneWith,
         DueIn, Rollover, Listed, ToCome, From, Astray

LEMMA StartKeeps ==
  ASSUME ClockInv, NEW a \in Alarm, NEW n \in 0 .. MaxDelay, AlarmStart(a, n)
  PROVE  /\ ClockInv'
         /\ Astray' => Astray
<1>1. /\ a \notin Listed
      /\ Reschedule(a, nticks + n + 1, FALSE, n + 1)
      /\ alarms' = <<a>> \o alarms
      /\ UNCHANGED <<nticks, ticking, alarm, calling, next, resettime, setting, elapsed>>
  BY DEF AlarmStart, timeVars, walkVars
<1>2. /\ n + 1 \in 1 .. MaxDelay + 1
      /\ nticks + n + 1 = nticks + (n + 1) /\ nticks + n + 1 \in Nat
  BY ListFacts
<1>3. /\ DueIn(a, Rollover(a))'
      /\ DoneWith(a)'
      /\ time' \in [Alarm -> Ticks]
      /\ rollover' \in [Alarm -> BOOLEAN]
      /\ remaining' \in [Alarm -> 0 .. MaxDelay + 1]
      /\ \A b \in Alarm \ {a} : /\ time'[b] = time[b]
                                /\ rollover'[b] = rollover[b]
                                /\ remaining'[b] = remaining[b]
  BY <1>1, <1>2, SetIsDue
<1>4. /\ alarms' \in Seq(Alarm)
      /\ Distinct(alarms')
      /\ Listed' = Listed \cup {a}
      /\ Behind(alarms', a) = Listed'
      /\ \A p \in Listed : Behind(alarms', p) = Behind(alarms, p)
  <2>1. alarms \in Seq(Alarm) /\ Distinct(alarms) /\ a \notin Elements(alarms)
    BY <1>1, ListFacts
  <2>2. /\ alarms' \in Seq(Alarm)
        /\ Len(alarms') = Len(alarms) + 1
        /\ alarms'[1] = a
        /\ \A i \in 2 .. Len(alarms) + 1 : alarms'[i] = alarms[i - 1]
    BY <1>1, <2>1, Prepended
  <2>3. /\ Distinct(alarms')
        /\ Elements(alarms') = Elements(alarms) \cup {a}
        /\ Behind(alarms', a) = Elements(alarms) \cup {a}
        /\ \A p \in Elements(alarms) : Behind(alarms', p) = Behind(alarms, p)
    BY <2>1, <2>2, BehindLonger
  <2>4. Listed = Elements(alarms) /\ Listed' = Elements(alarms')
    BY ListFacts, FromIs
  <2> QED
    BY <2>2, <2>3, <2>4
<1>5. ClockTypeOK'
  BY <1>1, <1>3, <1>4 DEF ClockInv, ClockTypeOK
<1>6. ASSUME NEW b \in Known'
      PROVE  DueIn(b, Rollover(b))'
  <2>1. CASE b = a
    BY <2>1, <1>3
  <2>2. CASE b # a
    <3>1. b \in Known /\ b \in Alarm \ {a}
      BY <2>2, <1>1, <1>4, ListFacts DEF Known
    <3> QED
      BY <3>1, <1>1, <1>3 DEF ClockInv, DueIn, Rollover
  <2> QED
    BY <2>1, <2>2
<1>7. calling' => alarm' # ListHead /\ (rollover'[alarm'] => nticks' # 0)
  <2>1. CASE alarm = a
    BY <2>1, <1>1, <1>3 DEF ClockInv, DoneWith
  <2>2. CASE alarm # a
    BY <2>2, <1>1, <1>3, ListFacts DEF ClockInv
  <2> QED
    BY <2>1, <2>2
<1>8. ASSUME NEW b \in Listed'
      PROVE  (b \in ToCome \/ Astray \/ DoneWith(b))'
  <2>1. CASE b = a
    BY <2>1, <1>3
  <2>2. CASE b # a /\ DoneWith(b)
    <3>1. b \in Alarm \ {a}
      BY <2>2, <1>4, ListFacts
    <3> QED
      BY <2>2, <3>1, <1>1, <1>3 DEF DoneWith
  <2>3. CASE b # a /\ Astray
    <3>1. CASE Pointer = a
      BY <3>1, <1>1, <1>4, <1>8, FromIs DEF ToCome, Pointer
    <3>2. CASE Pointer # a
      BY <2>3, <3>2, <1>1, <1>4 DEF Astray, Pointer
    <3> QED
      BY <3>1, <3>2
  <2>4. CASE b # a /\ b \in ToCome
    <3>1. \A p : b \in Behind(alarms, p) => p \in Listed
      BY ListFacts, BehindNothing
    <3>2. \A p : b \in Behind(alarms, p) => b \in Behind(alarms', p)
      BY <3>1, <1>4
    <3> QED
      BY <2>4, <3>2, <1>1, ListFacts, FromIs DEF ToCome
  <2> QED
    BY <1>4, <1>8, <2>1, <2>2, <2>3, <2>4 DEF ClockInv
<1>9. Astray' => Astray
  BY <1>1, <1>4 DEF Astray
<1> QED
  BY <1>1, <1>4, <1>5, <1>6, <1>7, <1>8, <1>9 DEF ClockInv

LEMMA StopKeeps ==
  ASSUME ClockInv, NEW a \in Alarm, AlarmStop(a)
  PROVE  ClockInv'
<1>1. /\ alarms' = Without(alarms, a) /\ a \in Listed
      /\ UNCHANGED <<nticks, time, rollover, ticking, alarm, calling, next, remaining,
                     resettime, setting, elapsed>>
  BY DEF AlarmStop, timeVars, walkVars
<1>2. /\ alarms' \in Seq(Alarm) /\ Distinct(alarms')
      /\ Listed' = Listed \ {a}
  BY <1>1, ListFacts, FromIs, WithoutDistinct
<1>3. \A p : p # a => Behind(alarms', p) = Behind(alarms, p) \ {a}
  BY <1>1, ListFacts, BehindWithout
<1>4. ClockTypeOK'
  BY <1>1, <1>2 DEF ClockInv, ClockTypeOK
<1>5. ASSUME NEW b \in Known'
      PROVE  DueIn(b, Rollover(b))'
  <2>1. b \in Known
    BY <1>1, <1>2 DEF Known
  <2> QED
    BY <2>1, <1>1 DEF ClockInv, DueIn, Rollover
<1>6. ASSUME NEW b \in Listed'
      PROVE  (b \in ToCome \/ Astray \/ DoneWith(b))'
  <2>1. b \in Listed /\ b # a
    BY <1>2
  <2>2. CASE DoneWith(b)
    BY <2>2, <1>1 DEF DoneWith
  <2>3. CASE Astray
    BY <2>3, <1>1, <1>2 DEF Astray
  <2>4. CASE b \in ToCome
    <3>1. CASE calling /\ b = alarm
      BY <3>1, <1>1 DEF ToCome
    <3>2. CASE b \in From(Pointer)
      <4>1. Pointer \in Listed
        BY <3>2, ListFacts, BehindNothing
      <4>2. CASE Pointer = a
        <5>1. ticking /\ Pointer \notin Listed' \cup {ListHead}
          BY <4>1, <4>2, <1>2, ListFacts DEF ClockInv, Pointer
        <5> QED
          BY <5>1, <1>1 DEF Astray, Pointer
      <4>3. CASE Pointer # a
        <5>1. b \in Behind(alarms', Pointer)
          BY <2>1, <3>2, <4>3, <1>3, ListFacts
        <5> QED
          BY <5>1, <1>1, FromIs DEF ToCome, Pointer
      <4> QED
        BY <4>2, <4>3
    <3> QED
      BY <2>4, <3>1, <3>2 DEF ToCome, Pointer
  <2> QED
    BY <2>1, <2>2, <2>3, <2>4 DEF ClockInv
<1> QED
  BY <1>1, <1>2, <1>4, <1>5, <1>6 DEF ClockInv

LEMMA TickBeginKeeps ==
  ASSUME ClockInv, TickBegin
  PROVE  /\ ClockInv'
         /\ ~Astray'
<1>1. /\ ticking' = TRUE
      /\ nticks' = (nticks + 1) % Wrap
      /\ alarm' = IF alarms = <<>> THEN ListHead ELSE Head(alarms)
      /\ remaining' = [a \in Alarm |-> IF a \in Listed /\ remaining[a] > 0
                                       THEN remaining[a] - 1 ELSE remaining[a]]
      /\ elapsed' = IF elapsed < Wrap THEN elapsed + 1 ELSE elapsed
      /\ UNCHANGED <<time, rollover, alarms, calling, next, resettime, setting>>
      /\ alarm = ListHead /\ ~calling /\ next = ListHead
      /\ ~ticking
  BY DEF TickBegin, ClockInv
<1>2. nticks \in 0 .. Wrap - 1
  BY ListFacts
<1>3. nticks' \in Ticks /\ IF nticks = Wrap - 1 THEN nticks' = 0 ELSE nticks' = nticks + 1
  <2>1. CASE nticks = Wrap - 1
    <3>1. nticks + 1 = 0 + Wrap /\ 0 \in 0 .. Wrap - 1
      BY <2>1
    <3> QED
      BY <3>1, <2>1, <1>1, ModPlusModulus DEF Ticks
  <2>2. CASE nticks # Wrap - 1
    <3>1. nticks + 1 \in 0 .. Wrap - 1
      BY <2>2, <1>2
    <3> QED
      BY <3>1, <2>2, <1>1, ModSmall DEF Ticks
  <2> QED
    BY <2>1, <2>2
<1>4. /\ Listed' = Listed /\ Listed \subseteq Alarm
      /\ alarms = <<>> => Listed = {}
      /\ alarms # <<>> => Head(alarms) \in Listed /\ Behind(alarms, Head(alarms)) = Listed
  <2>1. alarms = <<>> => Listed = {}
    BY DEF Listed
  <2> QED
    BY <1>1, <2>1, ListFacts, FromIs, BehindHead
<1>5. ClockTypeOK'
  BY <1>1, <1>3, <1>4 DEF ClockInv, ClockTypeOK
<1>6. Known' = Listed /\ ToCome' = Listed /\ ~Astray'
  BY <1>1, <1>4, FromIs, BehindNothing, ListFacts DEF Known, ToCome, Astray
<1>7. ASSUME NEW a \in Listed
      PROVE  DueIn(a, Rollover(a))'
  <2>1. a \in Alarm /\ DoneWith(a) /\ DueIn(a, Rollover(a))
    <3>1. ToCome = {} /\ ~Astray
      BY <1>1, ListFacts, BehindNothing DEF ToCome, Astray
    <3> QED
      BY <3>1, <1>4 DEF ClockInv, Known
  <2>2. remaining[a] > 0 /\ DueIn(a, rollover[a])
    BY <2>1 DEF DoneWith, Rollover, DueIn
  <2>3. /\ remaining'[a] = remaining[a] - 1
        /\ time'[a] = time[a] /\ rollover'[a] = rollover[a]
    BY <1>1, <1>7, <2>1, <2>2
  <2>4. remaining[a] \in 1 .. MaxDelay + 1
    BY <2>1, <2>2, ListFacts
  <2>5. CASE nticks = Wrap - 1
    <3>1. nticks + remaining[a] >= Wrap
      BY <2>5, <2>4
    <3>2. time[a] = nticks + remaining[a] - Wrap
      BY <2>2, <3>1, <1>2, <2>4 DEF DueIn
    <3> QED
      BY <2>5, <3>2, <1>3, <2>3, <2>4 DEF DueIn, Rollover
  <2>6. CASE nticks # Wrap - 1
    <3>1. nticks' = nticks + 1 /\ nticks' # 0
      BY <2>6, <1>2, <1>3
    <3>2. nticks' + remaining'[a] = nticks + remaining[a]
      BY <3>1, <1>2, <2>3, <2>4
    <3>3. CASE rollover[a]
      <4>1. /\ nticks + remaining[a] >= Wrap
            /\ time[a] = nticks + remaining[a] - Wrap
        BY <3>3, <2>2 DEF DueIn
      <4>2. /\ nticks' + remaining'[a] >= Wrap
            /\ time'[a] = nticks' + remaining'[a] - Wrap
        BY <4>1, <3>1, <1>2, <2>3, <2>4
      <4>3. rollover'[a] /\ nticks' # 0
        BY <3>1, <3>3, <2>3
      <4> QED
        BY <4>2, <4>3 DEF DueIn, Rollover
    <3>4. CASE ~rollover[a]
      BY <3>1, <3>2, <3>4, <2>2, <2>3 DEF DueIn, Rollover
    <3> QED
      BY <3>3, <3>4
  <2> QED
    BY <2>5, <2>6
<1> QED
  BY <1>1, <1>4, <1>5, <1>6, <1>7 DEF ClockInv

\* What alt_tick looks at is on the list, unless it has been led astray.
LEMMA LooksAtListed ==
  ASSUME ClockInv, NEW a \in Alarm, LooksAt(a)
  PROVE  a \in Listed \/ (Astray /\ After(a) = a)
  BY DEF LooksAt, Astray, After

LEMMA TickPassKeeps ==
  ASSUME ClockInv, NEW a \in Alarm, TickPass(a)
  PROVE  /\ ClockInv'
         /\ Astray' => Astray
<1>1. /\ LooksAt(a) /\ ~Expired(a)
      /\ rollover' = [rollover EXCEPT ![a] = Rollover(a)]
      /\ alarm' = After(a)
      /\ UNCHANGED <<nticks, time, alarms, ticking, calling, next, remaining,
                     resettime, setting, elapsed>>
  BY DEF TickPass, timeVars
<1>2. ticking /\ ~calling /\ alarm = a /\ a # ListHead /\ next = ListHead
  BY <1>1 DEF LooksAt, ClockInv
<1>3. Listed' = Listed /\ \A p : Behind(alarms', p) = From(p)
  BY <1>1, ListFacts, FromIs
<1>4. /\ rollover'[a] = Rollover(a) /\ \A b \in Alarm \ {a} : rollover'[b] = rollover[b]
      /\ rollover' \in [Alarm -> BOOLEAN]
      /\ Rollover(a) \in BOOLEAN
  BY <1>1, ListFacts DEF ClockInv, ClockTypeOK, Rollover
<1>5. /\ After(a) \in Alarm \cup {ListHead}
      /\ After(a) \in Listed \cup {a, ListHead}
  BY <1>1, LooksAtListed, AfterFacts, ListFacts
<1>6. ClockTypeOK'
  BY <1>1, <1>4, <1>5 DEF ClockInv, ClockTypeOK
<1>7. DueIn(a, Rollover(a)) /\ remaining[a] > 0
  BY <1>1, DueIsExpired, ListFacts
<1>8. ASSUME NEW b \in Known'
      PROVE  DueIn(b, Rollover(b))'
  <2>1. b \in Listed \cup {a} /\ b \in Alarm
    BY <1>1, <1>2, <1>3, <1>5, ListFacts DEF Known
  <2>2. DueIn(b, Rollover(b))
    BY <2>1, <1>7 DEF ClockInv, Known
  <2>3. Rollover(b)' = Rollover(b)
    BY <2>1, <1>1, <1>4 DEF Rollover
  <2> QED
    BY <2>2, <2>3, <1>1 DEF DueIn
<1>9. CASE a \in Listed
  <2>1. From(a) = {a} \cup From(After(a)) /\ After(a) \in Listed \cup {ListHead}
    BY <1>9, AfterFacts
  <2>2. ~Astray /\ ~Astray'
    BY <1>1, <1>2, <1>3, <1>9, <2>1 DEF Astray
  <2>3. ASSUME NEW b \in Listed'
        PROVE  (b \in ToCome \/ DoneWith(b))'
    <3>1. b \in Listed /\ b \in Alarm /\ (b \in ToCome \/ DoneWith(b))
      BY <1>3, <2>2, ListFacts DEF ClockInv
    <3>2. CASE b = a
      BY <3>2, <1>1, <1>4, <1>7 DEF DoneWith, Rollover
    <3>3. CASE b # a /\ DoneWith(b)
      BY <3>1, <3>3, <1>1, <1>4 DEF DoneWith
    <3>4. CASE b # a /\ b \in ToCome
      <4>1. b \in From(After(a))
        BY <3>4, <2>1, <1>2 DEF ToCome
      <4> QED
        BY <4>1, <1>1, <1>2, <1>3, FromIs DEF ToCome
    <3> QED
      BY <3>1, <3>2, <3>3, <3>4
  <2> QED
    BY <1>1, <1>2, <1>3, <1>6, <1>8, <2>2, <2>3 DEF ClockInv
<1>10. CASE a \notin Listed
  <2>1. Astray /\ alarm' = alarm
    BY <1>1, <1>2, <1>10, LooksAtListed
  <2>2. Astray'
    BY <2>1, <1>1, <1>3 DEF Astray
  <2> QED
    BY <1>1, <1>2, <1>3, <1>6, <1>8, <2>1, <2>2 DEF ClockInv
<1> QED
  BY <1>9, <1>10

LEMMA TickCallKeeps ==
  ASSUME ClockInv, NEW a \in Alarm, TickCall(a)
  PROVE  /\ ClockInv'
         /\ Astray' => Astray
<1>1. /\ LooksAt(a) /\ Expired(a)
      /\ rollover' = [rollover EXCEPT ![a] = FALSE]
      /\ calling' = TRUE
      /\ next' = After(a)
      /\ UNCHANGED <<nticks, time, alarms, ticking, alarm, remaining,
                     resettime, setting, elapsed>>
  BY DEF TickCall, timeVars
<1>2. ticking /\ ~calling /\ alarm = a /\ a # ListHead
  BY <1>1 DEF LooksAt
<1>3. Listed' = Listed /\ \A p : Behind(alarms', p) = From(p)
  BY <1>1, ListFacts, FromIs
<1>4. /\ rollover'[a] = FALSE /\ \A b \in Alarm \ {a} : rollover'[b] = rollover[b]
      /\ rollover' \in [Alarm -> BOOLEAN]
  BY <1>1 DEF ClockInv, ClockTypeOK
<1>5. /\ After(a) \in Alarm \cup {ListHead}
      /\ After(a) \in Listed \cup {a, ListHead}
  BY <1>1, LooksAtListed, AfterFacts, ListFacts
<1>6. ClockTypeOK'
  BY <1>1, <1>4, <1>5 DEF ClockInv, ClockTypeOK
<1>7. DueIn(a, Rollover(a)) /\ ~Rollover(a)
  BY <1>1, DueIsExpired DEF Expired
<1>8. ASSUME NEW b \in Known'
      PROVE  DueIn(b, Rollover(b))'
  <2>1. b \in Listed \cup {a} /\ b \in Alarm
    BY <1>1, <1>2, <1>3, <1>5, ListFacts DEF Known
  <2>2. DueIn(b, Rollover(b))
    BY <2>1, <1>7 DEF ClockInv, Known
  <2>3. Rollover(b)' <=> Rollover(b)
    BY <2>1, <1>1, <1>4, <1>7 DEF Rollover
  <2> QED
    BY <2>2, <2>3, <1>1 DEF DueIn
<1>9. CASE a \in Listed
  <2>1. From(a) = {a} \cup From(After(a)) /\ After(a) \in Listed \cup {ListHead}
    BY <1>9, AfterFacts
  <2>2. ~Astray /\ ~Astray'
    BY <1>1, <1>2, <1>3, <1>9, <2>1 DEF Astray
  <2>3. ToCome = From(a) /\ ToCome' = From(a)
    BY <1>1, <1>2, <1>3, <2>1, FromIs DEF ToCome
  <2>4. ASSUME NEW b \in Listed'
        PROVE  (b \in ToCome \/ DoneWith(b))'
    <3>1. b \in Listed /\ b \in Alarm /\ (b \in ToCome \/ DoneWith(b))
      BY <1>3, <2>2, ListFacts DEF ClockInv
    <3>2. CASE b \in ToCome
      BY <3>2, <2>3
    <3>3. CASE b # a /\ DoneWith(b)
      BY <3>1, <3>3, <1>1, <1>4 DEF DoneWith
    <3>4. CASE b = a
      BY <3>4, <2>1, <2>3
    <3> QED
      BY <3>1, <3>2, <3>3, <3>4
  <2> QED
    BY <1>1, <1>2, <1>3, <1>4, <1>6, <1>8, <2>2, <2>4 DEF ClockInv
<1>10. CASE a \notin Listed
  <2>1. Astray /\ next' = a
    BY <1>1, <1>10, LooksAtListed
  <2>2. Astray'
    BY <2>1, <1>1, <1>2, <1>3, <1>10 DEF Astray
  <2> QED
    BY <1>1, <1>2, <1>3, <1>4, <1>6, <1>8, <2>1, <2>2 DEF ClockInv
<1> QED
  BY <1>9, <1>10

\* After a callback the walk goes on where it was meant to go.
LEMMA TickReturnKeeps ==
  ASSUME ClockInv, NEW a \in Alarm, NEW n \in 0 .. MaxDelay, TickReturn(a, n)
  PROVE  /\ ClockInv'
         /\ ~Astray /\ Astray' => calling /\ next \in Listed /\ next \notin Listed'
<1>1. /\ Called(a) /\ remaining[a] + n <= MaxDelay + 1
      /\ IF n = 0
         THEN /\ alarms' = Without(alarms, a)
              /\ UNCHANGED <<time, rollover, remaining>>
         ELSE /\ Reschedule(a, time[a] + n, rollover[a], remaining[a] + n)
              /\ UNCHANGED alarms
      /\ calling' = FALSE
      /\ alarm' = next
      /\ next' = ListHead
      /\ UNCHANGED <<nticks, ticking, resettime, setting, elapsed>>
  BY DEF TickReturn, Onward, timeVars
<1>2. /\ calling /\ alarm = a /\ ticking /\ a # ListHead /\ a \in Known
      /\ (rollover[a] => nticks # 0)
  BY <1>1 DEF Called, ClockInv, Known
<1>3. DueIn(a, rollover[a])
  BY <1>2 DEF ClockInv, Rollover, DueIn
<1>4. next \in Alarm \cup {ListHead} /\ (next # ListHead => next \in Known)
  BY ListFacts DEF Known
<1>5. CASE n = 0
  <2>1. /\ alarms' \in Seq(Alarm) /\ Distinct(alarms')
        /\ Listed' = Listed \ {a}
    BY <1>1, <1>5, ListFacts, FromIs, WithoutDistinct
  <2>2. \A p : p # a => Behind(alarms', p) = From(p) \ {a}
    BY <1>1, <1>5, ListFacts, BehindWithout
  <2>3. ClockTypeOK'
    BY <1>1, <1>4, <1>5, <2>1 DEF ClockInv, ClockTypeOK
  <2>4. ASSUME NEW b \in Known'
        PROVE  DueIn(b, Rollover(b))'
    <3>1. b \in Known
      BY <1>1, <1>4, <2>1 DEF Known
    <3> QED
      BY <3>1, <1>1, <1>5 DEF ClockInv, DueIn, Rollover
  <2>5. ASSUME NEW b \in Listed'
        PROVE  (b \in ToCome \/ Astray \/ DoneWith(b))'
    <3>1. b \in Listed /\ b # a /\ (b \in ToCome \/ Astray \/ DoneWith(b))
      BY <2>1 DEF ClockInv
    <3>2. CASE DoneWith(b)
      BY <3>2, <1>1, <1>5 DEF DoneWith
    <3>3. CASE Astray
      BY <3>3, <1>1, <1>2, <2>1 DEF Astray
    <3>4. CASE b \in ToCome
      <4>1. b \in From(next)
        BY <3>1, <3>4, <1>2 DEF ToCome
      <4>2. CASE next = a
        BY <4>2, <1>1, <1>2, <2>1 DEF Astray
      <4>3. CASE next # a
        BY <4>1, <4>3, <3>1, <1>1, <2>2, FromIs DEF ToCome
      <4> QED
        BY <4>2, <4>3
    <3> QED
      BY <3>1, <3>2, <3>3, <3>4
  <2>6. ~Astray /\ Astray' => calling /\ next \in Listed /\ next \notin Listed'
    BY <1>1, <1>2, <2>1 DEF Astray
  <2> QED
    BY <1>1, <1>2, <2>1, <2>3, <2>4, <2>5, <2>6 DEF ClockInv
<1>6. CASE n # 0
  <2> DEFINE left == remaining[a] + n
  <2>1. /\ left \in 1 .. MaxDelay + 1
        /\ time[a] + n = IF rollover[a] THEN nticks + left - Wrap ELSE nticks + left
        /\ time[a] + n \in Nat
        /\ rollover[a] \in BOOLEAN
    <3>1. /\ remaining[a] \in 0 .. MaxDelay + 1 /\ time[a] \in 0 .. Wrap - 1
          /\ nticks \in 0 .. Wrap - 1 /\ rollover[a] \in BOOLEAN
      BY ListFacts
    <3> QED
      BY <3>1, <1>1, <1>3, <1>6 DEF DueIn
  <2>2. Reschedule(a, time[a] + n, rollover[a], left) /\ nticks' = nticks /\ alarms' = alarms
    BY <1>1, <1>6
  <2> HIDE DEF left
  <2>3. /\ DueIn(a, Rollover(a))'
        /\ DoneWith(a)'
        /\ time' \in [Alarm -> Ticks]
        /\ rollover' \in [Alarm -> BOOLEAN]
        /\ remaining' \in [Alarm -> 0 .. MaxDelay + 1]
        /\ \A b \in Alarm \ {a} : /\ time'[b] = time[b]
                                  /\ rollover'[b] = rollover[b]
                                  /\ remaining'[b] = remaining[b]
    BY <2>1, <2>2, SetIsDue
  <2>4. Listed' = Listed /\ \A p : Behind(alarms', p) = From(p)
    BY <2>2, ListFacts, FromIs
  <2>5. ClockTypeOK'
    BY <1>1, <1>4, <2>2, <2>3 DEF ClockInv, ClockTypeOK
  <2>6. ASSUME NEW b \in Known'
        PROVE  DueIn(b, Rollover(b))'
    <3>1. b \in Known /\ b \in Alarm
      BY <1>1, <1>4, <2>4, ListFacts DEF Known
    <3>2. CASE b = a
      BY <3>2, <2>3
    <3>3. CASE b # a
      BY <3>1, <3>3, <2>2, <2>3 DEF ClockInv, DueIn, Rollover
    <3> QED
      BY <3>2, <3>3
  <2>7. ASSUME NEW b \in Listed'
        PROVE  (b \in ToCome \/ Astray \/ DoneWith(b))'
    <3>1. b \in Listed /\ b \in Alarm /\ (b \in ToCome \/ Astray \/ DoneWith(b))
      BY <2>4, ListFacts DEF ClockInv
    <3>2. CASE b = a
      BY <3>2, <2>3
    <3>3. CASE b # a /\ DoneWith(b)
      BY <3>1, <3>3, <2>2, <2>3 DEF DoneWith
    <3>4. CASE Astray
      BY <3>4, <1>1, <1>2, <2>4 DEF Astray
    <3>5. CASE b # a /\ b \in ToCome
      <4>1. b \in From(next)
        BY <3>5, <1>2 DEF ToCome
      <4> QED
        BY <4>1, <1>1, <2>4, FromIs DEF ToCome
    <3> QED
      BY <3>1, <3>2, <3>3, <3>4, <3>5
  <2>8. Astray' => Astray
    BY <1>1, <1>2, <2>4 DEF Astray
  <2> QED
    BY <1>1, <1>2, <2>2, <2>5, <2>6, <2>7, <2>8 DEF ClockInv
<1> QED
  BY <1>5, <1>6

LEMMA TickEndKeeps ==
  ASSUME ClockInv, TickEnd
  PROVE  ClockInv' /\ ~Astray'
<1>1. /\ ticking /\ ~calling /\ alarm = ListHead /\ ticking' = FALSE
      /\ UNCHANGED <<nticks, time, rollover, alarms, alarm, calling, next, remaining,
                     resettime, setting, elapsed>>
  BY DEF TickEnd, timeVars
<1>2. ClockTypeOK'
  BY <1>1 DEF ClockInv, ClockTypeOK
<1>3. ~Astray /\ ~Astray'
  BY <1>1 DEF Astray
<1>4. Listed' = Listed /\ ToCome' = ToCome /\ Known' = Known
  BY <1>1 DEF Listed, ToCome, From, Known
<1> QED
  BY <1>1, <1>2, <1>3, <1>4 DEF ClockInv, DueIn, Rollover, DoneWith

LEMMA SetTimeKeeps ==
  ASSUME ClockInv, NEW t \in Setting, SetTimeOfDay(t)
  PROVE  ClockInv'
<1>1. /\ resettime' = [tv_sec |-> t.tv_sec - nticks \div TickRate,
                       tv_usec |-> t.tv_usec - MicrosSubtracted]
      /\ setting' = t /\ elapsed' = 0
      /\ UNCHANGED <<nticks, time, rollover, alarms, ticking, alarm, calling, next, remaining>>
  BY DEF SetTimeOfDay, alarmVars, walkVars
<1>2. t.tv_sec \in Int /\ t.tv_usec \in Int /\ t \in TimeVal
  BY DEF TimeVal
<1>3. nticks \div TickRate \in Int /\ MicrosSubtracted \in Int
  <2>a. ALT_US \div TickRate \in Nat
    BY DivMod
  <2>1. nticks \in Nat /\ TickMicros \in Nat
    BY <2>a, ListFacts DEF TickMicros
  <2>2. nticks * TickMicros \in Nat
    BY <2>1, ProductNat
  <2>3. (nticks * TickMicros) % Wrap \in Nat
    BY <2>2, DivMod
  <2> QED
    BY <2>1, <2>3, DivMod DEF MicrosSubtracted
<1>4. resettime' \in TimeVal
  BY <1>1, <1>2, <1>3 DEF TimeVal
<1>5. ClockTypeOK'
  BY <1>1, <1>2, <1>4 DEF ClockInv, ClockTypeOK
<1>6. Listed' = Listed /\ ToCome' = ToCome /\ Known' = Known /\ Astray' = Astray
  BY <1>1 DEF Listed, ToCome, From, Known, Astray
<1> QED
  BY <1>1, <1>5, <1>6 DEF ClockInv, DueIn, Rollover, DoneWith

LEMMA ClockStepKeeps ==
  ASSUME ClockInv, [Next]_vars
  PROVE  ClockInv'
<1>1. CASE TimerInit \/ IoRedirect \/ MainReturns \/ Files \/ UNCHANGED vars
  BY <1>1, ClockUntouched
  DEF TimerInit, IoRedirect, RedirectTo, MainReturns, Files, vars, clockVars
<1>2. CASE UartInit
  <2>1. TickRate \in 0 .. MaxDelay
    OBVIOUS
  <2> QED
    BY <1>2, <2>1, StartKeeps DEF UartInit
<1>3. CASE Alarms
  BY <1>3, StartKeeps, StopKeeps DEF Alarms
<1>4. CASE SetTime
  BY <1>4, SetTimeKeeps DEF SetTime
<1>5. CASE Tick
  <2>1. CASE Return
    <3>1. TickRate \in 0 .. MaxDelay
      OBVIOUS
    <3> QED
      BY <2>1, <3>1, TickReturnKeeps DEF Return
  <2> QED
    BY <1>5, <2>1, TickBeginKeeps, TickPassKeeps, TickCallKeeps, TickEndKeeps DEF Tick
<1>6. CASE Callback
  BY <1>6, StartKeeps, StopKeeps DEF Callback
<1> QED
  BY <1>1, <1>2, <1>3, <1>4, <1>5, <1>6 DEF Next

\* For every width of the counter and every delay shorter than its turn, the
\* time and flag of each alarm say when it is due (alt_tick.c, alt_alarm_start.c).
THEOREM AlarmsInOrder == Spec => []ClockInv
  BY ClockInitially, ClockStepKeeps, PTL DEF Spec

\* For every width of the counter: alt_tick calls an alarm exactly on the tick
\* its period ends (alt_tick.c:109-133).
THEOREM AlarmsAreOnTime == Spec => []FiresOnTime
<1>1. ClockInv => FiresOnTime
  BY DueIsExpired DEF FiresOnTime
<1> QED
  BY <1>1, AlarmsInOrder, PTL

\* For every width of the counter and every set of alarms, whatever the program and
\* the callbacks start and stop: an alarm that is due is still to come in the tick
\* under way, or the walk has been led astray (alt_tick.c:102, alt_alarm_start.c).
THEOREM AlarmsAreNotOverdue == Spec => []NoneOverdue
<1>1. ClockInv => NoneOverdue
  BY DEF ClockInv, DoneWith, NoneOverdue
<1> QED
  BY <1>1, AlarmsInOrder, PTL

\* For every set of alarms: a walk is led astray only when the alarm read as the
\* next one is taken off the list during a callback, so a program whose callbacks
\* never do that loses no tick (alt_tick.c:102, 140, alt_llist.h:115).
THEOREM AstrayOnlyByStopOfNext == Spec => LedAstrayByStopOfNext
<1> DEFINE Led == ~Astray /\ Astray' => calling /\ next \in Listed /\ next \notin Listed'
<1>1. ClockInv /\ [Next]_vars => [Led]_vars
  <2> SUFFICES ASSUME ClockInv, Next
               PROVE  Led
    OBVIOUS
  <2>1. ASSUME NEW a \in Alarm, AlarmStop(a)
        PROVE  ~Astray /\ Astray' => ticking /\ Pointer \in Listed /\ Pointer \notin Listed'
    BY <2>1 DEF AlarmStop, walkVars, Astray, Pointer
  <2>2. CASE TimerInit \/ IoRedirect \/ MainReturns \/ Files \/ SetTime
    <3>1. UNCHANGED <<alarms, ticking, alarm, calling, next>>
      BY <2>2 DEF TimerInit, IoRedirect, RedirectTo, MainReturns, Files, SetTime, SetTimeOfDay,
                  clockVars, alarmVars, walkVars
    <3> QED
      BY <3>1 DEF Astray, Listed
  <2>3. CASE UartInit
    <3>1. TickRate \in 0 .. MaxDelay
      OBVIOUS
    <3> QED
      BY <2>3, <3>1, StartKeeps DEF UartInit
  <2>4. CASE Alarms
    BY <2>4, <2>1, StartKeeps DEF Alarms, Program
  <2>5. CASE Callback
    <3>1. calling
      BY <2>5 DEF Callback, Called
    <3> QED
      BY <2>5, <2>1, <3>1, StartKeeps DEF Callback, Pointer
  <2>6. CASE Tick
    <3>1. CASE Return
      <4>1. TickRate \in 0 .. MaxDelay
        OBVIOUS
      <4> QED
        BY <3>1, <4>1, TickReturnKeeps DEF Return
    <3> QED
      BY <2>6, <3>1, TickBeginKeeps, TickPassKeeps, TickCallKeeps, TickEndKeeps DEF Tick
  <2> QED
    BY <2>2, <2>3, <2>4, <2>5, <2>6 DEF Next
<1> QED
  BY <1>1, AlarmsInOrder, PTL DEF Spec, LedAstrayByStopOfNext

\* Types, for all values of the constants (alt_tick.c, alt_alarm.h, alt_file.h).
THEOREM HalTypeCorrect == Spec => []TypeOK
<1> DEFINE Stage == phase \in Phases /\ services \in Services
<1>1. Init => Stage
  BY DEF Init, Phases
<1>2. Stage /\ [Next]_vars => Stage'
  <2> SUFFICES ASSUME Stage, [Next]_vars
               PROVE  Stage'
    OBVIOUS
  <2>1. CASE TimerInit \/ UartInit \/ IoRedirect \/ MainReturns
    BY <2>1 DEF TimerInit, UartInit, IoRedirect, RedirectTo, MainReturns, Step, Phases
  <2>2. CASE Files \/ Alarms \/ SetTime
    BY <2>2 DEF Files, Alarms, SetTime, Program
  <2>3. CASE Tick \/ Callback \/ UNCHANGED vars
    BY <2>3 DEF Tick, Callback, vars
  <2> QED
    BY <2>1, <2>2, <2>3 DEF Next
<1>3. ClockInv /\ FileInv /\ Stage => TypeOK
  BY DEF ClockInv, FileInv, TypeOK
<1> HIDE DEF Stage
<1> QED
  BY <1>1, <1>2, <1>3, AlarmsInOrder, FilesInOrder, PTL DEF Spec

(***************************************************************************)
(* Time of day.                                                            *)
(***************************************************************************)

LEMMA MicrosFacts ==
  /\ TickMicros \in Nat \ {0}
  /\ ALT_US = TickRate * TickMicros
<1>1. /\ TickMicros \in Nat
      /\ ALT_US = TickMicros * TickRate + (ALT_US % TickRate)
  BY DivMod DEF TickMicros
<1>2. ALT_US = TickMicros * TickRate
  BY <1>1, RateAssumption
<1>3. TickMicros # 0
  BY <1>1, <1>2
<1>4. TickMicros * TickRate = TickRate * TickMicros
  BY <1>1
<1> QED
  BY <1>1, <1>2, <1>3, <1>4

\* What a number of ticks is in seconds and microseconds.
LEMMA TicksInMicros ==
  ASSUME NEW n \in Nat
  PROVE  /\ (n * TickMicros) % ALT_US = (n % TickRate) * TickMicros
         /\ (n % TickRate) * TickMicros \in 0 .. ALT_US - 1
         /\ n * TickMicros = (n \div TickRate) * ALT_US + (n % TickRate) * TickMicros
         /\ n \div TickRate \in Nat
<1> DEFINE q == n \div TickRate
           d == n % TickRate
           r == TickRate
           m == TickMicros
           p == ALT_US
           k == n * m
<1>1. r \in Nat \ {0} /\ m \in Nat \ {0} /\ p = r * m /\ p \in Nat \ {0}
  BY MicrosFacts
<1>2. q \in Nat /\ d \in 0 .. r - 1 /\ n = q * r + d
  BY DivMod
<1> HIDE DEF q, d, r, m, p
<1>3. d * m \in Nat /\ q * p \in Nat /\ k \in Nat
  BY <1>1, <1>2, ProductNat
<1>4. (d + 1) * m <= r * m /\ (d + 1) * m = d * m + m
  BY <1>1, <1>2, ProductMonotone
<1>5. d * m \in 0 .. p - 1
  BY <1>1, <1>3, <1>4
<1>6. k = q * p + d * m
  <2>1. (q * r + d) * m = (q * r) * m + d * m /\ (q * r) * m = q * (r * m)
    BY <1>1, <1>2
  <2> QED
    BY <1>1, <1>2, <2>1
<1> HIDE DEF k
<1>7. k % p = d * m
  BY <1>1, <1>2, <1>3, <1>5, <1>6, ModUnique, Zenon
<1> QED
  BY <1>2, <1>5, <1>6, <1>7 DEF q, d, r, m, p, k

\* The number of ticks when the time was set.
SetAt == nticks - elapsed

\* What settimeofday has left behind.
TimeInv ==
    /\ setting \in [tv_sec : Nat, tv_usec : 0 .. ALT_US - 1]
    /\ SetFits =>
        resettime = [tv_sec |-> setting.tv_sec - SetAt \div TickRate,
                     tv_usec |-> setting.tv_usec - ((SetAt * TickMicros) % ALT_US)]

LEMMA TimeInitially == Init => TimeInv
<1> SUFFICES ASSUME ClockInit
             PROVE  TimeInv
  BY DEF Init
<1>1. SetAt = 0 /\ 0 \div TickRate = 0 /\ 0 * TickMicros = 0 /\ 0 % ALT_US = 0
  <2>1. SetAt = 0
    BY DEF ClockInit, SetAt
  <2>2. 0 = 0 * TickRate + 0 /\ 0 = 0 * ALT_US + 0
    OBVIOUS
  <2>3. 0 \div TickRate = 0 /\ 0 % ALT_US = 0
    BY <2>2, ModUnique
  <2> QED
    BY <2>1, <2>3, MicrosFacts
<1> QED
  BY <1>1 DEF ClockInit, TimeInv

LEMMA TimeUntouched ==
  ASSUME TimeInv, UNCHANGED <<nticks, timeVars>>
  PROVE  TimeInv'
  BY DEF timeVars, TimeInv, SetFits, SetAt

LEMMA TimeTicks ==
  ASSUME ClockInv, TimeInv, TickBegin
  PROVE  TimeInv'
<1>1. /\ nticks' = (nticks + 1) % Wrap
      /\ elapsed' = IF elapsed < Wrap THEN elapsed + 1 ELSE elapsed
      /\ UNCHANGED <<resettime, setting>>
  BY DEF TickBegin
<1>2. nticks \in 0 .. Wrap - 1 /\ elapsed \in 0 .. Wrap
  BY DEF ClockInv, ClockTypeOK, Ticks
<1>3. IF nticks = Wrap - 1 THEN nticks' = 0 ELSE nticks' = nticks + 1
  <2>1. CASE nticks = Wrap - 1
    <3>1. nticks + 1 = 0 + Wrap /\ 0 \in 0 .. Wrap - 1
      BY <2>1
    <3> QED
      BY <3>1, <2>1, <1>1, ModPlusModulus
  <2>2. CASE nticks # Wrap - 1
    <3>1. nticks + 1 \in 0 .. Wrap - 1
      BY <2>2, <1>2
    <3> QED
      BY <3>1, <2>2, <1>1, ModSmall
  <2> QED
    BY <2>1, <2>2
<1>4. elapsed' <= nticks' => elapsed <= nticks /\ SetAt' = SetAt
  BY <1>1, <1>2, <1>3 DEF SetAt
<1>5. SetFits' => SetFits /\ SetAt' = SetAt
  BY <1>4 DEF SetFits, SetAt
<1> QED
  BY <1>1, <1>5 DEF TimeInv

LEMMA TimeSet ==
  ASSUME ClockInv, TimeInv, NEW t \in Setting, SetTimeOfDay(t)
  PROVE  TimeInv'
<1>1. /\ resettime' = [tv_sec |-> t.tv_sec - nticks \div TickRate,
                       tv_usec |-> t.tv_usec - MicrosSubtracted]
      /\ setting' = t /\ elapsed' = 0 /\ nticks' = nticks
  BY DEF SetTimeOfDay, alarmVars
<1>2. nticks \in Nat
  BY ListFacts
<1>3. SetAt' = nticks
  BY <1>1, <1>2 DEF SetAt
<1>4. SetFits' => (nticks * TickMicros) % Wrap = nticks * TickMicros
  <2> SUFFICES ASSUME nticks * TickMicros < Wrap
               PROVE  (nticks * TickMicros) % Wrap = nticks * TickMicros
    BY <1>3 DEF SetFits, SetAt
  <2>1. nticks * TickMicros \in Nat
    BY <1>2, MicrosFacts, ProductNat
  <2> QED
    BY <2>1, ModSmall
<1> QED
  BY <1>1, <1>3, <1>4 DEF TimeInv, MicrosSubtracted

LEMMA TimeStepKeeps ==
  ASSUME ClockInv, TimeInv, [Next]_vars
  PROVE  TimeInv'
<1>1. CASE TimerInit \/ IoRedirect \/ MainReturns \/ Files \/ UNCHANGED vars
  BY <1>1, TimeUntouched
  DEF TimerInit, IoRedirect, RedirectTo, MainReturns, Files, vars, clockVars, alarmVars
<1>2. CASE UartInit \/ Alarms \/ Callback
  BY <1>2, TimeUntouched DEF UartInit, Alarms, Callback, AlarmStart, AlarmStop
<1>3. CASE SetTime
  BY <1>3, TimeSet DEF SetTime
<1>4. CASE Tick
  BY <1>4, TimeTicks, TimeUntouched
  DEF Tick, Return, TickReturn, TickPass, TickCall, TickEnd
<1> QED
  BY <1>1, <1>2, <1>3, <1>4 DEF Next

\* What gettimeofday makes of seconds and microseconds.
LEMMA NormalForm ==
  ASSUME NEW us \in Nat \ {0}, NEW sec \in Int, NEW usec \in Int,
         -us < usec, usec < 2 * us, sec * us + usec >= 0,
         NEW t, t = CASE usec < 0 /\ sec <= 0 -> [tv_sec |-> 0, tv_usec |-> 0]
                      [] usec < 0 /\ sec > 0 -> [tv_sec |-> sec - 1, tv_usec |-> usec + us]
                      [] usec >= us -> [tv_sec |-> sec + 1, tv_usec |-> usec - us]
                      [] OTHER -> [tv_sec |-> sec, tv_usec |-> usec]
  PROVE  /\ t.tv_usec \in 0 .. us - 1
         /\ t.tv_sec * us + t.tv_usec = sec * us + usec
<1>1. ~(usec < 0 /\ sec <= 0)
  <2> SUFFICES ASSUME usec < 0, sec <= 0
               PROVE  FALSE
    OBVIOUS
  <2>1. -sec \in Nat /\ (-sec) * us \in Nat
    BY ProductNat
  <2>2. sec * us = -((-sec) * us)
    OBVIOUS
  <2> QED
    BY <2>1, <2>2
<1>2. (sec - 1) * us = sec * us - us /\ (sec + 1) * us = sec * us + us /\ sec * us \in Int
  OBVIOUS
<1>3. CASE usec < 0
  BY <1>1, <1>2, <1>3
<1>4. CASE usec >= us
  <2>1. ~(usec < 0)
    BY <1>4
  <2>2. t = [tv_sec |-> sec + 1, tv_usec |-> usec - us]
    BY <1>4, <2>1
  <2>3. t.tv_sec * us = sec * us + us /\ t.tv_usec = usec - us
    BY <1>2, <2>2
  <2> QED
    BY <1>2, <1>4, <2>3
<1>5. CASE usec \in 0 .. us - 1
  BY <1>1, <1>2, <1>5
<1> QED
  BY <1>3, <1>4, <1>5

LEMMA Balance ==
  ASSUME NEW set \in Int, NEW was \in Int, NEW is \in Int, NEW now \in Int,
         NEW then \in Int, NEW rest \in Int, NEW passed \in Int, NEW sec, NEW usec,
         sec = set - then + now, usec = was - rest + is,
         now + is = then + rest + passed
  PROVE  sec + usec = set + was + passed
  OBVIOUS

\* For every width of the counter and every rate that divides a second: while
\* the product of settimeofday fits and the counter does not wrap around, the
\* time of day is the one last set plus the ticks since (alt_settod.c,
\* alt_gettod.c).
THEOREM TimeOfDayIsKept == Spec => []TimeIsKept
<1>1. ClockInv /\ TimeInv => TimeIsKept
  <2> SUFFICES ASSUME ClockInv, TimeInv, SetFits
               PROVE  /\ TimeOfDay.tv_usec \in 0 .. ALT_US - 1
                      /\ InMicros(TimeOfDay) = InMicros(setting) + elapsed * TickMicros
    BY DEF TimeIsKept
  <2> DEFINE m == TickMicros
             now == nticks \div TickRate
             then == SetAt \div TickRate
             nowRest == (nticks % TickRate) * m
             thenRest == (SetAt % TickRate) * m
             sec == resettime.tv_sec + now
             usec == resettime.tv_usec + ((nticks * m) % ALT_US)
  <2>1. m \in Nat \ {0} /\ ALT_US = TickRate * m
    BY MicrosFacts
  <2>2. nticks \in Nat /\ elapsed \in Nat /\ SetAt \in Nat /\ nticks = SetAt + elapsed
    BY DEF ClockInv, ClockTypeOK, Ticks, SetFits, SetAt
  <2> HIDE DEF m
  <2>3. /\ (nticks * m) % ALT_US = nowRest
        /\ nowRest \in 0 .. ALT_US - 1
        /\ nticks * m = now * ALT_US + nowRest
        /\ now \in Nat
    BY <2>2, TicksInMicros DEF m
  <2>4. /\ (SetAt * m) % ALT_US = thenRest
        /\ thenRest \in 0 .. ALT_US - 1
        /\ SetAt * m = then * ALT_US + thenRest
        /\ then \in Nat
    BY <2>2, TicksInMicros DEF m
  <2>5. /\ setting.tv_sec \in Nat /\ setting.tv_usec \in 0 .. ALT_US - 1
        /\ resettime.tv_sec = setting.tv_sec - then
        /\ resettime.tv_usec = setting.tv_usec - thenRest
    BY <2>4 DEF TimeInv, m
  <2> HIDE DEF now, then, nowRest, thenRest
  <2>6. /\ sec = setting.tv_sec - then + now
        /\ usec = setting.tv_usec - thenRest + nowRest
        /\ sec \in Int /\ usec \in Int
    BY <2>3, <2>4, <2>5
  <2>7. -ALT_US < usec /\ usec < 2 * ALT_US
    BY <2>3, <2>4, <2>5, <2>6
  <2>8. sec * ALT_US + usec = setting.tv_sec * ALT_US + setting.tv_usec + elapsed * m
    <3>1. nticks * m = SetAt * m + elapsed * m /\ elapsed * m \in Nat
      BY <2>1, <2>2, ProductNat
    <3>2. (setting.tv_sec - then + now) * ALT_US
            = setting.tv_sec * ALT_US - then * ALT_US + now * ALT_US
      BY <2>3, <2>4, <2>5
    <3>3. /\ setting.tv_sec * ALT_US \in Nat /\ then * ALT_US \in Nat /\ now * ALT_US \in Nat
      BY <2>3, <2>4, <2>5, ProductNat
    <3>4. sec * ALT_US = setting.tv_sec * ALT_US - then * ALT_US + now * ALT_US
      BY <2>6, <3>2
    <3>5. now * ALT_US + nowRest = then * ALT_US + thenRest + elapsed * m
      BY <2>3, <2>4, <3>1
    <3>6. nowRest \in Int /\ thenRest \in Int /\ setting.tv_usec \in Int
      BY <2>3, <2>4, <2>5
    <3>7. usec = setting.tv_usec - thenRest + nowRest
      BY <2>6
    <3> QED
      BY <3>1, <3>3, <3>4, <3>5, <3>6, <3>7, Balance
  <2>9. sec * ALT_US + usec >= 0
    <3>1. setting.tv_sec * ALT_US \in Nat /\ elapsed * m \in Nat
      BY <2>1, <2>2, <2>5, ProductNat
    <3> QED
      BY <2>5, <2>8, <3>1
  <2>10. TimeOfDay = CASE usec < 0 /\ sec <= 0 -> [tv_sec |-> 0, tv_usec |-> 0]
                       [] usec < 0 /\ sec > 0 -> [tv_sec |-> sec - 1, tv_usec |-> usec + ALT_US]
                       [] usec >= ALT_US -> [tv_sec |-> sec + 1, tv_usec |-> usec - ALT_US]
                       [] OTHER -> [tv_sec |-> sec, tv_usec |-> usec]
    BY DEF TimeOfDay, now, m
  <2> HIDE DEF sec, usec
  <2>11. /\ TimeOfDay.tv_usec \in 0 .. ALT_US - 1
         /\ TimeOfDay.tv_sec * ALT_US + TimeOfDay.tv_usec = sec * ALT_US + usec
    BY <2>6, <2>7, <2>9, <2>10, NormalForm
  <2> QED
    BY <2>8, <2>11 DEF InMicros, m
<1>2. Spec => []TimeInv
  BY TimeInitially, TimeStepKeeps, AlarmsInOrder, PTL DEF Spec
<1> QED
  BY <1>1, <1>2, AlarmsInOrder, PTL
=============================================================================
