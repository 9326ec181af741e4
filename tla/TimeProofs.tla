------------------------------ MODULE TimeProofs ------------------------------
(***************************************************************************)
(* Dates in two fields are ordered like the times they were made from.     *)
(***************************************************************************)
EXTENDS Time, TLAPS

LEMMA SizesOfFields ==
  /\ LowSize \in Nat /\ LowSize >= 1
  /\ DateSize = HighSize * LowSize /\ DateSize \in Nat /\ DateSize >= 1
<1> DEFINE H == HighSize
           L == H * H
<1>1. H \in Nat /\ H >= 2
  BY HighSizeAssumption
<1> HIDE DEF H
<1>2. L \in Nat /\ L >= 1
  BY <1>1
<1> HIDE DEF L
<1>3. H * L \in Nat /\ H * L >= 1
  BY <1>1, <1>2
<1> QED BY <1>2, <1>3 DEF LowSize, DateSize, L, H

\* What the prover is told about quotients and remainders.
LEMMA Division ==
  ASSUME NEW t \in Nat, NEW l \in Nat, l >= 1
  PROVE  t \div l \in Nat /\ t % l \in 0 .. l - 1 /\ t = l * (t \div l) + (t % l)
<1>1. t % l \in 0 .. l - 1
  OBVIOUS
<1>2. t \div l \in Int
  OBVIOUS
<1>3. t = l * (t \div l) + (t % l)
  OBVIOUS
<1>4. t \div l >= 0
  OBVIOUS
<1> QED BY <1>1, <1>2, <1>3, <1>4

\* The fields of the date of a time that fits make up that time.
LEMMA FieldsOfDate ==
  ASSUME NEW t \in 0 .. DateSize - 1
  PROVE  \E h \in Nat, a \in 0 .. LowSize - 1 :
           TimeOf(t) = [high |-> h, low |-> a] /\ t = LowSize * h + a
<1>1. t \in Nat /\ t < DateSize
  BY SizesOfFields
<1>2. TimeOf(t) = [high |-> t \div LowSize, low |-> t % LowSize]
  BY <1>1, SizesOfFields DEF TimeOf
<1>3. /\ t \div LowSize \in Nat /\ t % LowSize \in 0 .. LowSize - 1
      /\ t = LowSize * (t \div LowSize) + (t % LowSize)
  BY <1>1, SizesOfFields, Division
<1> QED BY <1>2, <1>3

\* A larger upper field outweighs whatever the lower ones are.
LEMMA UpperFieldDecides ==
  ASSUME NEW l \in Nat, NEW h \in Nat, NEW k \in Nat, h < k,
         NEW a \in 0 .. l - 1, NEW b \in 0 .. l - 1
  PROVE  l * h + a < l * k + b
<1>1. l * (h + 1) <= l * k
  <2>1. \E d \in Nat : k = h + 1 + d
    <3>1. k - h - 1 \in Nat /\ k = h + 1 + (k - h - 1)
      OBVIOUS
    <3> QED BY <3>1
  <2>2. PICK d \in Nat : k = h + 1 + d
    BY <2>1
  <2>3. l * k = l * (h + 1) + l * d /\ l * d \in Nat /\ l * (h + 1) \in Nat
    BY <2>2
  <2> QED BY <2>3
<1>2. l * (h + 1) = l * h + l /\ l * h \in Nat /\ l * k \in Nat
  OBVIOUS
<1> QED BY <1>1, <1>2

\* operator< (Time.hpp:37) orders the dates of all times of 48 bits as the times are
\* ordered, so a value expires when its time has passed, not a field of it.
THEOREM DatesOrderedLikeTimes ==
  \A s, t \in 0 .. DateSize - 1 : Less(TimeOf(s), TimeOf(t)) <=> s < t
<1> SUFFICES ASSUME NEW s \in 0 .. DateSize - 1, NEW t \in 0 .. DateSize - 1
             PROVE  Less(TimeOf(s), TimeOf(t)) <=> s < t
  OBVIOUS
<1> DEFINE L == LowSize
<1>a. PICK h \in Nat, a \in 0 .. L - 1 :
        TimeOf(s) = [high |-> h, low |-> a] /\ s = L * h + a
  BY FieldsOfDate
<1>b. PICK k \in Nat, b \in 0 .. L - 1 :
        TimeOf(t) = [high |-> k, low |-> b] /\ t = L * k + b
  BY FieldsOfDate
<1>1. /\ TimeOf(s) = [high |-> h, low |-> a] /\ TimeOf(t) = [high |-> k, low |-> b]
      /\ h \in Nat /\ k \in Nat /\ a \in 0 .. L - 1 /\ b \in 0 .. L - 1
      /\ s = L * h + a /\ t = L * k + b
  BY <1>a, <1>b
<1>2. Less(TimeOf(s), TimeOf(t)) <=> (h = k /\ a < b) \/ h < k
  BY <1>1 DEF Less
<1>3. L \in Nat
  BY SizesOfFields
<1> HIDE DEF L
<1>4. CASE h < k
  BY <1>1, <1>2, <1>3, <1>4, UpperFieldDecides
<1>5. CASE k < h
  <2>1. t < s
    BY <1>1, <1>3, <1>5, UpperFieldDecides
  <2> QED BY <1>1, <1>2, <1>5, <2>1
<1>6. CASE h = k
  <2>1. L * h \in Nat /\ L * h = L * k
    BY <1>1, <1>3, <1>6
  <2> QED BY <1>1, <1>2, <1>6, <2>1
<1> QED BY <1>1, <1>4, <1>5, <1>6

\* A date that stands for a time beyond 48 bits, or a negative one, never expires,
\* whatever the clock shows (Time.hpp:20).
THEOREM ForeverNeverExpires ==
  \A time, now \in Int : (time < 0 \/ time >= DateSize) => ~IsExpired(TimeOf(time), now)
<1> SUFFICES ASSUME NEW time \in Int, NEW now \in Int, time < 0 \/ time >= DateSize
             PROVE  ~Less(Forever, TimeOf(now))
  BY DEF IsExpired, TimeOf
<1>1. CASE now < 0 \/ now >= DateSize
  BY <1>1, HighSizeAssumption, SizesOfFields DEF TimeOf, Less, Forever
<1>2. CASE now \in 0 .. DateSize - 1
  <2> DEFINE L == LowSize
  <2>1. PICK k \in Nat, b \in 0 .. L - 1 :
          TimeOf(now) = [high |-> k, low |-> b] /\ now = L * k + b
    BY <1>2, FieldsOfDate
  <2>2. L \in Nat /\ HighSize \in Nat /\ now < L * HighSize
    <3>1. HighSize \in Nat /\ LowSize \in Nat /\ now < HighSize * LowSize
      BY <1>2, HighSizeAssumption, SizesOfFields
    <3> QED BY <3>1
  <2> HIDE DEF L
  <2>3. k < HighSize
    <3>1. SUFFICES ASSUME HighSize < k PROVE FALSE
      <4>1. CASE k = HighSize
        <5>1. L * k \in Nat /\ L * k = L * HighSize
          BY <2>1, <2>2, <4>1
        <5> QED BY <2>1, <2>2, <5>1
      <4> QED BY <2>1, <2>2, <4>1
    <3>2. L * HighSize + b < L * k + b
      BY <2>1, <2>2, <3>1, UpperFieldDecides
    <3>3. L * HighSize \in Nat /\ L * k \in Nat
      BY <2>1, <2>2
    <3> QED BY <2>1, <2>2, <3>2, <3>3
  <2>4. Forever = [high |-> HighSize - 1, low |-> L - 1]
    BY DEF Forever, L
  <2> QED BY <2>1, <2>2, <2>3, <2>4 DEF Less
<1> QED BY <1>1, <1>2, SizesOfFields
=============================================================================
