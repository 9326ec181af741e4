-------------------------------- MODULE Time --------------------------------
(***************************************************************************)
(* utils::Time (Time.hpp): an expiry date of 48 bits, the upper 16 and the *)
(* lower 32 of them in fields of their own.  The sizes are scaled: the     *)
(* code's HighSize is 2^16.                                                *)
(***************************************************************************)
EXTENDS Integers

CONSTANT HighSize    \* number of values of expired_time_high_

ASSUME HighSizeAssumption == HighSize \in Nat /\ HighSize >= 2

LowSize == HighSize * HighSize

\* one more than the largest date; time_t has a sign and 16 bits more
DateSize == HighSize * LowSize
TimeTSize == HighSize * DateSize

\* "some kind of infinite future time"
Forever == [high |-> HighSize - 1, low |-> LowSize - 1]

\* mutant: times that do not fit are taken over
TimeUnchecked(time) == [high |-> time \div LowSize, low |-> time % LowSize]

\* Time(time_t): what 48 bits do not hold, negative times among it, is for ever
TimeOf(time) ==
  IF time < 0 \/ time >= DateSize THEN Forever
  ELSE [high |-> time \div LowSize, low |-> time % LowSize]

\* GetTime: the upper field is shifted by 48 bits
GetTime(date) ==
  LET time == date.low + date.high * DateSize
  IN  IF 2 * time >= TimeTSize THEN time - TimeTSize ELSE time

\* operator<
Less(d, e) == \/ d.high = e.high /\ d.low < e.low
              \/ d.high < e.high

\* IsExpired at the time that std::time returns
IsExpired(date, now) == Less(date, TimeOf(now))
=============================================================================
