---------------------- MODULE PolicyTranslationProofs ----------------------
(***************************************************************************)
(* The conversion is exact for any calendar, limits, moments, claims and   *)
(* terms.  The search leaves a day that is accepted next to one that is    *)
(* not; the window of 35 days is enough because anniversaries are out of   *)
(* order only within a month's length (Local).                             *)
(***************************************************************************)
EXTENDS PolicyTranslation, FiniteSetTheorems, TLAPS

\* The months of the calendar are in order.
LEMMA MonthsInOrder ==
  ASSUME NEW k \in 0..LastMonth, NEW l \in 0..LastMonth, k <= l
  PROVE  /\ MonthStart[k] \in Nat
         /\ MonthStart[l] \in Nat
         /\ MonthStart[k] <= MonthStart[l]
<1>1. MonthStart[k] \in Nat /\ MonthStart[l] \in Nat
  BY CalendarAssumption
<1>2. CASE k = l
  BY <1>1, <1>2
<1>3. CASE k < l
  <2>1. k \in 0..LastMonth - 1 /\ l \in k + 1..LastMonth
    BY <1>3, CalendarAssumption
  <2>2. MonthStart[k] + 28 <= MonthStart[l]
    BY <2>1, CalendarAssumption
  <2> QED BY <1>1, <2>2
<1> QED BY <1>2, <1>3, CalendarAssumption

\* A day and its month.
LEMMA DayInMonth ==
  ASSUME NEW d \in 0..LastDay
  PROVE  /\ MonthOf[d] \in 0..LastMonth - 1
         /\ MonthOf[d] + 1 \in 0..LastMonth
         /\ MonthStart[MonthOf[d]] \in Nat
         /\ MonthStart[MonthOf[d] + 1] \in Nat
         /\ DayOfMonth(d) \in 0..30
         /\ d = MonthStart[MonthOf[d]] + DayOfMonth(d)
         /\ d < MonthStart[MonthOf[d] + 1]
         /\ MonthStart[MonthOf[d] + 1] - MonthStart[MonthOf[d]] \in 28..31
<1>1. MonthOf[d] \in 0..LastMonth - 1
  BY CalendarAssumption
<1>0. LastMonth \in Nat
  BY CalendarAssumption
<1>2. MonthOf[d] \in 0..LastMonth /\ MonthOf[d] + 1 \in 0..LastMonth
  BY <1>0, <1>1
<1>3. MonthStart[MonthOf[d]] \in Nat /\ MonthStart[MonthOf[d] + 1] \in Nat
  BY <1>2, CalendarAssumption
<1>4. d - MonthStart[MonthOf[d]] \in 0..30
  BY CalendarAssumption
<1>5. d < MonthStart[MonthOf[d] + 1]
  BY CalendarAssumption
<1>6. MonthStart[MonthOf[d] + 1] - MonthStart[MonthOf[d]] \in 28..31
  BY <1>1, CalendarAssumption
<1>7. d \in Int
  BY CalendarAssumption
<1> QED BY <1>1, <1>2, <1>3, <1>4, <1>5, <1>6, <1>7 DEF DayOfMonth

\* The month in which an anniversary is due.
LEMMA DueMonth ==
  ASSUME NEW m \in Limit, NEW d \in 0..LastDay
  PROVE  /\ m \in Nat
         /\ MonthOf[d] + m \in 0..LastMonth - 1
         /\ MonthOf[d] + m + 1 \in 0..LastMonth
         /\ MonthStart[MonthOf[d] + m] \in Nat
         /\ MonthStart[MonthOf[d] + m + 1] \in Nat
         /\ MonthStart[MonthOf[d] + m + 1] - MonthStart[MonthOf[d] + m] \in 28..31
<1> DEFINE k == MonthOf[d] + m
<1>1. m \in Nat /\ MonthOf[d] \in 0..LastMonth - 1 /\ LastMonth \in Nat
  BY InputAssumption, CalendarAssumption
<1>2. k < LastMonth
  BY InputAssumption
<1>3. k \in 0..LastMonth - 1 /\ k \in 0..LastMonth /\ k + 1 \in 0..LastMonth
  BY <1>1, <1>2
<1> HIDE DEF k
<1>4. MonthStart[k] \in Nat /\ MonthStart[k + 1] \in Nat
  BY <1>3, CalendarAssumption
<1>5. MonthStart[k + 1] - MonthStart[k] \in 28..31
  BY <1>3, CalendarAssumption
<1> QED BY <1>1, <1>3, <1>4, <1>5 DEF k

\* The anniversary lies in its month or, rolled over, at the start of the next,
\* and its day is the founding day's or the month's last.
LEMMA AnniversaryRange ==
  ASSUME NEW d \in 0..LastDay, policy.months \in Limit
  PROVE  LET k == MonthOf[d] + policy.months
         IN  /\ Anniversary(d) \in Nat
             /\ \/ Anniversary(d) = MonthStart[k] + DayOfMonth(d)
                \/ /\ Anniversary(d) = MonthStart[k + 1] - 1
                   /\ Fixed
                   /\ DayOfMonth(d) > MonthStart[k + 1] - MonthStart[k] - 1
             /\ Fixed => Anniversary(d) <= MonthStart[k + 1] - 1
<1> DEFINE k == MonthOf[d] + policy.months
           start == MonthStart[k]
           next == MonthStart[k + 1]
<1>1. start \in Nat /\ next \in Nat /\ next - start \in 28..31
  BY DueMonth
<1>2. DayOfMonth(d) \in 0..30
  BY DayInMonth
<1>3. Anniversary(d) = IF Fixed /\ DayOfMonth(d) > next - start - 1
                         THEN start + (next - start - 1)
                         ELSE start + DayOfMonth(d)
  BY DEF Anniversary
<1> HIDE DEF k, start, next
<1>4. CASE Fixed /\ DayOfMonth(d) > next - start - 1
  <2>1. Anniversary(d) = start + (next - start - 1)
    BY <1>3, <1>4
  <2>2. Anniversary(d) = next - 1 /\ Anniversary(d) \in Nat
    BY <2>1, <1>1
  <2> QED BY <2>2, <1>4, <1>1 DEF k, start, next
<1>5. CASE ~(Fixed /\ DayOfMonth(d) > next - start - 1)
  <2>1. Anniversary(d) = start + DayOfMonth(d)
    BY <1>3, <1>5
  <2>2. Anniversary(d) \in Nat
    BY <2>1, <1>1, <1>2
  <2>3. Fixed => Anniversary(d) <= next - 1
    BY <2>1, <1>5, <1>1, <1>2
  <2> QED BY <2>1, <2>2, <2>3 DEF k, start, next
<1> QED BY <1>4, <1>5

\* No anniversary is before the founding day.
LEMMA NotBefore ==
  ASSUME NEW d \in 0..LastDay, policy.months \in Limit
  PROVE  d <= Anniversary(d)
<1> DEFINE a == MonthOf[d]
           k == a + policy.months
<1>1. /\ a \in 0..LastMonth - 1
      /\ a + 1 \in 0..LastMonth
      /\ MonthStart[a] \in Nat
      /\ DayOfMonth(d) \in 0..30
      /\ d = MonthStart[a] + DayOfMonth(d)
      /\ d < MonthStart[a + 1]
  BY DayInMonth
<1>2. /\ policy.months \in Nat
      /\ k \in 0..LastMonth - 1
      /\ k + 1 \in 0..LastMonth
      /\ MonthStart[k] \in Nat
      /\ MonthStart[k + 1] \in Nat
  BY DueMonth
<1>3. /\ Anniversary(d) \in Nat
      /\ \/ Anniversary(d) = MonthStart[k] + DayOfMonth(d)
         \/ Anniversary(d) = MonthStart[k + 1] - 1
  BY AnniversaryRange
<1>0. k = a + policy.months /\ LastMonth \in Nat /\ LastDay \in Nat
  BY CalendarAssumption
<1> HIDE DEF a, k
<1>4. a <= k /\ a + 1 <= k + 1 /\ a \in 0..LastMonth /\ k \in 0..LastMonth
  BY <1>0, <1>1, <1>2
<1>5. MonthStart[a] <= MonthStart[k]
  BY <1>4, MonthsInOrder
<1>6. MonthStart[a + 1] <= MonthStart[k + 1] /\ MonthStart[a + 1] \in Nat
  BY <1>1, <1>2, <1>4, MonthsInOrder
<1>7. MonthStart[a] + DayOfMonth(d) <= MonthStart[k] + DayOfMonth(d)
  BY <1>1, <1>2, <1>5
<1>8. d <= MonthStart[k + 1] - 1
  BY <1>0, <1>1, <1>2, <1>6
<1> QED BY <1>1, <1>3, <1>7, <1>8

\* Anniversaries of days a month apart are in order.
LEMMA Local ==
  ASSUME NEW d \in 0..LastDay, NEW e \in 0..LastDay, d + 31 <= e,
         policy.months \in Limit
  PROVE  Anniversary(d) <= Anniversary(e)
<1> DEFINE a == MonthOf[d]
           b == MonthOf[e]
           k == a + policy.months
           l == b + policy.months
<1>1. /\ a \in 0..LastMonth - 1
      /\ a + 1 \in 0..LastMonth
      /\ MonthStart[a] \in Nat
      /\ MonthStart[a + 1] \in Nat
      /\ DayOfMonth(d) \in 0..30
      /\ d = MonthStart[a] + DayOfMonth(d)
      /\ MonthStart[a + 1] - MonthStart[a] \in 28..31
  BY DayInMonth
<1>2. /\ b \in 0..LastMonth - 1
      /\ b + 1 \in 0..LastMonth
      /\ MonthStart[b] \in Nat
      /\ MonthStart[b + 1] \in Nat
      /\ DayOfMonth(e) \in 0..30
      /\ e = MonthStart[b] + DayOfMonth(e)
      /\ e < MonthStart[b + 1]
  BY DayInMonth
<1>3. /\ policy.months \in Nat
      /\ k \in 0..LastMonth - 1
      /\ k + 1 \in 0..LastMonth
      /\ MonthStart[k] \in Nat
      /\ MonthStart[k + 1] \in Nat
      /\ MonthStart[k + 1] - MonthStart[k] \in 28..31
  BY DueMonth
<1>4. /\ l \in 0..LastMonth - 1
      /\ l + 1 \in 0..LastMonth
      /\ MonthStart[l] \in Nat
      /\ MonthStart[l + 1] \in Nat
      /\ MonthStart[l + 1] - MonthStart[l] \in 28..31
  BY DueMonth
<1>5. /\ Anniversary(d) \in Nat
      /\ \/ Anniversary(d) = MonthStart[k] + DayOfMonth(d)
         \/ Anniversary(d) = MonthStart[k + 1] - 1 /\ Fixed
      /\ Fixed => Anniversary(d) <= MonthStart[k + 1] - 1
  BY AnniversaryRange
<1>6. /\ Anniversary(e) \in Nat
      /\ \/ Anniversary(e) = MonthStart[l] + DayOfMonth(e)
         \/ Anniversary(e) = MonthStart[l + 1] - 1
  BY AnniversaryRange
<1>7. k = a + policy.months /\ l = b + policy.months
  OBVIOUS
<1>8. LastMonth \in Nat /\ LastDay \in Nat
  BY CalendarAssumption
<1> HIDE DEF a, b, k, l
<1>9. a < b
  <2> SUFFICES ASSUME b <= a PROVE FALSE
    BY <1>1, <1>2, <1>8
  <2>1. b + 1 <= a + 1
    BY <1>1, <1>2, <1>8
  <2>2. MonthStart[b + 1] <= MonthStart[a + 1]
    BY <1>1, <1>2, <2>1, MonthsInOrder
  <2> QED BY <1>1, <1>2, <2>2, <1>8
<1>10. k + 1 <= l
  BY <1>1, <1>2, <1>3, <1>7, <1>8, <1>9
<1>11. MonthStart[k + 1] <= MonthStart[l]
  BY <1>3, <1>4, <1>10, <1>8, MonthsInOrder
<1>12. MonthStart[l] <= Anniversary(e)
  BY <1>2, <1>4, <1>6
<1>13. CASE Fixed
  BY <1>3, <1>4, <1>5, <1>6, <1>11, <1>12, <1>13
<1>14. CASE ~Fixed
  <2>1. Anniversary(d) = MonthStart[k] + DayOfMonth(d)
    BY <1>5, <1>14
  <2>2. CASE b = a + 1
    <3>1. DayOfMonth(d) <= DayOfMonth(e)
      BY <1>1, <1>2, <1>8, <2>2
    <3>2. Anniversary(e) = MonthStart[l] + DayOfMonth(e)
          \/ Anniversary(e) >= MonthStart[l] + 27
      BY <1>4, <1>6
    <3>3. MonthStart[k] + 28 <= MonthStart[l]
      BY <1>3, <1>4, <1>11
    <3> QED BY <2>1, <3>1, <3>2, <3>3, <1>1, <1>2, <1>3, <1>4, <1>6
  <2>3. CASE b # a + 1
    <3>1. k + 1 \in 0..LastMonth - 1 /\ l \in k + 1 + 1..LastMonth
      BY <1>1, <1>2, <1>3, <1>4, <1>7, <1>8, <1>9, <2>3
    <3>2. MonthStart[k + 1] + 28 <= MonthStart[l]
      BY <3>1, CalendarAssumption
    <3> QED BY <2>1, <3>2, <1>12, <1>1, <1>3, <1>4, <1>6
  <2> QED BY <2>2, <2>3
<1> QED BY <1>13, <1>14
-----------------------------------------------------------------------------
(* The search.                                                             *)

\* lo is a boundary: it is accepted and the day before is not.
Boundary(day) == Accepted(day) /\ (day > 0 => ~Accepted(day - 1))

SearchInv ==
  /\ phase = "search" => /\ policy.months \in Limit
                         /\ lo <= hi
                         /\ Accepted(hi)
                         /\ lo > 0 => ~Accepted(lo - 1)
  /\ phase = "granted" => \/ policy.months = NoLimit /\ lo = 0
                          \/ policy.months \in Limit /\ Boundary(lo) /\ Exact
  /\ phase = "refused" => policy.months \in Limit /\ Boundary(lo) /\ ~Exact

IInv == TranslationTypeOK /\ SearchInv

\* The moment and its day; the search and its window lie in the calendar.
LEMMA MomentInRange ==
  ASSUME now \in Moment
  PROVE  /\ now \in Nat
         /\ Day(now) \in Nat
         /\ 2 * Day(now) <= now
         /\ now <= 2 * Day(now) + 1
         /\ LastDay \in Nat
         /\ Day(now) + 1 + 35 <= LastDay
<1>1. now \in Nat
  BY InputAssumption
<1>2. Day(now) + 1 + Margin <= LastDay
  BY InputAssumption
<1>3. LastDay \in Nat
  BY CalendarAssumption
<1>4. Day(now) \in Nat /\ 2 * Day(now) <= now /\ now <= 2 * Day(now) + 1
  BY <1>1 DEF Day
<1> QED BY <1>1, <1>2, <1>3, <1>4 DEF Margin

\* A company founded tomorrow is young enough, so the search starts above the
\* boundary.
LEMMA TomorrowIsAccepted ==
  ASSUME now \in Moment, policy \in Policy, policy.months \in Limit
  PROVE  Accepted(Day(now) + 1)
<1> DEFINE d == Day(now) + 1
<1>1. d \in 0..LastDay
  BY MomentInRange
<1>2. d <= Anniversary(d)
  BY <1>1, NotBefore
<1>3. Anniversary(d) \in Nat
  BY <1>1, AnniversaryRange
<1>4. now <= 2 * d - 1
  BY MomentInRange
<1>5. d \in Nat /\ now \in Nat
  BY MomentInRange
<1>6. 2 * d - 1 <= Deadline(d)
  <2>1. CASE policy.basis = "lt"
    BY <2>1, <1>2, <1>3, <1>5 DEF Deadline
  <2>2. CASE policy.basis # "lt"
    BY <2>2, <1>2, <1>3, <1>5 DEF Deadline
  <2> QED BY <2>1, <2>2
<1>7. Deadline(d) \in Int
  <2>1. CASE policy.basis = "lt"
    BY <2>1, <1>3 DEF Deadline
  <2>2. CASE policy.basis # "lt"
    BY <2>2, <1>3 DEF Deadline
  <2> QED BY <2>1, <2>2
<1> HIDE DEF d
<1> QED BY <1>4, <1>5, <1>6, <1>7 DEF Accepted, d

\* The search starts around the boundary.
LEMMA InitInv == Init => IInv
<1> SUFFICES ASSUME Init PROVE IInv
  OBVIOUS
<1>1. policy \in Policy /\ now \in Moment
  BY DEF Init
<1>2. policy.months = NoLimit \/ policy.months \in Limit
  BY <1>1 DEF Policy
<1>3. NoLimit \notin Limit
  BY InputAssumption
<1>4. Day(now) \in Nat
  BY <1>1, MomentInRange
<1>5. CASE policy.months = NoLimit
  BY <1>1, <1>4, <1>5 DEF Init, IInv, TranslationTypeOK, SearchInv
<1>6. CASE policy.months \in Limit
  <2>1. Accepted(Day(now) + 1)
    BY <1>1, <1>6, TomorrowIsAccepted
  <2> QED BY <1>1, <1>3, <1>4, <1>6, <2>1 DEF Init, IInv, TranslationTypeOK, SearchInv
<1> QED BY <1>2, <1>5, <1>6

\* What is accepted depends on the policy and the moment only.
LEMMA Frozen ==
  ASSUME UNCHANGED <<policy, now>>
  PROVE  \A d : Accepted(d)' <=> Accepted(d)
BY DEF Accepted, Deadline, Anniversary, DayOfMonth, Fixed

\* Each look at a day, and the conclusion, keep it.
LEMMA StepInv == IInv /\ [Next]_vars => IInv'
<1> SUFFICES ASSUME IInv, [Next]_vars PROVE IInv'
  OBVIOUS
<1> USE DEF IInv
<1>0. /\ Day(now) \in Nat
      /\ lo \in 0..Day(now) + 1
      /\ hi \in 0..Day(now) + 1
  BY MomentInRange DEF TranslationTypeOK
<1>1. CASE Narrow
  <2>1. /\ phase = "search"
        /\ lo < hi
        /\ UNCHANGED <<policy, now, phase>>
        /\ policy.months \in Limit
    BY <1>1 DEF Narrow, SearchInv
  <2>2. Middle \in Nat /\ lo <= Middle /\ Middle < hi
    BY <1>0, <2>1 DEF Middle
  <2>3. \A d : Accepted(d)' <=> Accepted(d)
    BY <2>1, Frozen
  <2>4. CASE Accepted(Middle)
    <3>1. hi' = Middle /\ lo' = lo
      BY <1>1, <2>4 DEF Narrow
    <3>2. TranslationTypeOK'
      BY <1>0, <2>1, <2>2, <3>1 DEF TranslationTypeOK
    <3>3. Accepted(hi)'
      BY <2>1, <2>4, <3>1 DEF Accepted, Deadline, Anniversary, DayOfMonth, Fixed
    <3>4. (lo > 0 => ~Accepted(lo - 1))'
      BY <2>1, <3>1 DEF SearchInv, Accepted, Deadline, Anniversary, DayOfMonth, Fixed
    <3> QED BY <1>0, <2>1, <2>2, <3>1, <3>2, <3>3, <3>4 DEF SearchInv
  <2>5. CASE ~Accepted(Middle)
    <3>1. lo' = Middle + 1 /\ hi' = hi
      BY <1>1, <2>5 DEF Narrow
    <3>2. TranslationTypeOK'
      BY <1>0, <2>1, <2>2, <3>1 DEF TranslationTypeOK
    <3>3. Accepted(hi)'
      BY <2>1, <3>1 DEF SearchInv, Accepted, Deadline, Anniversary, DayOfMonth, Fixed
    <3>4. lo' - 1 = Middle
      BY <2>2, <3>1
    <3>5. ~Accepted(lo - 1)'
      BY <2>1, <2>5, <3>4 DEF Accepted, Deadline, Anniversary, DayOfMonth, Fixed
    <3> QED BY <1>0, <2>1, <2>2, <3>1, <3>2, <3>3, <3>5 DEF SearchInv
  <2> QED BY <2>4, <2>5
<1>2. CASE Conclude
  <2>1. /\ phase = "search"
        /\ lo >= hi
        /\ phase' = IF Exact THEN "granted" ELSE "refused"
        /\ UNCHANGED <<policy, now, lo, hi>>
    BY <1>2 DEF Conclude
  <2>2. TranslationTypeOK'
    BY <2>1 DEF TranslationTypeOK
  <2>3. lo = hi /\ policy.months \in Limit
    BY <1>0, <2>1 DEF SearchInv
  <2>4. Boundary(lo)
    BY <2>1, <2>3 DEF SearchInv, Boundary
  <2>5. Boundary(lo)' <=> Boundary(lo)
    BY <2>1 DEF Boundary, Accepted, Deadline, Anniversary, DayOfMonth, Fixed
  <2>6. Exact' <=> Exact
    BY <2>1 DEF Exact, Window, Accepted, Deadline, Anniversary, DayOfMonth, Fixed
  <2> QED BY <2>1, <2>2, <2>3, <2>4, <2>5, <2>6 DEF SearchInv
<1>3. CASE UNCHANGED vars
  BY <1>3 DEF vars, TranslationTypeOK, SearchInv, Boundary, Exact, Window, Accepted,
              Deadline, Anniversary, DayOfMonth, Fixed
<1> QED BY <1>1, <1>2, <1>3 DEF Next

\* The search closes in on a founding day that is accepted while the day before it is
\* not, and what it concludes is about that day.
THEOREM Invariance == Spec => []IInv
<1> QED BY InitInv, StepInv, PTL DEF Spec

\* The search stays between 1970 and the day after the moment.
THEOREM TranslationTypes == Spec => []TranslationTypeOK
<1> QED BY Invariance, PTL DEF IInv

\* Each look at a founding day leaves at most half of the days to look at, and the days
\* are whole: what ConversionEnds needs of the loop, for every limit and moment.
SearchHalves ==
  [][Narrow => /\ 2 * (hi' - lo') <= hi - lo
               /\ 0 <= hi' - lo' /\ hi' - lo' < hi - lo]_vars

\* The search halves the interval and never turns it over (ageFoundingCutoff).
THEOREM Halving == Spec => SearchHalves
<1> DEFINE Halves == /\ 2 * (hi' - lo') <= hi - lo
                     /\ 0 <= hi' - lo' /\ hi' - lo' < hi - lo
<1>1. ASSUME IInv, Narrow PROVE Halves
  <2>1. lo \in Nat /\ hi \in Nat /\ lo < hi
    BY <1>1, MomentInRange DEF IInv, TranslationTypeOK, Narrow
  <2>2. /\ Middle \in Nat /\ lo <= Middle /\ Middle < hi
        /\ 2 * Middle <= lo + hi /\ lo + hi <= 2 * Middle + 1
    BY <2>1 DEF Middle
  <2>3. \/ hi' = Middle /\ lo' = lo
        \/ lo' = Middle + 1 /\ hi' = hi
    BY <1>1 DEF Narrow
  <2> HIDE DEF Middle
  <2> QED
    BY <2>1, <2>2, <2>3
<1>2. IInv /\ [Next]_vars => [Narrow => Halves]_vars
  BY <1>1
<1> QED
  BY <1>2, Invariance, PTL DEF Spec, SearchHalves
-----------------------------------------------------------------------------
(* The boundary is exact for every day of the calendar.                    *)

\* Deadlines of days a month apart are in order, and so is their acceptance.
LEMMA LaterIsAccepted ==
  ASSUME now \in Moment, policy.months \in Limit,
         NEW d \in 0..LastDay, NEW e \in 0..LastDay, d + 31 <= e, Accepted(d)
  PROVE  Accepted(e)
<1>1. Anniversary(d) \in Nat /\ Anniversary(e) \in Nat
  BY AnniversaryRange
<1>2. Anniversary(d) <= Anniversary(e)
  BY Local
<1>3. now \in Nat
  BY MomentInRange
<1>4. CASE policy.basis = "lt"
  BY <1>1, <1>2, <1>3, <1>4 DEF Accepted, Deadline
<1>5. CASE policy.basis # "lt"
  BY <1>1, <1>2, <1>3, <1>5 DEF Accepted, Deadline
<1> QED BY <1>4, <1>5

\* What is exact around the boundary is exact for every day.
LEMMA ExactEverywhere ==
  ASSUME now \in Moment, policy.months \in Limit, lo \in 0..Day(now) + 1,
         Boundary(lo), Exact, NEW d \in 0..LastDay
  PROVE  Accepted(d) <=> d >= lo
<1>1. lo \in 0..LastDay /\ lo \in Nat /\ LastDay \in Nat /\ d \in Nat
  BY MomentInRange
<1>2. CASE d \in Window
  BY <1>2 DEF Exact
<1>3. CASE d \notin Window
  <2>1. d < lo - 35 \/ d > lo + 35
    BY <1>1, <1>3 DEF Window, Margin
  <2>2. CASE d > lo + 35
    <3>1. lo + 31 <= d /\ d >= lo
      BY <1>1, <2>2
    <3>2. Accepted(lo)
      BY DEF Boundary
    <3> QED BY <1>1, <3>1, <3>2, LaterIsAccepted
  <2>3. CASE d < lo - 35
    <3>1. lo > 0 /\ lo - 1 \in 0..LastDay /\ d + 31 <= lo - 1 /\ ~(d >= lo)
      BY <1>1, <2>3
    <3>2. ~Accepted(lo - 1)
      BY <3>1 DEF Boundary
    <3> QED BY <3>1, <3>2, LaterIsAccepted
  <2> QED BY <2>1, <2>2, <2>3
<1> QED BY <1>2, <1>3

\* The review's age condition is a lower bound of the founding day.
LEMMA AgeIsBound ==
  ASSUME IInv, phase = "granted", NEW d \in Founded, Supported(d)
  PROVE  AgePass(d) <=> d >= lo
<1>1. d \in 0..LastDay /\ d \in Nat
  BY InputAssumption, CalendarAssumption
<1>2. ~(Fixed /\ d > Day(now))
  BY DEF Supported
<1>3. CASE policy.months = NoLimit /\ lo = 0
  BY <1>1, <1>3 DEF AgePass
<1>4. CASE policy.months \in Limit /\ Boundary(lo) /\ Exact
  <2>1. policy.months # NoLimit
    BY <1>4, InputAssumption
  <2>2. Accepted(d) <=> d >= lo
    BY <1>1, <1>4, ExactEverywhere DEF IInv, TranslationTypeOK
  <2> QED BY <1>2, <2>1, <2>2 DEF AgePass
<1> QED BY <1>3, <1>4 DEF IInv, SearchInv

Below(R, y) == {x \in R : x <= y}

\* Positions in the sorted list are positive, and tell regions apart.
LEMMA IndexTellsApart ==
  ASSUME NEW R \in SUBSET Nat, IsFiniteSet(R), NEW q \in R, NEW r \in R
  PROVE  /\ Cardinality(Below(R, r)) \in Nat \ {0}
         /\ Cardinality(Below(R, q)) = Cardinality(Below(R, r)) <=> q = r
<1>1. ASSUME NEW y \in R
      PROVE  IsFiniteSet(Below(R, y)) /\ Cardinality(Below(R, y)) \in Nat \ {0}
  <2>1. Below(R, y) \in SUBSET R
    BY DEF Below
  <2>2. IsFiniteSet(Below(R, y))
    BY <2>1, FS_Subset
  <2>3. y \in Below(R, y)
    <3>1. y \in Nat
      OBVIOUS
    <3> QED BY <3>1 DEF Below
  <2>4. Cardinality(Below(R, y)) \in Nat
    BY <2>2, FS_CardinalityType
  <2>5. Cardinality(Below(R, y)) # 0
    BY <2>2, <2>3, FS_EmptySet
  <2> QED BY <2>2, <2>4, <2>5
<1>2. ASSUME NEW y \in R, NEW z \in R, y < z
      PROVE  Cardinality(Below(R, y)) # Cardinality(Below(R, z))
  <2>1. Below(R, y) \in SUBSET Below(R, z)
    <3> SUFFICES ASSUME NEW x \in Below(R, y) PROVE x \in Below(R, z)
      OBVIOUS
    <3>1. x \in R /\ x \in Nat /\ y \in Nat /\ z \in Nat /\ x <= y
      BY DEF Below
    <3>2. x <= z
      BY <1>2, <3>1
    <3> QED BY <3>1, <3>2 DEF Below
  <2>2. z \in Below(R, z) /\ z \notin Below(R, y)
    <3>1. y \in Nat /\ z \in Nat
      OBVIOUS
    <3> QED BY <1>2, <3>1 DEF Below
  <2>3. IsFiniteSet(Below(R, z))
    BY <1>1
  <2> QED BY <2>1, <2>2, <2>3, FS_Subset
<1>3. q \in Nat /\ r \in Nat
  OBVIOUS
<1>4. q # r => Cardinality(Below(R, q)) # Cardinality(Below(R, r))
  BY <1>2, <1>3
<1>5. Cardinality(Below(R, r)) \in Nat \ {0}
  BY <1>1
<1> QED BY <1>4, <1>5

\* The circuit compares positions as the review compares regions.
LEMMA RegionsAgree ==
  ASSUME NEW c \in Claim, NEW t \in Term, NEW u \in Term
  PROVE  LET R == Regions(c, t, u)
         IN  (Index(R, t.region) = 0 \/ Index(R, c.region) = Index(R, t.region))
               <=> (t.region # NoRegion => c.region = t.region)
<1> DEFINE R == Regions(c, t, u)
<1>1. /\ c.region \in Region
      /\ t.region \in Region \cup {NoRegion}
      /\ u.region \in Region \cup {NoRegion}
      /\ Region \subseteq Nat
      /\ NoRegion \notin Region
  BY InputAssumption
<1>2. R \in SUBSET Nat /\ c.region \in R
  BY <1>1 DEF Regions
<1>3. IsFiniteSet(R)
  <2>1. R \subseteq {c.region} \cup {t.region} \cup {u.region}
    BY DEF Regions
  <2>2. IsFiniteSet({c.region} \cup {t.region} \cup {u.region})
    <3>1. IsFiniteSet({c.region})
      BY FS_Singleton
    <3>2. IsFiniteSet({c.region} \cup {t.region})
      BY <3>1, FS_AddElement
    <3> QED BY <3>2, FS_AddElement
  <2> HIDE DEF R
  <2> QED BY <2>1, <2>2, FS_Subset
<1>4. CASE t.region = NoRegion
  BY <1>4 DEF Index
<1>5. CASE t.region # NoRegion
  <2>1. t.region \in R
    BY <1>5 DEF Regions
  <2>2. c.region # NoRegion
    BY <1>1
  <2> HIDE DEF R
  <2>3. /\ Cardinality(Below(R, t.region)) \in Nat \ {0}
        /\ Cardinality(Below(R, c.region)) = Cardinality(Below(R, t.region))
             <=> c.region = t.region
    BY <1>2, <1>3, <2>1, IndexTellsApart
  <2>4. /\ Index(R, t.region) = Cardinality(Below(R, t.region))
        /\ Index(R, c.region) = Cardinality(Below(R, c.region))
    BY <1>5, <2>2 DEF Index, Below
  <2>5. Index(R, t.region) # 0
    BY <2>3, <2>4
  <2>6. Index(R, c.region) = Index(R, t.region) <=> c.region = t.region
    BY <2>3, <2>4
  <2> QED BY <1>5, <2>5, <2>6 DEF R
<1> QED BY <1>4, <1>5

\* What the circuit says with the converted constants is what the review says.
LEMMA AgreesOnOne ==
  ASSUME IInv, phase = "granted", NEW d \in Founded, Supported(d),
         NEW c \in Claim, NEW t \in Term, NEW u \in Term
  PROVE  LET R == Regions(c, t, u)
         IN  Eligible(c, d, Index(R, c.region), Constants(t, R)) <=> Evaluate(c, d, t)
<1> DEFINE R == Regions(c, t, u)
           p == Constants(t, R)
<1>1. /\ c.revenue \in 0..Ceiling
      /\ t.minRevenue \in 0..Ceiling \cup {NoLimit}
      /\ t.maxRevenue \in 0..Ceiling \cup {NoLimit}
      /\ Ceiling \in Nat
      /\ NoLimit \notin Nat
  BY InputAssumption
<1>2. /\ p.minRevenue = IF t.minRevenue = NoLimit THEN 0 ELSE t.minRevenue
      /\ p.maxRevenue = IF t.maxRevenue = NoLimit THEN Ceiling ELSE t.maxRevenue
      /\ p.minFoundedDay = lo
      /\ p.region = Index(R, t.region)
      /\ p.requireCertification = t.requireCertification
  BY DEF Constants
<1> HIDE DEF p
<1>3. c.revenue >= p.minRevenue <=> (t.minRevenue # NoLimit => c.revenue >= t.minRevenue)
  BY <1>1, <1>2
<1>4. c.revenue <= p.maxRevenue <=> (t.maxRevenue # NoLimit => c.revenue <= t.maxRevenue)
  BY <1>1, <1>2
<1>5. d >= p.minFoundedDay <=> AgePass(d)
  BY <1>2, AgeIsBound
<1>6. (p.region = 0 \/ Index(R, c.region) = p.region)
        <=> (t.region # NoRegion => c.region = t.region)
  BY <1>2, RegionsAgree
<1> HIDE DEF R
<1>7. Eligible(c, d, Index(R, c.region), p) <=> Evaluate(c, d, t)
  BY <1>2, <1>3, <1>4, <1>5, <1>6, Zenon DEF Eligible, Evaluate
<1> QED BY <1>7 DEF p, R

\* No company is granted by the circuit and refused by the review, or the other
\* way round, for any calendar, policy, moment and claim.
THEOREM Agreement == Spec => []ProofAgrees
<1>1. IInv => ProofAgrees
  BY AgreesOnOne DEF ProofAgrees
<1> QED BY <1>1, Invariance, PTL

\* Where the conversion refuses, founding days are out of order.
THEOREM RefusalJustified == Spec => []RefusalIsJustified
<1>1. IInv => RefusalIsJustified
  <2> SUFFICES ASSUME IInv, phase = "refused"
               PROVE  \E d, e \in Window : d < e /\ Accepted(d) /\ ~Accepted(e)
    BY DEF RefusalIsJustified
  <2>1. /\ Boundary(lo)
        /\ ~Exact
        /\ lo \in 0..Day(now) + 1
        /\ now \in Moment
    BY DEF IInv, SearchInv, TranslationTypeOK
  <2>2. lo \in 0..LastDay /\ lo \in Nat /\ LastDay \in Nat
    BY <2>1, MomentInRange
  <2>3. PICK d \in Window : ~(Accepted(d) <=> d >= lo)
    BY <2>1 DEF Exact
  <2>4. /\ d \in 0..LastDay
        /\ d \in Nat
        /\ lo - 35 <= d
    BY <2>2 DEF Window, Margin
  <2>5. Accepted(lo)
    BY <2>1 DEF Boundary
  <2>6. CASE d >= lo
    <3>1. ~Accepted(d) /\ d # lo
      BY <2>3, <2>5, <2>6
    <3>2. lo < d
      BY <2>2, <2>4, <2>6, <3>1
    <3>3. lo \in Window
      BY <2>2 DEF Window, Margin
    <3> QED BY <2>3, <2>5, <3>1, <3>2, <3>3
  <2>7. CASE ~(d >= lo)
    <3>1. Accepted(d)
      BY <2>3, <2>7
    <3>2. lo > 0 /\ d <= lo - 1
      BY <2>2, <2>4, <2>7
    <3>3. ~Accepted(lo - 1)
      BY <2>1, <3>2 DEF Boundary
    <3>4. d # lo - 1
      BY <3>1, <3>3
    <3>5. d < lo - 1
      BY <2>2, <2>4, <3>2, <3>4
    <3>6. lo - 1 \in Window
      BY <2>2, <3>2 DEF Window, Margin
    <3> QED BY <2>3, <3>1, <3>3, <3>5, <3>6
  <2> QED BY <2>6, <2>7
<1> QED BY <1>1, Invariance, PTL
=============================================================================
