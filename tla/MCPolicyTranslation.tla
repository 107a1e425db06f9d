------------------------ MODULE MCPolicyTranslation ------------------------
(* The calendar of 1970 to 2124 and the claims and terms of the instance.  *)
EXTENDS PolicyTranslation

Leap(y) == y % 4 = 0 /\ (y % 100 # 0 \/ y % 400 = 0)
DaysBefore == <<0, 31, 59, 90, 120, 151, 181, 212, 243, 273, 304, 334>>

\* 1970 is preceded by 492 years divisible by 4, 19 by 100 and 4 by 400.
GregorianMonthStart ==
  [k \in 0..LastMonth |->
     LET y == 1970 + k \div 12
         leapDays == ((y - 1) \div 4 - 492) - ((y - 1) \div 100 - 19)
                       + ((y - 1) \div 400 - 4)
     IN  365 * (y - 1970) + leapDays + DaysBefore[(k % 12) + 1]
           + (IF Leap(y) /\ k % 12 >= 2 THEN 1 ELSE 0)]

GregorianMonthOf ==
  [d \in 0..LastDay |->
     CHOOSE k \in ((12 * d) \div 366) - 1 .. ((12 * d) \div 365) + 1 :
       /\ k >= 0
       /\ GregorianMonthStart[k] <= d
       /\ d < GregorianMonthStart[k + 1]]

\* January to April 2024, 2023 and 2021: a leap year, the one before, and three
\* years before.
Months2024 == 648..651
NearMonthStarts(months, before, after) ==
  {GregorianMonthStart[k] + x : k \in months, x \in -before..after}

MCMoment ==
  {2 * d + half : d \in {0, 1} \cup NearMonthStarts(Months2024, 2, 2), half \in {0, 1}}

MCFounded ==
  {0, LastDay}
    \cup NearMonthStarts(Months2024 \cup 636..639 \cup 612..615, 3, 3)

MCClaim == [revenue: {0, 2, Ceiling}, region: Region, certified: {TRUE}]
             \cup [revenue: {2}, region: {1}, certified: {FALSE}]

MCTerm ==
  {[minRevenue |-> NoLimit, maxRevenue |-> NoLimit, region |-> NoRegion,
    requireCertification |-> FALSE],
   [minRevenue |-> 2, maxRevenue |-> NoLimit, region |-> 1,
    requireCertification |-> FALSE],
   [minRevenue |-> NoLimit, maxRevenue |-> 2, region |-> 2,
    requireCertification |-> TRUE]}
=============================================================================
