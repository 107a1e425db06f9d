------------------------- MODULE PolicyTranslation -------------------------
(***************************************************************************)
(* How the conditions of a policy become the constants of a circuit:       *)
(* contracts/sdk/policy-age.ts finds one founding day that stands for a    *)
(* limit on a company's age, contracts/sdk/issued-source.ts converts the   *)
(* rest.  The review of lib/domain.ts and the circuit of bizproof.compact  *)
(* must then say the same of every company.                                *)
(*                                                                         *)
(* Days count from 1970-01-01.  A moment is counted in half days: 2 * d is *)
(* midnight of day d and 2 * d + 1 any later moment of it, for deadlines   *)
(* are at midnight or (comparison "lt") at the last millisecond before.    *)
(***************************************************************************)
EXTENDS Integers, FiniteSets

CONSTANTS
  LastDay, LastMonth,  \* the calendar's horizon
  MonthStart,          \* the first day of every month since January 1970
  MonthOf,             \* the month of every day
  Limit,               \* limits on a company's age, in months
  Moment,              \* when a policy is evaluated
  Founded,             \* founding days
  Region, NoRegion,    \* regions, numbered as they sort
  Ceiling,             \* the largest revenue a claim may have
  Claim, Term,         \* what issuers attest and policies ask, age apart
  NoLimit

Day(moment) == moment \div 2

\* The window which is searched for exceptions around a boundary.
Margin == 35

\* What is used of the calendar: months follow each other, have 28 to 31 days,
\* and each day lies in its month.
ASSUME CalendarAssumption ==
  /\ LastDay \in Nat
  /\ LastMonth \in Nat
  /\ MonthStart \in [0..LastMonth -> Nat]
  /\ MonthOf \in [0..LastDay -> 0..LastMonth - 1]
  /\ \A k \in 0..LastMonth - 1 : MonthStart[k + 1] - MonthStart[k] \in 28..31
  /\ \A k \in 0..LastMonth - 1 : \A l \in k + 1..LastMonth :
       MonthStart[k] + 28 <= MonthStart[l]
  /\ \A d \in 0..LastDay : d - MonthStart[MonthOf[d]] \in 0..30
  /\ \A d \in 0..LastDay : d < MonthStart[MonthOf[d] + 1]

ASSUME InputAssumption ==
  /\ Limit \subseteq Nat
  /\ NoLimit \notin Nat
  /\ Moment \subseteq Nat
  /\ Founded \subseteq 0..LastDay
  /\ \A t \in Moment : Day(t) + 1 + Margin <= LastDay
  /\ \A m \in Limit, d \in 0..LastDay : MonthOf[d] + m < LastMonth
  /\ Region \subseteq Nat
  /\ NoRegion \notin Region
  /\ Ceiling \in Nat
  /\ Claim \subseteq [revenue: 0..Ceiling, region: Region, certified: BOOLEAN]
  /\ Term \subseteq [minRevenue: 0..Ceiling \cup {NoLimit},
                     maxRevenue: 0..Ceiling \cup {NoLimit},
                     region: Region \cup {NoRegion},
                     requireCertification: BOOLEAN]

VARIABLES
  policy,  \* the age limit: months, and how it is compared
  now,     \* the moment of a legacy rule, midnight of the reference date of a fixed one
  phase,   \* "search", or how the conversion ended
  lo, hi   \* the founding days between which the boundary is

vars == <<policy, now, phase, lo, hi>>

\* "instant" is a rule without reference date; validatePolicyExtensions wants
\* date, comparison and limit together.
Policy ==
  [months: Limit, basis: {"instant", "lt", "lte"}]
    \cup [months: {NoLimit}, basis: {"instant"}]

Fixed == policy.basis # "instant"

-----------------------------------------------------------------------------
(* policy-age.ts                                                           *)

\* The day of the month on which d lies, from 0.
DayOfMonth(d) == d - MonthStart[MonthOf[d]]

\* setUTCMonth rolls a 31st over into the next month; fixed rules clamp it to
\* the month's last day.
Anniversary(d) ==
  LET k == MonthOf[d] + policy.months
      last == MonthStart[k + 1] - MonthStart[k] - 1
  IN  IF Fixed /\ DayOfMonth(d) > last
        THEN MonthStart[k] + last
        ELSE MonthStart[k] + DayOfMonth(d)

Deadline(d) == 2 * Anniversary(d) - (IF policy.basis = "lt" THEN 1 ELSE 0)

Accepted(d) == now <= Deadline(d)

\* Mutant of Supported: the guard of a company founded after the date is missing.
SupportedAlways(d) == TRUE

\* assertAgeProofSupported: the circuit has a lower bound of founding days only.
Supported(d) == ~(Fixed /\ d > Day(now))

\* What the review finds, a company not yet founded being none of the right age.
AgePass(d) ==
  \/ policy.months = NoLimit
  \/ /\ ~(Fixed /\ d > Day(now))
     /\ Accepted(d)

Init ==
  /\ policy \in Policy
  /\ now \in Moment
  /\ Fixed => now % 2 = 0
  /\ phase = IF policy.months = NoLimit THEN "granted" ELSE "search"
  /\ lo = 0
  /\ hi = IF policy.months = NoLimit THEN 0 ELSE Day(now) + 1

Middle == (lo + hi) \div 2

\* Mutant of Narrow: the lower end stays where it was refused.
NarrowInclusive ==
  /\ phase = "search"
  /\ lo < hi
  /\ IF Accepted(Middle)
       THEN hi' = Middle /\ lo' = lo
       ELSE lo' = Middle /\ hi' = hi
  /\ UNCHANGED <<policy, now, phase>>

Narrow ==
  /\ phase = "search"
  /\ lo < hi
  /\ IF Accepted(Middle)
       THEN hi' = Middle /\ lo' = lo
       ELSE lo' = Middle + 1 /\ hi' = hi
  /\ UNCHANGED <<policy, now, phase>>

Window == {d \in 0..LastDay : lo - Margin <= d /\ d <= lo + Margin}

\* Mutant of Exact: the neighbours of the boundary are trusted.
ExactAtBoundary == Accepted(lo)

\* Mutant of Exact: the boundary itself is taken for one of the days before it.
ExactStrictly == \A d \in Window : Accepted(d) <=> d > lo

\* A single day is the boundary near lo.
Exact == \A d \in Window : Accepted(d) <=> d >= lo

Conclude ==
  /\ phase = "search"
  /\ lo >= hi
  /\ phase' = IF Exact THEN "granted" ELSE "refused"
  /\ UNCHANGED <<policy, now, lo, hi>>

Next == Narrow \/ Conclude

Spec == Init /\ [][Next]_vars
FairSpec == Spec /\ WF_vars(Next)

-----------------------------------------------------------------------------
(* domain.ts evaluate, issued-source.ts, and the last lines of submit      *)

Evaluate(c, d, t) ==
  /\ t.minRevenue # NoLimit => c.revenue >= t.minRevenue
  /\ t.maxRevenue # NoLimit => c.revenue <= t.maxRevenue
  /\ AgePass(d)
  /\ t.region # NoRegion => c.region = t.region
  /\ t.requireCertification => c.certified

\* Mutant of Index: positions from 0, so that the first region means none.
IndexFromZero(regions, r) ==
  IF r = NoRegion THEN 0 ELSE Cardinality({q \in regions : q < r})

\* regions.indexOf(r) + 1 in the sorted list; 0 stands for no region.
Index(regions, r) ==
  IF r = NoRegion THEN 0 ELSE Cardinality({q \in regions : q <= r})

\* A source carries one claim and two requests, which share the list.
Regions(c, t, u) == {c.region} \cup ({t.region, u.region} \ {NoRegion})

Constants(t, regions) ==
  [minRevenue |-> IF t.minRevenue = NoLimit THEN 0 ELSE t.minRevenue,
   maxRevenue |-> IF t.maxRevenue = NoLimit THEN Ceiling ELSE t.maxRevenue,
   minFoundedDay |-> lo,
   region |-> Index(regions, t.region),
   requireCertification |-> t.requireCertification]

Eligible(c, d, region, p) ==
  /\ c.revenue >= p.minRevenue
  /\ c.revenue <= p.maxRevenue
  /\ d >= p.minFoundedDay
  /\ p.region = 0 \/ region = p.region
  /\ p.requireCertification => c.certified

-----------------------------------------------------------------------------
TranslationTypeOK ==
  /\ policy \in Policy
  /\ now \in Moment
  /\ phase \in {"search", "granted", "refused"}
  /\ lo \in 0..Day(now) + 1
  /\ hi \in 0..Day(now) + 1

\* A conversion that is not refused is exact: for every company whose founding
\* day the circuit supports, the circuit with the converted constants says what
\* the review says, whatever the other request of the source asks.
ProofAgrees ==
  phase = "granted" =>
    \A d \in Founded : Supported(d) =>
      \A c \in Claim, t \in Term, u \in Term :
        LET regions == Regions(c, t, u)
        IN  Eligible(c, d, Index(regions, c.region), Constants(t, regions))
              <=> Evaluate(c, d, t)

\* A conversion is refused only if no founding day at all can be the boundary: a
\* company that is young enough was founded before one that is not.
RefusalIsJustified ==
  phase = "refused" =>
    \E d, e \in Window : d < e /\ Accepted(d) /\ ~Accepted(e)

\* The search ends, whatever the limit and the moment.
ConversionEnds == <>(phase # "search")
=============================================================================
