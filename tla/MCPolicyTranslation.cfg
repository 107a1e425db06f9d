SPECIFICATION FairSpec
CONSTANTS
  LastDay = 19900
  LastMonth = 1860
  MonthStart <- GregorianMonthStart
  MonthOf <- GregorianMonthOf
  Limit = {0, 1, 12, 36, 1200}
  Moment <- MCMoment
  Founded <- MCFounded
  Region = {1, 2}
  NoRegion = NoRegion
  Ceiling = 3
  Claim <- MCClaim
  Term <- MCTerm
  NoLimit = NoLimit
INVARIANTS
  ProofAgrees
  RefusalIsJustified
PROPERTIES
  ConversionEnds
CHECK_DEADLOCK FALSE
