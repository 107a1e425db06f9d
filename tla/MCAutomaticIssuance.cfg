SPECIFICATION FairSpec
CONSTANTS
  Job = {j1}
  NoJob = NoJob
  Handler = {p1, p2}
  IdentityLimit = 2
  MaxRevision = 4
  MaxAttempts = 2
  ImportTries = 2
INVARIANTS
  OneSessionPerConsent
  ReviewIsNotOverruled
  CompletedIsReceived
PROPERTIES
  ReceivedStays
  EveryJobSettles
CHECK_DEADLOCK FALSE
