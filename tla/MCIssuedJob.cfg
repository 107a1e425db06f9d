SPECIFICATION FairSpec
CONSTANTS
  Job = {j1}
  ProgramJob = {}
  Capacity = 1
  Credential = {c1}
  Worker = {w1, w2}
  Target = {t1, t2}
  Mode = {"manual", "automatic"}
  OwnerLimit = 2
  MaxOutages = 1
  Application = {}
  ProgramWorker = {}
  ProgramTarget = {}
  ProgramMode = {}
  ProgramOwnerLimit = 2
INVARIANTS
  TypeOK
  OnlyApprovedJobsRun
  ConfirmedIsOnChain
  RevokedJobStaysBlocked
PROPERTIES
  NothingRecordedIsLost
  VerificationIsNotDisturbed
  IssuedJobsKeepLedger
  InterruptedJobWaits
  EndedLeaseIsNoticed
  KnownRevocationIsTakenUp
  VerifiableJobSettles
CHECK_DEADLOCK FALSE
