SPECIFICATION FairSpec
CONSTANTS
  Job = {j1}
  ProgramJob = {}
  Capacity = 1
  Credential = {c1}
  Worker = {w1}
  Target = {t1}
  Mode = {"automatic"}
  OwnerLimit = 2
  MaxOutages = 1
  Application = {}
  ProgramWorker = {}
  ProgramTarget = {}
  ProgramMode = {}
  ProgramOwnerLimit = 2
PROPERTIES
  RevocationIsTakenUp
CHECK_DEADLOCK FALSE
