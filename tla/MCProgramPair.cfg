SPECIFICATION Spec
CONSTANTS
  Job = {}
  ProgramJob = {p1, p2}
  Capacity = 2
  Credential = {}
  Worker = {}
  Target = {}
  Mode = {}
  OwnerLimit = 2
  MaxOutages = 0
  Application = {a1}
  ProgramWorker = {v1, v2}
  ProgramTarget = {u1, u2}
  ProgramMode = {"manual", "automatic"}
  ProgramOwnerLimit = 2
SYMMETRY Symmetry
PROPERTIES
  ProgramJobsKeepLedger
  ProgramRecordsStay
CHECK_DEADLOCK FALSE
