SPECIFICATION Spec
CONSTANTS
  Job = {j1, j2}
  ProgramJob = {p1}
  Capacity = 1
  Credential = {c1}
  Worker = {w1}
  Target = {}
  Mode = {"automatic"}
  OwnerLimit = 2
  MaxOutages = 0
  Application = {a1}
  ProgramWorker = {v1}
  ProgramTarget = {}
  ProgramMode = {"automatic"}
  ProgramOwnerLimit = 2
SYMMETRY Symmetry
INVARIANTS
  OneOpenJobPerCredential
  ConsentedJobsWithinCapacity
CHECK_DEADLOCK FALSE
