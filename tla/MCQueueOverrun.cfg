SPECIFICATION Spec
CONSTANTS
  Job = {j1}
  ProgramJob = {p1}
  Capacity = 1
  Credential = {c1}
  Worker = {w1}
  Target = {t1}
  Mode = {"automatic"}
  OwnerLimit = 2
  MaxOutages = 0
  Application = {a1}
  ProgramWorker = {v1}
  ProgramTarget = {u1}
  ProgramMode = {"automatic"}
  ProgramOwnerLimit = 2
INVARIANTS
  QueueWithinCapacity
CHECK_DEADLOCK FALSE
