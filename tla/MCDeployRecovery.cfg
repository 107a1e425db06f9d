SPECIFICATION FairSpec
CONSTANTS
  ProofSteps = 3
  SubmitSteps = {3}
  MaxInterruptions = 1
PROPERTY InterruptedJobGoesOn
CHECK_DEADLOCK FALSE
