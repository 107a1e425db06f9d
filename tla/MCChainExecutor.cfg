SPECIFICATION FairSpec
CONSTANTS
  ProofSteps = 4
  SubmitSteps = {4}
  MaxInterruptions = 2
INVARIANTS
  ExecutorTypeOK
  NothingSentIsForgotten
  ReceiptsAreFinal
  SubmittedIsFinal
PROPERTIES
  MeetsJobLedger
  StrandedJobSendsNothing
  EveryStepOnce
  StoredTransactionIsReconciled
CHECK_DEADLOCK FALSE
