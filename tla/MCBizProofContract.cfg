SPECIFICATION Spec
CONSTANTS
  Account = {a1, a2}
  IssuerId = {i1, i2}
  Key = {k1, k2}
  credential = c1
  CredentialId = {c1}
  RequestId = {r1}
  Company = {m1, m2}
  NoAccount = NoAccount
  Claims <- MCClaimsSet
  Policies <- MCPolicies
  MaxTime = 2
  MaxAttested = 2
INVARIANTS
  ContractTypeOK
  AnswersStandOnAttestations
PROPERTY EveryRequestOnce
CHECK_DEADLOCK FALSE
