SPECIFICATION FairSpec
CONSTANTS
  p1 = p1
  p2 = p2
  r1 = r1
  r2 = r2
  r3 = r3
  Policy = {p1, p2}
  Eligible = {p1}
  Request = {r1, r2, r3}
  PolicyOf <- MCPolicyOf
  k1 = k1
  k2 = k2
  Key = {k1, k2}
  Item <- MCItem
  Configured = {p1}
  Archived = {p2}
  Invited = {p1}
  Company = {c1}
  Reviewer = {v1}
  Page = Page
  NoRequest = NoRequest
INVARIANTS
  WorkspaceTypeOK
  EverySubmissionHasReceipt
  OneReceiptPerKey
PROPERTIES
  FiledAsShown
  KeepsApplicationLedger
  RevocationReachesWallet
CHECK_DEADLOCK FALSE
