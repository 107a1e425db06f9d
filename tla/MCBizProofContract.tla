------------------------- MODULE MCBizProofContract -------------------------
(***************************************************************************)
(* An instance of BizProofContract: two claims that differ in what the     *)
(* policies ask and in when they are valid, and a policy for each of two   *)
(* issuers.  Attributes that are only compared have one value where the    *)
(* comparison does not matter.                                             *)
(***************************************************************************)
EXTENDS BizProofContract

CONSTANT credential

MCClaims(revenue, issuedAt) ==
  [credentialId |-> credential, revenue |-> revenue, foundedDay |-> 1, region |-> 1,
   certified |-> TRUE, fiscalYear |-> 1, investment |-> 0, plannedResidents |-> 0,
   companyCommitment |-> CHOOSE c \in Company : TRUE, issuedAt |-> issuedAt,
   expiresAt |-> issuedAt + 1]

MCClaimsSet == {MCClaims(0, 0), MCClaims(1, 1)}

MCPolicies ==
  {[issuerId |-> i, minRevenue |-> 1, maxRevenue |-> 1, minFoundedDay |-> 0,
    maxFoundedDay |-> 1, region |-> 1, requireCertification |-> TRUE, fiscalYear |-> 1,
    requireFinance |-> TRUE, minInvestment |-> 1, minResidents |-> 0] : i \in IssuerId}
=============================================================================
