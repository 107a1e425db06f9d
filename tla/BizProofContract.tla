--------------------------- MODULE BizProofContract ---------------------------
(***************************************************************************)
(* The contract of one chain job: contracts/bizproof.compact and its twin  *)
(* program-core.compact (the ledger and the administrator's circuits are   *)
(* the same in both).  A circuit is one transaction, which the chain       *)
(* applies as a whole or refuses; the order of the transactions of the     *)
(* administrator and of the holders is the chain's.                        *)
(*                                                                         *)
(* A secret is known by one account only, so adminKey and holderKey, which *)
(* hash it under different tags, are modelled by the account itself.  A    *)
(* signature is its membership in `attested`: what the owner of a key has  *)
(* signed for a holder (IssuerVault.issue).                                *)
(***************************************************************************)
EXTENDS Integers, FiniteSets

CONSTANTS
  Account, IssuerId, Key, CredentialId, RequestId,
  Company,      \* commitments to companies
  Claims,       \* records as BusinessClaims
  Policies,     \* records as Policy
  NoAccount,    \* the hash of a secret that nobody knows
  MaxTime,      \* bound on trustedTime
  MaxAttested   \* bound on the attestations signed

ASSUME ContractAssumption ==
  /\ NoAccount \notin Account
  /\ MaxTime \in Nat
  /\ \A claims \in Claims : claims.credentialId \in CredentialId
  /\ \A policy \in Policies : policy.issuerId \in IssuerId

Time == 0..MaxTime

VARIABLES
  program,           \* it is program-core.compact
  administrator,
  trustedTime,
  issuerKeys,        \* a function on the issuers that are registered
  suspendedIssuers,
  revoked,
  requests,          \* a function on the requests that exist
  cancelled,
  results,           \* a function on the requests that are answered
  attested           \* external: what the owners of the keys have signed

ledger == <<administrator, trustedTime, issuerKeys, suspendedIssuers, revoked,
            requests, cancelled, results>>
vars == <<program, ledger, attested>>

RequestValue == [holder : Account, policy : Policies, company : Company, deadline : Time]
Attestation  == [key : Key, holder : Account, claims : Claims]

Registered == DOMAIN issuerKeys
Created    == DOMAIN requests
Answered   == DOMAIN results

\* Types.  The maps of the ledger are functions on what was inserted, and a look-up
\* that a circuit makes after its assertions finds what it looks for.
ContractTypeOK ==
  /\ program \in BOOLEAN
  /\ administrator \in Account \cup {NoAccount}
  /\ trustedTime \in Time
  /\ Registered \subseteq IssuerId /\ issuerKeys \in [Registered -> Key]
  /\ suspendedIssuers \subseteq IssuerId
  /\ revoked \subseteq CredentialId
  /\ Created \subseteq RequestId /\ requests \in [Created -> RequestValue]
  /\ \A r \in Created : requests[r].policy.issuerId \in Registered
  /\ cancelled \subseteq RequestId
  /\ Answered \subseteq Created /\ results \in [Answered -> BOOLEAN]
  /\ attested \subseteq Attestation

\* Map.insert.
Insert(map, key, value) == [k \in DOMAIN map \cup {key} |-> IF k = key THEN value ELSE map[k]]

InitContract ==
  /\ program \in BOOLEAN
  /\ administrator \in Account
  /\ trustedTime \in Time
  /\ issuerKeys = [i \in {} |-> NoAccount]
  /\ suspendedIssuers = {} /\ revoked = {}
  /\ requests = [r \in {} |-> NoAccount]
  /\ cancelled = {}
  /\ results = [r \in {} |-> NoAccount]
  /\ attested = {}

-----------------------------------------------------------------------------
(***************************************************************************)
(* The administrator's circuits; the caller is the one who knows a secret. *)
(***************************************************************************)

RequireAdmin(a) == administrator = a /\ UNCHANGED <<program, attested>>

\* Mutant of RegisterIssuer: an issuer's key can be replaced.
ReplaceIssuer(a, i, k) ==
  /\ RequireAdmin(a)
  /\ issuerKeys' = Insert(issuerKeys, i, k)
  /\ UNCHANGED <<administrator, trustedTime, suspendedIssuers, revoked, requests, cancelled, results>>

RegisterIssuer(a, i, k) ==
  /\ RequireAdmin(a)
  /\ i \notin Registered
  /\ issuerKeys' = Insert(issuerKeys, i, k)
  /\ UNCHANGED <<administrator, trustedTime, suspendedIssuers, revoked, requests, cancelled, results>>

SuspendIssuer(a, i) ==
  /\ RequireAdmin(a)
  /\ suspendedIssuers' = suspendedIssuers \cup {i}
  /\ UNCHANGED <<administrator, trustedTime, issuerKeys, revoked, requests, cancelled, results>>

ResumeIssuer(a, i) ==
  /\ RequireAdmin(a)
  /\ suspendedIssuers' = suspendedIssuers \ {i}
  /\ UNCHANGED <<administrator, trustedTime, issuerKeys, revoked, requests, cancelled, results>>

RevokeCredential(a, c) ==
  /\ RequireAdmin(a)
  /\ revoked' = revoked \cup {c}
  /\ UNCHANGED <<administrator, trustedTime, issuerKeys, suspendedIssuers, requests, cancelled, results>>

AdvanceTime(a, timestamp) ==
  /\ RequireAdmin(a)
  /\ timestamp >= trustedTime
  /\ trustedTime' = timestamp
  /\ UNCHANGED <<administrator, issuerKeys, suspendedIssuers, revoked, requests, cancelled, results>>

\* The next administrator is given by a hash, which may be anybody's or nobody's.
RotateAdministrator(a, next) ==
  /\ RequireAdmin(a)
  /\ administrator' = next
  /\ UNCHANGED <<trustedTime, issuerKeys, suspendedIssuers, revoked, requests, cancelled, results>>

ValidPolicy(policy) ==
  IF program THEN policy.minFoundedDay <= policy.maxFoundedDay
             ELSE policy.minRevenue <= policy.maxRevenue

\* Mutant of CreateRequest: the policy's issuer may be registered later.
CreateEarly(a, r, value) ==
  /\ RequireAdmin(a)
  /\ r \notin Created
  /\ value.deadline > trustedTime
  /\ ValidPolicy(value.policy)
  /\ requests' = Insert(requests, r, value)
  /\ UNCHANGED <<administrator, trustedTime, issuerKeys, suspendedIssuers, revoked, cancelled, results>>

CreateRequest(a, r, value) ==
  /\ RequireAdmin(a)
  /\ r \notin Created
  /\ value.deadline > trustedTime
  /\ ValidPolicy(value.policy)
  /\ value.policy.issuerId \in Registered
  /\ requests' = Insert(requests, r, value)
  /\ UNCHANGED <<administrator, trustedTime, issuerKeys, suspendedIssuers, revoked, cancelled, results>>

\* A request need not exist to be cancelled.
CancelRequest(a, r) ==
  /\ RequireAdmin(a)
  /\ r \notin Answered
  /\ cancelled' = cancelled \cup {r}
  /\ UNCHANGED <<administrator, trustedTime, issuerKeys, suspendedIssuers, revoked, requests, results>>

-----------------------------------------------------------------------------
(***************************************************************************)
(* The holder's circuit.                                                   *)
(***************************************************************************)

\* bizproof.compact's comparison; a region 0 stands for any.
EligibleClaims(claims, policy) ==
  /\ claims.revenue \in policy.minRevenue..policy.maxRevenue
  /\ claims.foundedDay >= policy.minFoundedDay
  /\ policy.region \in {0, claims.region}
  /\ policy.requireCertification => claims.certified

\* program-core.compact's comparison.
CoreEligible(claims, policy) ==
  /\ policy.requireFinance =>
       \/ claims.fiscalYear = policy.fiscalYear /\ claims.revenue >= policy.minRevenue
       \/ claims.investment >= policy.minInvestment
  /\ claims.plannedResidents >= policy.minResidents
  /\ claims.foundedDay \in policy.minFoundedDay..policy.maxFoundedDay

Eligible(claims, policy) ==
  IF program THEN CoreEligible(claims, policy) ELSE EligibleClaims(claims, policy)

\* What program-core.compact asserts besides.
FitsProgram(claims, request) ==
  /\ claims.issuedAt <= trustedTime
  /\ claims.companyCommitment = request.company

\* The signature verifies under the issuer's key, over the claims and the holder.
Attests(a, claims, request) ==
  [key |-> issuerKeys[request.policy.issuerId], holder |-> a, claims |-> claims] \in attested

\* Mutant of Open: a request that was answered is open still.
OpenAgain(r) ==
  /\ r \in Created \ cancelled
  /\ requests[r].deadline > trustedTime

Open(r) ==
  /\ r \in Created \ (Answered \cup cancelled)
  /\ requests[r].deadline > trustedTime

\* Mutant of Valid: the ledger's revocations are not looked up.
ValidThoughRevoked(claims, policy) ==
  /\ claims.expiresAt > trustedTime
  /\ policy.issuerId \notin suspendedIssuers

Valid(claims, policy) ==
  /\ claims.expiresAt > trustedTime
  /\ claims.credentialId \notin revoked
  /\ policy.issuerId \notin suspendedIssuers

Submit(a, r, claims) ==
  /\ Open(r)
  /\ requests[r].holder = a
  /\ Valid(claims, requests[r].policy)
  /\ program => FitsProgram(claims, requests[r])
  /\ Attests(a, claims, requests[r])
  /\ results' = Insert(results, r, Eligible(claims, requests[r].policy))
  /\ UNCHANGED <<program, attested, administrator, trustedTime, issuerKeys, suspendedIssuers,
                 revoked, requests, cancelled>>

\* External: the owner of a key signs claims for a holder.
Attest(attestation) ==
  /\ Cardinality(attested) < MaxAttested
  /\ attested' = attested \cup {attestation}
  /\ UNCHANGED <<program, ledger>>

-----------------------------------------------------------------------------
Administer(a) ==
  \/ \E i \in IssuerId :
       SuspendIssuer(a, i) \/ ResumeIssuer(a, i) \/ \E k \in Key : RegisterIssuer(a, i, k)
  \/ \E c \in CredentialId : RevokeCredential(a, c)
  \/ \E t \in Time : AdvanceTime(a, t)
  \/ \E next \in Account \cup {NoAccount} : RotateAdministrator(a, next)
  \/ \E r \in RequestId :
       CancelRequest(a, r) \/ \E value \in RequestValue : CreateRequest(a, r, value)

Next ==
  \/ \E a \in Account :
       \/ Administer(a)
       \/ \E r \in RequestId, claims \in Claims : Submit(a, r, claims)
  \/ \E attestation \in Attestation : Attest(attestation)

Spec == InitContract /\ [][Next]_vars

-----------------------------------------------------------------------------
(***************************************************************************)
(* Properties.                                                             *)
(***************************************************************************)

\* The attestation is the request's issuer's, for the request's holder and company.
Concerns(attestation, r) ==
  /\ attestation.key = issuerKeys[requests[r].policy.issuerId]
  /\ attestation.holder = requests[r].holder
  /\ program => attestation.claims.companyCommitment = requests[r].company

\* The issuer still vouches for the claims: it is not suspended, has not revoked the
\* credential, and the trusted time is within the claims' validity.
InForce(attestation, r) ==
  /\ requests[r].policy.issuerId \notin suspendedIssuers
  /\ attestation.claims.credentialId \notin revoked
  /\ attestation.claims.expiresAt > trustedTime
  /\ program => attestation.claims.issuedAt <= trustedTime

AnswerFrom(attestation, r) ==
  IF Eligible(attestation.claims, requests[r].policy) THEN "eligible" ELSE "ineligible"

Registry == INSTANCE RequestRegistry WITH
  posted    <- Created,
  withdrawn <- cancelled,
  lapsed    <- {r \in Created : requests[r].deadline <= trustedTime},
  answers   <- [r \in RequestId |->
                  IF r \notin Answered THEN "none"
                  ELSE IF results[r] THEN "eligible" ELSE "ineligible"],
  backed    <- {pair \in Created \X {"eligible", "ineligible"} :
                  \E attestation \in attested :
                    /\ Concerns(attestation, pair[1]) /\ InForce(attestation, pair[1])
                    /\ pair[2] = AnswerFrom(attestation, pair[1])}

\* In whatever order the chain takes the transactions of administrators and holders,
\* a request is answered once at most, for good, and not after it was cancelled or
\* its deadline passed; and the answer is one that an attestation in force gives at
\* that moment, so none comes of a credential revoked, an issuer suspended or claims
\* expired before the submission arrived (createRequest, cancelRequest, advanceTime,
\* revokeCredential, suspendIssuer, submit).
EveryRequestOnce == Registry!RegistrySpec

\* The claims the answer to r stands on.
Stands(r) ==
  \E attestation \in attested :
    /\ Concerns(attestation, r)
    /\ results[r] = Eligible(attestation.claims, requests[r].policy)

\* Every answer stands, for good, on claims that the request's issuer signed for the
\* request's holder, and on nobody else's: issuer keys are immutable, requests are too
\* (registerIssuer, createRequest, submit).
AnswersStandOnAttestations == \A r \in Answered : Stands(r)
=============================================================================
