------------------------ MODULE BizProofContractProofs ------------------------
(***************************************************************************)
(* For any accounts, issuers, keys, requests and claims: the contract      *)
(* keeps its types, every answer stands on an attestation, and the         *)
(* contract implements RequestRegistry.  What an answer stands on never    *)
(* changes: keys and requests are inserted once, attestations are never    *)
(* unsaid, and an answer is inserted once.                                 *)
(***************************************************************************)
EXTENDS BizProofContract, TLAPS

CInv == ContractTypeOK /\ AnswersStandOnAttestations

\* An administrator's transaction signs nothing and changes no answer.
LEMMA AdminStep ==
  ASSUME NEW a, Administer(a)
  PROVE  UNCHANGED <<program, attested, results>>
BY DEF Administer, RequireAdmin, RegisterIssuer, SuspendIssuer, ResumeIssuer,
       RevokeCredential, AdvanceTime, RotateAdministrator, CreateRequest, CancelRequest

\* Map.insert keeps a map a map of the same kind.
LEMMA InsertingType ==
  ASSUME NEW S, NEW f, f \in [DOMAIN f -> S], NEW k, NEW v \in S
  PROVE  Insert(f, k, v) \in [DOMAIN Insert(f, k, v) -> S]
BY DEF Insert

\* The comparison of an attestation with a policy is a matter of the two alone.
LEMMA EligibleIsBoolean ==
  \A claims, policy : Eligible(claims, policy) \in BOOLEAN
BY DEF Eligible, CoreEligible, EligibleClaims

\* The condition reads the request and the claims, which no transaction changes.
LEMMA EligibleStays ==
  program' = program => \A claims, policy : Eligible(claims, policy)' = Eligible(claims, policy)
BY DEF Eligible, CoreEligible, EligibleClaims

\* Every map is empty at first.
LEMMA TypeInit == InitContract => ContractTypeOK
BY DEF InitContract, ContractTypeOK, Registered, Created, Answered

\* What a request's creation does to the map of the requests.
LEMMA Creating ==
  ASSUME ContractTypeOK, NEW a, NEW r \in RequestId, NEW value \in RequestValue,
         CreateRequest(a, r, value)
  PROVE  /\ Created' = Created \cup {r}
         /\ requests' \in [Created' -> RequestValue]
         /\ requests'[r] = value
         /\ \A x \in Created : requests'[x] = requests[x]
<1>1. requests' = Insert(requests, r, value) /\ r \notin DOMAIN requests
  BY DEF CreateRequest, Created
<1>2. requests \in [DOMAIN requests -> RequestValue]
  BY DEF ContractTypeOK, Created
<1>3. requests' \in [DOMAIN requests' -> RequestValue]
  BY <1>1, <1>2, InsertingType
<1>4. /\ DOMAIN Insert(requests, r, value) = DOMAIN requests \cup {r}
      /\ Insert(requests, r, value)[r] = value
      /\ \A x \in DOMAIN requests \ {r} : Insert(requests, r, value)[x] = requests[x]
  BY DEF Insert
<1> QED
  BY <1>1, <1>3, <1>4, Zenon DEF Created

\* What an answer does to the map of the answers.
LEMMA Submitting ==
  ASSUME ContractTypeOK, NEW a, NEW r \in RequestId, NEW claims \in Claims,
         Submit(a, r, claims)
  PROVE  /\ Answered' = Answered \cup {r}
         /\ results' \in [Answered' -> BOOLEAN]
         /\ results'[r] = Eligible(claims, requests[r].policy)
         /\ r \in Created \ Answered
         /\ \A x \in Answered : results'[x] = results[x]
<1>1. /\ results' = Insert(results, r, Eligible(claims, requests[r].policy))
      /\ r \in Created \ Answered
  BY DEF Submit, Open
<1>2. results \in [DOMAIN results -> BOOLEAN]
  BY DEF ContractTypeOK, Answered
<1>3. Eligible(claims, requests[r].policy) \in BOOLEAN
  BY EligibleIsBoolean
<1>4. results' \in [DOMAIN results' -> BOOLEAN]
  BY <1>1, <1>2, <1>3, InsertingType
<1>5. /\ DOMAIN Insert(results, r, Eligible(claims, requests[r].policy)) = DOMAIN results \cup {r}
      /\ Insert(results, r, Eligible(claims, requests[r].policy))[r] = Eligible(claims, requests[r].policy)
      /\ \A x \in DOMAIN results \ {r} : Insert(results, r, Eligible(claims, requests[r].policy))[x] = results[x]
  BY DEF Insert
<1> QED
  BY <1>1, <1>4, <1>5, Zenon DEF Answered

\* What a registration does to the map of the keys.
LEMMA Registering ==
  ASSUME ContractTypeOK, NEW a, NEW i \in IssuerId, NEW k \in Key, RegisterIssuer(a, i, k)
  PROVE  /\ Registered' = Registered \cup {i}
         /\ issuerKeys' \in [Registered' -> Key]
         /\ \A x \in Registered : issuerKeys'[x] = issuerKeys[x]
<1>1. issuerKeys' = Insert(issuerKeys, i, k) /\ i \notin DOMAIN issuerKeys
  BY DEF RegisterIssuer, Registered
<1>2. issuerKeys \in [DOMAIN issuerKeys -> Key]
  BY DEF ContractTypeOK, Registered
<1>3. issuerKeys' \in [DOMAIN issuerKeys' -> Key]
  BY <1>1, <1>2, InsertingType
<1>4. /\ DOMAIN Insert(issuerKeys, i, k) = DOMAIN issuerKeys \cup {i}
      /\ Insert(issuerKeys, i, k)[i] = k
      /\ \A x \in DOMAIN issuerKeys \ {i} : Insert(issuerKeys, i, k)[x] = issuerKeys[x]
  BY DEF Insert
<1> QED
  BY <1>1, <1>3, <1>4, Zenon DEF Registered

\* Every transaction leaves the ledger well formed.
LEMMA TypeNext == ContractTypeOK /\ [Next]_vars => ContractTypeOK'
<1> SUFFICES ASSUME ContractTypeOK, [Next]_vars PROVE ContractTypeOK'
  OBVIOUS
<1>1. ASSUME NEW a \in Account, NEW i \in IssuerId, NEW k \in Key, RegisterIssuer(a, i, k)
      PROVE  ContractTypeOK'
  <2>1. /\ Registered' = Registered \cup {i}
        /\ issuerKeys' \in [Registered' -> Key]
    BY <1>1, Registering
  <2>2. UNCHANGED <<program, attested, administrator, trustedTime, suspendedIssuers, revoked,
                    requests, cancelled, results, Created, Answered>>
    BY <1>1 DEF RegisterIssuer, RequireAdmin, Created, Answered
  <2> QED
    BY <2>1, <2>2 DEF ContractTypeOK
<1>2. ASSUME NEW a \in Account, NEW i \in IssuerId, SuspendIssuer(a, i) \/ ResumeIssuer(a, i)
      PROVE  ContractTypeOK'
  BY <1>2 DEF SuspendIssuer, ResumeIssuer, RequireAdmin, ContractTypeOK, Registered, Created, Answered
<1>3. ASSUME NEW a \in Account, NEW c \in CredentialId, RevokeCredential(a, c)
      PROVE  ContractTypeOK'
  BY <1>3 DEF RevokeCredential, RequireAdmin, ContractTypeOK, Registered, Created, Answered
<1>4. ASSUME NEW a \in Account, NEW t \in Time, AdvanceTime(a, t)
      PROVE  ContractTypeOK'
  BY <1>4 DEF AdvanceTime, RequireAdmin, ContractTypeOK, Registered, Created, Answered
<1>5. ASSUME NEW a \in Account, NEW next \in Account \cup {NoAccount},
             RotateAdministrator(a, next)
      PROVE  ContractTypeOK'
  BY <1>5 DEF RotateAdministrator, RequireAdmin, ContractTypeOK, Registered, Created, Answered
<1>6. ASSUME NEW a \in Account, NEW r \in RequestId, CancelRequest(a, r)
      PROVE  ContractTypeOK'
  BY <1>6 DEF CancelRequest, RequireAdmin, ContractTypeOK, Registered, Created, Answered
<1>7. ASSUME NEW a \in Account, NEW r \in RequestId, NEW value \in RequestValue,
             CreateRequest(a, r, value)
      PROVE  ContractTypeOK'
  <2>1. /\ Created' = Created \cup {r}
        /\ requests' \in [Created' -> RequestValue]
        /\ requests'[r] = value
        /\ \A x \in Created : requests'[x] = requests[x]
    BY <1>7, Creating
  <2>2. UNCHANGED <<program, attested, administrator, trustedTime, issuerKeys, suspendedIssuers,
                    revoked, cancelled, results, Registered, Answered>>
    BY <1>7 DEF CreateRequest, RequireAdmin, Registered, Answered
  <2>3. \A x \in Created' : requests'[x].policy.issuerId \in Registered'
    BY <1>7, <2>1, <2>2 DEF CreateRequest, ContractTypeOK
  <2>4. Created' \subseteq RequestId /\ Answered' \subseteq Created'
    BY <2>1, <2>2 DEF ContractTypeOK
  <2> QED
    BY <2>1, <2>2, <2>3, <2>4, Zenon DEF ContractTypeOK
<1>8. ASSUME NEW a \in Account, NEW r \in RequestId, NEW claims \in Claims,
             Submit(a, r, claims)
      PROVE  ContractTypeOK'
  <2>1. /\ Answered' = Answered \cup {r}
        /\ results' \in [Answered' -> BOOLEAN]
        /\ r \in Created
    BY <1>8, Submitting
  <2>2. UNCHANGED <<program, attested, administrator, trustedTime, issuerKeys, suspendedIssuers,
                    revoked, requests, cancelled, Registered, Created>>
    BY <1>8 DEF Submit, Registered, Created
  <2>3. Answered' \subseteq Created'
    BY <2>1, <2>2 DEF ContractTypeOK
  <2> QED
    BY <2>1, <2>2, <2>3, Zenon DEF ContractTypeOK
<1>9. ASSUME NEW attestation \in Attestation, Attest(attestation)
      PROVE  ContractTypeOK'
  BY <1>9 DEF Attest, ledger, ContractTypeOK, Registered, Created, Answered
<1>10. CASE UNCHANGED vars
  BY <1>10 DEF vars, ledger, ContractTypeOK, Registered, Created, Answered
<1> QED
  BY <1>1, <1>2, <1>3, <1>4, <1>5, <1>6, <1>7, <1>8, <1>9, <1>10 DEF Next, Administer

\* Whatever the transactions, the ledger's maps and sets keep their types, and the
\* look-ups of submit are defined.
THEOREM ContractTypes == Spec => []ContractTypeOK
<1> QED
  BY TypeInit, TypeNext, PTL DEF Spec

-----------------------------------------------------------------------------
\* An administrator's transaction changes no key and no request that is there.
LEMMA AdminKeeps ==
  ASSUME ContractTypeOK, NEW a \in Account, Administer(a)
  PROVE  /\ \A i \in Registered : issuerKeys'[i] = issuerKeys[i]
         /\ \A r \in Created : requests'[r] = requests[r]
<1>1. ASSUME NEW i \in IssuerId, NEW k \in Key, RegisterIssuer(a, i, k)
      PROVE  /\ \A x \in Registered : issuerKeys'[x] = issuerKeys[x]
             /\ requests' = requests
  BY <1>1, Registering DEF RegisterIssuer
<1>2. ASSUME NEW r \in RequestId, NEW value \in RequestValue, CreateRequest(a, r, value)
      PROVE  /\ \A x \in Created : requests'[x] = requests[x]
             /\ issuerKeys' = issuerKeys
  BY <1>2, Creating DEF CreateRequest
<1> QED
  BY <1>1, <1>2 DEF Administer, SuspendIssuer, ResumeIssuer, RevokeCredential, AdvanceTime,
     RotateAdministrator, CancelRequest

\* What an answer stands on stays when its request, key and attestation do.
LEMMA StandsStays ==
  ASSUME NEW r, Stands(r), UNCHANGED program, attested \subseteq attested',
         requests'[r] = requests[r], results'[r] = results[r],
         issuerKeys'[requests[r].policy.issuerId] = issuerKeys[requests[r].policy.issuerId]
  PROVE  Stands(r)'
BY EligibleStays DEF Stands, Concerns

\* The strengthening is inductive: the types say where the look-ups are defined.
LEMMA StandsNext == CInv /\ [Next]_vars => AnswersStandOnAttestations'
<1> SUFFICES ASSUME CInv, [Next]_vars, NEW x \in Answered' PROVE Stands(x)'
  BY DEF AnswersStandOnAttestations
<1>0. /\ \A r \in Answered : r \in Created /\ Stands(r)
      /\ \A r \in Created : requests[r].policy.issuerId \in Registered
  BY DEF CInv, ContractTypeOK, AnswersStandOnAttestations
<1>1. ASSUME NEW a \in Account, Administer(a) PROVE Stands(x)'
  <2>1. x \in Answered /\ UNCHANGED <<program, attested, results>>
    BY <1>1, AdminStep DEF Answered
  <2>2. /\ requests'[x] = requests[x]
        /\ issuerKeys'[requests[x].policy.issuerId] = issuerKeys[requests[x].policy.issuerId]
    BY <1>0, <1>1, <2>1, AdminKeeps DEF CInv
  <2> QED
    BY <1>0, <2>1, <2>2, StandsStays
<1>2. ASSUME NEW a \in Account, NEW r \in RequestId, NEW claims \in Claims, Submit(a, r, claims)
      PROVE  Stands(x)'
  <2>1. UNCHANGED <<program, attested, issuerKeys, requests>>
    BY <1>2 DEF Submit
  <2>2. /\ Answered' = Answered \cup {r}
        /\ results'[r] = Eligible(claims, requests[r].policy)
        /\ \A y \in Answered : results'[y] = results[y]
    BY <1>2, Submitting DEF CInv
  <2>3. CASE x \in Answered
    BY <1>0, <2>1, <2>2, <2>3, StandsStays
  <2>4. CASE x = r
    <3> DEFINE signed == [key |-> issuerKeys[requests[r].policy.issuerId], holder |-> a,
                          claims |-> claims]
    <3>1. signed \in attested' /\ a = requests'[r].holder
      BY <1>2, <2>1 DEF Submit, Attests
    <3>2. program' => claims.companyCommitment = requests'[r].company
      BY <1>2, <2>1 DEF Submit, FitsProgram
    <3>3. results'[r] = Eligible(claims, requests[r].policy)'
      BY <2>1, <2>2, EligibleStays
    <3>4. /\ signed.key = issuerKeys'[requests'[r].policy.issuerId]
          /\ signed.holder = requests'[r].holder
          /\ signed.claims = claims
      BY <2>1, <3>1
    <3> QED
      BY <2>4, <3>1, <3>2, <3>3, <3>4 DEF Stands, Concerns
  <2> QED
    BY <2>2, <2>3, <2>4
<1>3. ASSUME NEW attestation \in Attestation, Attest(attestation) PROVE Stands(x)'
  BY <1>0, <1>3, StandsStays DEF Attest, ledger, Answered
<1>4. CASE UNCHANGED vars
  BY <1>0, <1>4, StandsStays DEF vars, ledger, Answered
<1> QED
  BY <1>1, <1>2, <1>3, <1>4 DEF Next

\* Every answer of the contract stands on claims that the request's issuer signed for
\* the request's holder, whoever administers the contract.
THEOREM AnswersStand == Spec => []AnswersStandOnAttestations
<1>1. InitContract => AnswersStandOnAttestations
  BY DEF InitContract, AnswersStandOnAttestations, Answered
<1>2. ContractTypeOK /\ AnswersStandOnAttestations /\ [Next]_vars => AnswersStandOnAttestations'
  BY StandsNext DEF CInv
<1> QED
  BY <1>1, <1>2, ContractTypes, PTL DEF Spec

-----------------------------------------------------------------------------
\* The registry that the ledger shows.
Lapsed  == {r \in Created : requests[r].deadline <= trustedTime}
Answers == [r \in RequestId |-> IF r \notin Answered THEN "none"
                                ELSE IF results[r] THEN "eligible" ELSE "ineligible"]
Backed  == {pair \in Created \X {"eligible", "ineligible"} :
              \E attestation \in attested :
                /\ Concerns(attestation, pair[1]) /\ InForce(attestation, pair[1])
                /\ pair[2] = AnswerFrom(attestation, pair[1])}

\* Time is a number, and so is every deadline.
LEMMA Deadlines ==
  ASSUME ContractTypeOK
  PROVE  trustedTime \in Int /\ \A r \in Created : requests[r].deadline \in Int
<1>1. \A t \in Time : t \in Int
  BY ContractAssumption DEF Time
<1> QED
  BY <1>1 DEF ContractTypeOK, RequestValue

\* A transaction that moves only the clock forward moves the registry's deadlines.
LEMMA LapseStep ==
  ASSUME ContractTypeOK, ContractTypeOK', trustedTime' >= trustedTime,
         UNCHANGED <<requests, cancelled, results>>
  PROVE  Registry!NextRegistry
<1>1. UNCHANGED <<Created, Answers>>
  BY DEF Created, Answers, Answered
<1>2. \A r \in Created : requests[r].deadline <= trustedTime => requests'[r].deadline <= trustedTime'
  BY Deadlines, trustedTime' \in Int DEF ContractTypeOK, Time
<1>3. Lapsed \subseteq Lapsed' /\ Lapsed' \subseteq Created
  BY <1>1, <1>2 DEF Lapsed
<1>4. Registry!Lapse
  BY <1>1, <1>3 DEF Registry!Lapse, Lapsed, Answers
<1> QED
  BY <1>4 DEF Registry!NextRegistry

\* A request that is created is posted, and its deadline is yet to come.
LEMMA PostStep ==
  ASSUME ContractTypeOK, NEW a, NEW r \in RequestId, NEW value \in RequestValue,
         CreateRequest(a, r, value)
  PROVE  Registry!Post(r)
<1>1. /\ Created' = Created \cup {r}
      /\ requests'[r] = value
      /\ \A x \in Created : requests'[x] = requests[x]
  BY Creating
<1>2. r \notin Created /\ value.deadline > trustedTime /\ UNCHANGED <<trustedTime, cancelled, results>>
  BY DEF CreateRequest
<1>3. ~(value.deadline <= trustedTime)
  <2>1. trustedTime \in Int /\ value.deadline \in Int
    BY Deadlines, ContractAssumption DEF RequestValue, Time
  <2> QED
    BY <1>2, <2>1
<1>4. Lapsed' = Lapsed
  BY <1>1, <1>2, <1>3, Zenon DEF Lapsed
<1>5. UNCHANGED Answers /\ r \notin Lapsed
  BY <1>2 DEF Answers, Answered, Lapsed
<1> QED
  BY <1>1, <1>2, <1>4, <1>5 DEF Registry!Post, Lapsed, Answers

\* A cancellation withdraws the request, which has no answer.
LEMMA WithdrawStep ==
  ASSUME NEW a, NEW r \in RequestId, CancelRequest(a, r)
  PROVE  Registry!Withdraw(r)
<1>1. /\ r \notin Answered
      /\ cancelled' = cancelled \cup {r}
      /\ UNCHANGED <<requests, trustedTime, results>>
  BY DEF CancelRequest
<1>2. UNCHANGED <<Created, Lapsed, Answers>> /\ Answers[r] = "none"
  BY <1>1 DEF Created, Lapsed, Answers, Answered
<1> QED
  BY <1>1, <1>2 DEF Registry!Withdraw, Lapsed, Answers

\* The submission's attestation is in force, and gives the answer.
LEMMA SubmitIsBacked ==
  ASSUME ContractTypeOK, NEW a, NEW r \in RequestId, NEW claims \in Claims,
         Submit(a, r, claims)
  PROVE  \E attestation \in attested :
           /\ Concerns(attestation, r) /\ InForce(attestation, r)
           /\ AnswerFrom(attestation, r) = IF results'[r] THEN "eligible" ELSE "ineligible"
<1> DEFINE t == [key |-> issuerKeys[requests[r].policy.issuerId], holder |-> a, claims |-> claims]
<1>1. t \in attested
  BY DEF Submit, Attests
<1>2. Concerns(t, r) /\ InForce(t, r)
  BY DEF Submit, Valid, FitsProgram, Concerns, InForce
<1>3. results'[r] = Eligible(claims, requests[r].policy)
  BY DEF Submit, Insert
<1>4. AnswerFrom(t, r) = IF results'[r] THEN "eligible" ELSE "ineligible"
  BY <1>3 DEF AnswerFrom
<1> HIDE DEF t
<1> QED
  BY <1>1, <1>2, <1>4

\* A submission answers one request, which is posted, neither withdrawn nor lapsed,
\* and has no answer, as an attestation in force does.
LEMMA AnswerStep ==
  ASSUME ContractTypeOK, NEW a, NEW r \in RequestId, NEW claims \in Claims,
         Submit(a, r, claims)
  PROVE  Registry!Answer(r)
<1>1. /\ Answered' = Answered \cup {r}
      /\ results' \in [Answered' -> BOOLEAN]
      /\ r \in Created \ Answered
      /\ \A x \in Answered : results'[x] = results[x]
  BY Submitting
<1>2. r \notin cancelled /\ requests[r].deadline > trustedTime
  BY DEF Submit, Open
<1>3. UNCHANGED <<Created, cancelled, Lapsed>>
  BY DEF Submit, Created, Lapsed
<1>4. r \notin Lapsed
  BY <1>1, <1>2, Deadlines DEF Lapsed
<1>5. Answers[r] = "none"
  BY <1>1 DEF Answers
<1> DEFINE answer == IF results'[r] THEN "eligible" ELSE "ineligible"
<1>6. Answers' = [Answers EXCEPT ![r] = answer]
  <2>1. ASSUME NEW x \in RequestId, x # r PROVE Answers'[x] = Answers[x]
    BY <1>1, <2>1 DEF Answers
  <2>2. Answers'[r] = answer
    BY <1>1 DEF Answers
  <2>3. DOMAIN Answers' = RequestId /\ DOMAIN Answers = RequestId
    BY DEF Answers
  <2> HIDE DEF answer
  <2>4. Answers' = [x \in RequestId |-> Answers'[x]]
    BY DEF Answers
  <2>5. [Answers EXCEPT ![r] = answer]
          = [x \in RequestId |-> IF x = r THEN answer ELSE Answers[x]]
    BY DEF Answers
  <2> QED
    BY <2>1, <2>2, <2>4, <2>5
<1>7. answer \in {"eligible", "ineligible"}
  OBVIOUS
<1>8. <<r, answer>> \in Backed
  <2>1. \E attestation \in attested :
          /\ Concerns(attestation, r) /\ InForce(attestation, r)
          /\ answer = AnswerFrom(attestation, r)
    BY SubmitIsBacked
  <2> HIDE DEF answer
  <2> QED
    BY <1>1, <1>7, <2>1 DEF Backed
<1> HIDE DEF answer
<1> QED
  BY <1>1, <1>2, <1>3, <1>4, <1>5, <1>6, <1>7, <1>8 DEF Registry!Answer, Lapsed, Answers, Backed

\* Every transaction is a step of the registry or leaves it as it is.
LEMMA RegistryNext ==
  ContractTypeOK /\ ContractTypeOK' /\ [Next]_vars => [Registry!NextRegistry]_(Registry!registryVars)
<1> SUFFICES ASSUME ContractTypeOK, ContractTypeOK', [Next]_vars
             PROVE  Registry!NextRegistry \/ UNCHANGED Registry!registryVars
  OBVIOUS
<1>1. ASSUME UNCHANGED <<trustedTime, requests, cancelled, results>>
      PROVE  UNCHANGED Registry!registryVars
  BY <1>1 DEF Registry!registryVars, Created, Answered
<1>2. ASSUME NEW a \in Account, Administer(a)
      PROVE  Registry!NextRegistry \/ UNCHANGED Registry!registryVars
  <2>1. ASSUME NEW t \in Time, AdvanceTime(a, t) PROVE Registry!NextRegistry
    BY <2>1, LapseStep DEF AdvanceTime
  <2>2. ASSUME NEW r \in RequestId, CancelRequest(a, r) PROVE Registry!NextRegistry
    BY <2>2, WithdrawStep DEF Registry!NextRegistry
  <2>3. ASSUME NEW r \in RequestId, NEW value \in RequestValue, CreateRequest(a, r, value)
        PROVE  Registry!NextRegistry
    BY <2>3, PostStep DEF Registry!NextRegistry
  <2> QED
    BY <1>1, <1>2, <2>1, <2>2, <2>3 DEF Administer, RegisterIssuer, SuspendIssuer,
       ResumeIssuer, RevokeCredential, RotateAdministrator
<1>3. ASSUME NEW a \in Account, NEW r \in RequestId, NEW claims \in Claims, Submit(a, r, claims)
      PROVE  Registry!NextRegistry
  BY <1>3, AnswerStep DEF Registry!NextRegistry
<1>4. ASSUME NEW attestation \in Attestation, Attest(attestation)
      PROVE  UNCHANGED Registry!registryVars
  BY <1>1, <1>4 DEF Attest, ledger
<1>5. CASE UNCHANGED vars
  BY <1>1, <1>5 DEF vars, ledger
<1> QED
  BY <1>2, <1>3, <1>4, <1>5 DEF Next

\* The contract implements the registry: a request is answered once at most, for good,
\* not after it was cancelled or its deadline passed, and only as an attestation that
\* is still in force answers it.
THEOREM ContractKeepsRegistry == Spec => EveryRequestOnce
<1>1. InitContract => Registry!InitRegistry
  BY DEF InitContract, Registry!InitRegistry, Created, Answered
<1>2. ContractTypeOK /\ ContractTypeOK' /\ [Next]_vars => [Registry!NextRegistry]_(Registry!registryVars)
  BY RegistryNext
<1> QED
  BY <1>1, <1>2, ContractTypes, PTL DEF Spec, EveryRequestOnce, Registry!RegistrySpec

-----------------------------------------------------------------------------
(***************************************************************************)
(* What follows from the registry alone.                                   *)
(***************************************************************************)

AnswerOf(r) == IF r \notin Answered THEN "none"
               ELSE IF results[r] THEN "eligible" ELSE "ineligible"

\* An answer is to a request that was made and is not withdrawn, whatever
\* administrators and holders do before and afterwards.
AnswersToRequests ==
  \A r \in RequestId : AnswerOf(r) # "none" => r \in Created /\ r \notin cancelled

\* An answer that is on the contract does not change.
AnswersStay ==
  [][\A r \in RequestId : AnswerOf(r) # "none" => AnswerOf(r)' = AnswerOf(r)]_vars

\* A step of the registry keeps both.
LEMMA RegistryAnswers ==
  ASSUME [Registry!NextRegistry]_(Registry!registryVars)
  PROVE  /\ AnswersToRequests => AnswersToRequests'
         /\ \A r \in RequestId : AnswerOf(r) # "none" => AnswerOf(r)' = AnswerOf(r)
<1> DEFINE answers == [r \in RequestId |-> AnswerOf(r)]
<1>1. /\ \A r \in RequestId : answers[r] = AnswerOf(r)
      /\ \A r \in RequestId : answers'[r] = AnswerOf(r)'
  OBVIOUS
<1>2. CASE UNCHANGED Registry!registryVars
  <2>1. answers' = answers /\ Created' = Created /\ cancelled' = cancelled
    BY <1>2 DEF Registry!registryVars, AnswerOf
  <2> HIDE DEF answers
  <2> QED
    BY <1>1, <2>1 DEF AnswersToRequests
<1>3. CASE Registry!Lapse
  <2>1. answers' = answers /\ Created' = Created /\ cancelled' = cancelled
    BY <1>3 DEF Registry!Lapse, AnswerOf
  <2> HIDE DEF answers
  <2> QED
    BY <1>1, <2>1 DEF AnswersToRequests
<1>4. ASSUME NEW q \in RequestId, Registry!Post(q)
      PROVE  /\ AnswersToRequests => AnswersToRequests'
             /\ \A r \in RequestId : AnswerOf(r) # "none" => AnswerOf(r)' = AnswerOf(r)
  <2>1. answers' = answers /\ Created' = Created \cup {q} /\ cancelled' = cancelled
    BY <1>4 DEF Registry!Post, AnswerOf
  <2> HIDE DEF answers
  <2> QED
    BY <1>1, <2>1 DEF AnswersToRequests
<1>5. ASSUME NEW q \in RequestId, Registry!Withdraw(q)
      PROVE  /\ AnswersToRequests => AnswersToRequests'
             /\ \A r \in RequestId : AnswerOf(r) # "none" => AnswerOf(r)' = AnswerOf(r)
  <2>1. /\ answers' = answers /\ Created' = Created /\ cancelled' = cancelled \cup {q}
        /\ answers[q] = "none"
    BY <1>5 DEF Registry!Withdraw, AnswerOf
  <2> HIDE DEF answers
  <2> QED
    BY <1>1, <2>1 DEF AnswersToRequests
<1>6. ASSUME NEW q \in RequestId, Registry!Answer(q)
      PROVE  /\ AnswersToRequests => AnswersToRequests'
             /\ \A r \in RequestId : AnswerOf(r) # "none" => AnswerOf(r)' = AnswerOf(r)
  <2>1. /\ \E answer : answers' = [answers EXCEPT ![q] = answer]
        /\ Created' = Created /\ cancelled' = cancelled
        /\ answers[q] = "none" /\ q \in Created /\ q \notin cancelled
    BY <1>6 DEF Registry!Answer, AnswerOf
  <2>2. \A r \in RequestId \ {q} : answers'[r] = answers[r]
    BY <2>1
  <2> HIDE DEF answers
  <2> QED
    BY <1>1, <2>1, <2>2 DEF AnswersToRequests
<1> QED
  BY <1>2, <1>3, <1>4, <1>5, <1>6 DEF Registry!NextRegistry

\* What is answered was asked and not withdrawn (submit, cancelRequest).
THEOREM AnsweredWereAsked == Spec => []AnswersToRequests
<1>1. InitContract => AnswersToRequests
  BY DEF InitContract, AnswersToRequests, AnswerOf, Created, Answered
<1>2. AnswersToRequests /\ [Registry!NextRegistry]_(Registry!registryVars) => AnswersToRequests'
  BY RegistryAnswers
<1>3. Spec => InitContract
  BY DEF Spec
<1> QED
  BY <1>1, <1>2, <1>3, ContractKeepsRegistry, PTL DEF EveryRequestOnce, Registry!RegistrySpec

\* No transaction changes an answer or takes it back (submit is the only one that
\* writes results).
THEOREM AnswersRemain == Spec => AnswersStay
<1>1. ContractTypeOK /\ ContractTypeOK' /\ [Next]_vars =>
        [\A r \in RequestId : AnswerOf(r) # "none" => AnswerOf(r)' = AnswerOf(r)]_vars
  BY RegistryNext, RegistryAnswers
<1> QED
  BY <1>1, ContractTypes, PTL DEF Spec, AnswersStay
=============================================================================
