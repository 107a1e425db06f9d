---------------------------- MODULE ProofPlatform ----------------------------
(***************************************************************************)
(* Both families of chain jobs over the two tables they count together:    *)
(* the web server with its visitors, administrator, executors and          *)
(* verifiers (app/api/proof-jobs, app/api/program-proof-jobs, their admin  *)
(* twins and app/api/proof-worker).                                        *)
(***************************************************************************)
EXTENDS ProofJobs, ProgramProofJobs

vars == <<jobs, programJobs, expired, issuedVars, programVars>>

Init == InitIssued /\ InitProgram /\ expired = {}

Next ==
  \/ NextIssued /\ UNCHANGED programVars
  \/ NextProgram /\ UNCHANGED issuedVars

Spec == Init /\ [][Next]_vars

-----------------------------------------------------------------------------
(***************************************************************************)
(* Fairness.  Handlers that reach their write finish; the lists of jobs    *)
(* and the discovery of work poll every job; the executor and the verifier *)
(* loops (contracts/sdk/worker-loop.mjs) try again what they discover, and *)
(* availableProofWork passes over a row whose currentStatus is 'unknown'.  *)
(* Nothing is assumed of visitors, of the administrator or of the chain.   *)
(***************************************************************************)

Discovered(j) == ~jobs[j].unknown

Claims(j) == \E w \in Worker : BeginClaim(w, j)

Finishes(j) == \E c \in calls : c.job = j /\ Finish(c)

JobFairness(j) ==
  /\ WF_vars(NoteCredentialRevoked(j) /\ UNCHANGED programVars)
  /\ WF_vars(RefreshProofJob(j) /\ UNCHANGED programVars)
  /\ WF_vars(Discovered(j) /\ Claims(j) /\ UNCHANGED programVars)
  /\ WF_vars(Discovered(j) /\ BeginComplete(j) /\ UNCHANGED programVars)
  /\ WF_vars(Finishes(j) /\ UNCHANGED programVars)

FairSpec == Spec /\ \A j \in Job : JobFairness(j)

-----------------------------------------------------------------------------
\* Both tables, every snapshot in flight and the consents have their types.
TypeOK == IssuedTypeOK /\ ProgramTypeOK /\ expired \subseteq Job \cup ProgramJob

\* The jobs that take a place in the queue to produce a proof; a revocation has
\* precedence and is counted, but never refused a place.
ProofSlots ==
  {j \in Job : HoldsProofSlot(j, jobs[j].status) /\ jobs[j].revocation # "pending"}
    \cup {p \in ProgramJob : HoldsProofSlot(p, programJobs[p].status)}

\* Requests and resumes of both families, however they race, never give places
\* to more jobs with a running consent than the queue has.
ConsentedJobsWithinCapacity == Cardinality(ProofSlots \ expired) <= Capacity

\* docs/demo-reliability.md: the database conditions on creation and resume keep
\* concurrent requests from getting round the capacity.
QueueWithinCapacity == Cardinality(ProofSlots) <= Capacity

\* An application has one open job at a time.
OneOpenJobPerApplication ==
  \A application \in Application : Cardinality(OpenProgramJobs(application)) <= 1

\* A confirmed program job's two transactions are final on its own contract, and
\* it was approved.
ProgramConfirmedIsOnChain ==
  \A p \in ProgramJob :
    programJobs[p].status = "confirmed" =>
      programJobs[p].approved /\ programJobs[p].receipts /\ p \in programChain

\* As NothingRecordedIsLost, for program jobs; and a closed or confirmed program
\* job is never reopened.
ProgramRecordsStay ==
  [][\A p \in ProgramJob :
       /\ programJobs[p].approved => programJobs'[p].approved
       /\ programJobs[p].target # NoProgramValue =>
            programJobs'[p].target = programJobs[p].target
       /\ programJobs[p].chainBinding => programJobs'[p].chainBinding
       /\ programJobs[p].receipts => programJobs'[p].receipts
       /\ programJobs[p].status \in Closed \cup {"confirmed"} =>
            programJobs'[p].status = programJobs[p].status]_programJobs

-----------------------------------------------------------------------------
(***************************************************************************)
(* Both families keep one ledger of jobs.                                  *)
(***************************************************************************)

StageOf(status) ==
  CASE status = "absent"                               -> "none"
    [] status = "awaiting_approval"                    -> "asked"
    [] status \in {"queued", "running", "confirmed"}   -> status
    [] status = "needs_attention"                      -> "interrupted"
    [] status = "awaiting_verification"                -> "submitted"
    [] status \in Closed                               -> "closed"

\* A revocation has precedence over the status, which goes through the same values
\* again while the executor carries it to the contract.
IssuedStageOf(row) ==
  CASE row.revocation = "none"      -> StageOf(row.status)
    [] row.revocation = "pending"   -> "revoking"
    [] row.revocation = "confirmed" -> "revoked"

IssuedLedger == INSTANCE JobLedger WITH
  Subject <- Credential, Nobody <- None,
  stage <- [j \in Job |-> IssuedStageOf(jobs[j])],
  subject <- [j \in Job |-> jobs[j].credential],
  sourced <- {j \in Job : jobs[j].chainBinding},
  disowned <- revoked,
  proved <- {j \in Job : "submits" \in chain[j]},
  withdrawn <- {j \in Job : "revokeCredential" \in chain[j]}

ProgramLedger == INSTANCE JobLedger WITH
  Job <- ProgramJob, Subject <- Application, Nobody <- NoProgramValue,
  stage <- [p \in ProgramJob |-> StageOf(programJobs[p].status)],
  subject <- [p \in ProgramJob |-> programJobs[p].application],
  sourced <- {p \in ProgramJob : programJobs[p].chainBinding},
  disowned <- {},
  proved <- programChain,
  withdrawn <- {}

\* Every write of a handler of an issued-credential job, however late, every race
\* for a row and every move of the executor is a step of the ledger or none: a job
\* goes on by approval, claim, submission and verification in this order, stops,
\* is resumed or closed, and is revoked to the end once its credential is.
IssuedJobsKeepLedger == IssuedLedger!LedgerSpec

\* The same of program jobs, whose code is a copy that has grown apart.
ProgramJobsKeepLedger == ProgramLedger!LedgerSpec

-----------------------------------------------------------------------------
\* An executor that stopped answering is noticed: a job is not "running" for
\* ever behind a lease that has ended.
EndedLeaseIsNoticed ==
  \A j \in Job :
    jobs[j].status = "running" /\ jobs[j].leasePhase = "past"
      ~> jobs[j].status # "running" \/ jobs[j].leasePhase # "past"

\* A bound contract's revocation is noted and then taken up by an executor, if
\* nobody cancels the job and no interruption waits for the administrator.
RevocationIsTakenUp ==
  \A j \in Job :
    jobs[j].target # None /\ jobs[j].credential \in revoked
      ~> \/ jobs[j].revocation = "confirmed"
         \/ jobs[j].status \in {"needs_attention", "cancelled", "awaiting_verification"}
         \/ jobs[j].leasePhase # "none"

\* The same where the issuer may be silent: only a row that keeps the mark
\* "unknown" of an unanswered check (refreshProofJob's catch) is passed over.
KnownRevocationIsTakenUp ==
  \A j \in Job :
    jobs[j].target # None /\ jobs[j].credential \in revoked
      ~> \/ jobs[j].revocation = "confirmed"
         \/ jobs[j].status \in {"needs_attention", "cancelled", "awaiting_verification"}
         \/ jobs[j].leasePhase # "none"
         \/ jobs[j].unknown

\* What the verifier can establish is settled: a job whose evidence is complete
\* does not wait for ever, unless its consent or its requests ended meanwhile
\* (completeProofVerification still wants them running) or its row is marked
\* "unknown".
VerifiableJobSettles ==
  \A j \in Job :
    jobs[j].status = "awaiting_verification" /\ VerifierAgrees(j)
      ~> \/ jobs[j].status # "awaiting_verification"
         \/ jobs[j].revocation = "none" /\ ~Current(j, jobs[j].credential)
         \/ jobs[j].unknown
=============================================================================
