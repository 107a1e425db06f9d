------------------------------ MODULE ProofJobs ------------------------------
(***************************************************************************)
(* The server's side of an issued-credential chain job                     *)
(* (lib/proof-jobs.ts): the row of proof_jobs from the visitor's request   *)
(* to the independently verified result, and, after the issuer revokes the *)
(* credential, to the independently verified revocation on the chain.      *)
(*                                                                         *)
(* Every handler reads a row, may await the issuer and the workspace in    *)
(* `current`, and writes the row back with UPDATE ... WHERE revision=?.    *)
(* Handlers that await `current` are therefore two actions: Begin<op>      *)
(* takes the snapshot and evaluates the check, <op> writes.  The others    *)
(* are one action, because nothing they depend on except the row can move  *)
(* between their read and their write.  The revision is not a number here: *)
(* Save drops the calls whose snapshot it overtakes, which are those whose *)
(* UPDATE can no longer match.                                             *)
(***************************************************************************)
EXTENDS ProofQueue

CONSTANTS
  Credential,   \* credentials received from the separate issuer
  Worker,       \* executor incarnations, each with the last lease it was given
  Target,       \* (contract address, holder) pairs an executor may bind
  Mode,         \* subset of {"manual", "automatic"}: automaticDemoOwner(owner)
  OwnerLimit,   \* the INSERT's limit of rows per owner (10 in the code)
  MaxOutages    \* bound on the calls that find the issuer unreachable

None == "none"

ASSUME ProofJobsAssumption ==
  /\ None \notin Worker
  /\ None \notin Target
  /\ Mode \subseteq {"manual", "automatic"}
  /\ OwnerLimit \in Nat
  /\ MaxOutages \in Nat

VARIABLES
  revoked,        \* credentials the issuer has revoked
  requestsStale,  \* credentials whose two original requests expired or changed
  chain,          \* [Job -> what the contract bound to the job has finalised]
  calls,          \* handlers between their check and their write
  outages         \* calls so far that found the issuer unreachable

issuedVars == <<revoked, requestsStale, chain, calls, outages>>
worldVars  == <<revoked, requestsStale, chain>>

ChainOp == {"submits", "revokeCredential"}

Row == [status       : Status,
        credential   : Credential \cup {None},
        approved     : BOOLEAN,
        revocation   : {"none", "pending", "confirmed"},
        target       : Target \cup {None},
        chainBinding : BOOLEAN,
        receipts     : SUBSET ChainOp,
        lease        : Worker \cup {None},
        leasePhase   : LeasePhase,
        unknown      : BOOLEAN]   \* a persisted currentStatus: 'unknown'

Absent == [status |-> "absent", credential |-> None, approved |-> FALSE,
           revocation |-> "none", target |-> None, chainBinding |-> FALSE,
           receipts |-> {}, lease |-> None, leasePhase |-> "none",
           unknown |-> FALSE]

Call == [op   : {"request", "approve", "resume", "claim", "refuse", "source",
                 "submitted", "complete"},
         job  : Job,
         by   : Worker \cup {None},
         seen : Row]

-----------------------------------------------------------------------------
(***************************************************************************)
(* Reading and writing rows.                                               *)
(***************************************************************************)

\* Mutant of Save: the UPDATE without AND revision=?.
SaveWithoutRevision(j, row) ==
  /\ jobs' = [jobs EXCEPT ![j] = row]
  /\ UNCHANGED <<calls, outages, worldVars, programJobs, expired>>

\* UPDATE ... SET payload=?, revision=revision+1 WHERE id=? AND revision=?
Save(j, row) ==
  /\ jobs' = [jobs EXCEPT ![j] = row]
  /\ calls' = {c \in calls : c.job # j}
  /\ UNCHANGED <<outages, worldVars, programJobs, expired>>

\* The handler has read the row and made its checks; it has yet to write.
Awaits(op, j, w, row) ==
  /\ calls' = calls \cup {[op |-> op, job |-> j, by |-> w, seen |-> row]}
  /\ UNCHANGED <<jobs, worldVars, programJobs, expired>>

\* The issuer answers, or this call counts against the bound on outages.
IssuerAnswers == UNCHANGED outages
IssuerSilent  == outages < MaxOutages /\ outages' = outages + 1

Begin(op, j, w, row) == Awaits(op, j, w, row) /\ IssuerAnswers

\* current(j): the issuer's fresh status and the signed requests still stand,
\* and the consent runs.
Current(j, credential) ==
  /\ credential \notin revoked
  /\ credential \notin requestsStale
  /\ j \notin expired

Open(j) == jobs[j].status \notin Closed \cup {"absent"}

OpenJobs(credential) == {j \in Job : Open(j) /\ jobs[j].credential = credential}

JobsOf(credential) ==
  {j \in Job : jobs[j].status # "absent" /\ jobs[j].credential = credential}

Revoking(row) == row.revocation = "pending" /\ row.target # None /\ row.approved

-----------------------------------------------------------------------------
(***************************************************************************)
(* The visitor and the administrator.                                      *)
(***************************************************************************)

\* requestProofJob up to its INSERT.  An open job for the credential is
\* returned as it is, so only a credential without one gets this far.
BeginRequest(j, credential) ==
  /\ jobs[j].status = "absent"
  /\ OpenJobs(credential) = {}
  /\ Current(j, credential)
  /\ Admits
  /\ Begin("request", j, None, [jobs[j] EXCEPT !.credential = credential])

\* Mutant of Inserts: the INSERT without its NOT EXISTS.
InsertsAnother(c) ==
  /\ Cardinality(JobsOf(c.seen.credential)) < OwnerLimit
  /\ Admits

\* INSERT ... WHERE the owner's rows < 10 AND the shared count < limit AND
\* NOT EXISTS (an open job for the credential).
Inserts(c) ==
  /\ Cardinality(JobsOf(c.seen.credential)) < OwnerLimit
  /\ Admits
  /\ OpenJobs(c.seen.credential) = {}

RequestProofJob(c, mode) ==
  /\ c.op = "request"
  /\ Inserts(c)
  /\ Save(c.job, [c.seen EXCEPT
                    !.status = IF mode = "automatic" THEN "queued"
                                                     ELSE "awaiting_approval",
                    !.approved = (mode = "automatic")])

BeginApprove(j) ==
  /\ jobs[j].status = "awaiting_approval"
  /\ Current(j, jobs[j].credential)
  /\ Begin("approve", j, None, jobs[j])

ApproveProofJob(c) ==
  /\ c.op = "approve"
  /\ Save(c.job, [c.seen EXCEPT !.status = "queued", !.approved = TRUE])

\* Mutant of Resumed: a status that is not one of the union's.
ResumedAsWaiting(row) == [row EXCEPT !.status = "waiting", !.leasePhase = "none"]

Resumed(row) == [row EXCEPT !.status = "queued", !.leasePhase = "none"]

BeginResume(j) ==
  /\ jobs[j].status = "needs_attention"
  /\ jobs[j].approved
  /\ jobs[j].revocation = "none"
  /\ Current(j, jobs[j].credential)
  /\ Begin("resume", j, None, jobs[j])

ResumeProofJob(c) ==
  /\ c.op = "resume"
  /\ Admits
  /\ Save(c.job, Resumed(c.seen))

\* A job whose revocation is pending is resumed without current and without
\* the admission predicate: it holds its slot already.
ResumeRevocation(j) ==
  /\ jobs[j].status = "needs_attention"
  /\ jobs[j].approved
  /\ jobs[j].revocation # "none"
  /\ Save(j, Resumed(jobs[j]))

CancelProofJob(j) ==
  /\ jobs[j].status \in Waiting
  /\ Save(j, [jobs[j] EXCEPT !.status = "cancelled"])

-----------------------------------------------------------------------------
(***************************************************************************)
(* What polling does: every list of jobs and every discovery of work calls *)
(* refreshProofJob, which first notes a revocation the issuer reports.     *)
(***************************************************************************)

Noted(row) == [row EXCEPT
  !.revocation = IF row.target = None THEN "none" ELSE "pending",
  !.status = IF row.status = "cancelled" THEN "cancelled" ELSE "blocked"]

\* Mutant of NoteCredentialRevoked: every poll notes a pending revocation again.
NoteCredentialRevokedAgain(j) ==
  /\ jobs[j].status # "absent"
  /\ jobs[j].credential \in revoked
  /\ jobs[j].revocation # "confirmed"
  /\ jobs[j].target # None \/ jobs[j].status \notin Closed
  /\ Save(j, Noted(jobs[j]))

\* Mutant of NoteCredentialRevoked: a closed job is skipped, contract or not.
NoteOpenJobsRevoked(j) ==
  /\ jobs[j].status \notin Closed \cup {"absent"}
  /\ jobs[j].credential \in revoked
  /\ jobs[j].revocation = "none"
  /\ Save(j, Noted(jobs[j]))

\* One iteration of the loop over the owner's jobs; each is its own UPDATE,
\* and the loop may stop after any of them.
NoteCredentialRevoked(j) ==
  /\ jobs[j].status # "absent"
  /\ jobs[j].credential \in revoked
  /\ jobs[j].revocation = "none"
  /\ jobs[j].target # None \/ jobs[j].status \notin Closed
  /\ Save(j, Noted(jobs[j]))

\* Mutant of LeaseEnded: only an interrupted revocation is noticed.
RevocationLeaseEnded(row) ==
  row.leasePhase = "past" /\ row.status = "blocked" /\ row.revocation = "pending"

LeaseEnded(row) ==
  /\ row.leasePhase = "past"
  /\ \/ row.status = "running"
     \/ row.status = "blocked" /\ row.revocation = "pending"

\* Mutant of ConsentEnded: the end of the consent is looked at in every open status.
ConsentEndedAnywhere(j, row) ==
  /\ row.status \notin Closed \cup {"absent"}
  /\ row.revocation = "none"
  /\ j \in expired

ConsentEnded(j, row) ==
  /\ row.status \in Waiting
  /\ row.revocation = "none"
  /\ j \in expired

\* The rest of refreshProofJob, which runs whether the issuer answered or not.
RefreshProofJob(j) ==
  /\ \/ /\ LeaseEnded(jobs[j])
        /\ Save(j, [jobs[j] EXCEPT !.status = "needs_attention"])
     \/ /\ ConsentEnded(j, jobs[j])
        /\ Save(j, [jobs[j] EXCEPT !.status = "blocked"])

-----------------------------------------------------------------------------
(***************************************************************************)
(* The executor's commands.                                                *)
(***************************************************************************)

\* Mutant of Claimable: the visitor's consent is taken for an approval.
ClaimableOnConsent(j) ==
  /\ ~ConsentEnded(j, jobs[j])
  /\ jobs[j].leasePhase # "live"
  /\ jobs[j].status \in {"awaiting_approval", "queued"}

\* Mutant of Claimable: an interrupted revocation is claimed like any other.
ClaimableAfterFailure(j) ==
  /\ ~LeaseEnded(jobs[j]) /\ ~ConsentEnded(j, jobs[j])
  /\ jobs[j].status \notin {"absent", "awaiting_verification", "cancelled"}
  /\ jobs[j].leasePhase # "live"
  /\ Revoking(jobs[j]) \/ jobs[j].status = "queued"

\* What claimProofJob asks of the refreshed row before it looks at the kind.
Claimable(j) ==
  /\ ~LeaseEnded(jobs[j]) /\ ~ConsentEnded(j, jobs[j])
  /\ jobs[j].status \notin {"absent", "awaiting_verification", "needs_attention",
                            "cancelled"}
  /\ jobs[j].leasePhase # "live"
  /\ Revoking(jobs[j]) \/ jobs[j].status = "queued"

\* The refresh inside the claim: when the issuer is silent it returns the row
\* with currentStatus 'unknown', and that object is the one that is saved.
Unknown(row) == [row EXCEPT !.unknown = TRUE]

BeginClaim(w, j) ==
  /\ Claimable(j)
  /\ Revoking(jobs[j]) \/ Current(j, jobs[j].credential)
  /\ \/ Awaits("claim", j, w, jobs[j]) /\ IssuerAnswers
     \/ Awaits("claim", j, w, Unknown(jobs[j])) /\ IssuerSilent

\* Mutant of ClaimProofJob: a claimed revocation runs like a proof.
ClaimRuns(c) ==
  /\ c.op = "claim"
  /\ Save(c.job, [c.seen EXCEPT !.status = "running", !.lease = c.by,
                                !.leasePhase = "live"])

ClaimProofJob(c) ==
  /\ c.op = "claim"
  /\ Save(c.job, [c.seen EXCEPT
                    !.status = IF Revoking(c.seen) THEN "blocked" ELSE "running",
                    !.lease = c.by,
                    !.leasePhase = "live"])

\* current threw for a job that is not revoking: the claim blocks the job.
BeginRefuse(j) ==
  /\ Claimable(j)
  /\ ~Revoking(jobs[j])
  /\ \/ /\ ~Current(j, jobs[j].credential)
        /\ Awaits("refuse", j, None, jobs[j])
        /\ IssuerAnswers
     \/ /\ \E row \in {jobs[j], Unknown(jobs[j])} : Awaits("refuse", j, None, row)
        /\ IssuerSilent

RefuseClaim(c) ==
  /\ c.op = "refuse"
  /\ Save(c.job, [c.seen EXCEPT !.status = "blocked"])

\* A lease is good up to and including the instant it ends.
RequireLease(w, j) ==
  /\ jobs[j].lease = w
  /\ jobs[j].leasePhase \in {"live", "due"}

Heartbeat(w, j) ==
  /\ RequireLease(w, j)
  /\ Save(j, [jobs[j] EXCEPT !.leasePhase = "live"])

Bind(w, j, target) ==
  /\ RequireLease(w, j)
  /\ jobs[j].target \in {None, target}
  /\ Save(j, [jobs[j] EXCEPT !.target = target])

\* Only the first call writes: later ones return the stored binding.
BeginSource(w, j) ==
  /\ RequireLease(w, j)
  /\ jobs[j].target # None
  /\ jobs[j].status = "running"
  /\ jobs[j].revocation = "none"
  /\ ~jobs[j].chainBinding
  /\ Current(j, jobs[j].credential)
  /\ Begin("source", j, w, jobs[j])

Source(c) ==
  /\ c.op = "source"
  /\ Save(c.job, [c.seen EXCEPT !.chainBinding = TRUE])

\* A receipt is filed as the executor sends it: the chain is the verifier's
\* business.  An event is filed the same way and only moves the revision.
Receipt(w, j, op) ==
  /\ RequireLease(w, j)
  /\ Save(j, [jobs[j] EXCEPT !.receipts = @ \cup {op}])

BeginSubmitted(w, j) ==
  /\ RequireLease(w, j)
  /\ jobs[j].target # None /\ jobs[j].chainBinding
  /\ IF jobs[j].revocation = "pending"
     THEN "revokeCredential" \in jobs[j].receipts
     ELSE "submits" \in jobs[j].receipts /\ Current(j, jobs[j].credential)
  /\ Begin("submitted", j, w, jobs[j])

Submitted(c) ==
  /\ c.op = "submitted"
  /\ Save(c.job, [c.seen EXCEPT !.status = "awaiting_verification",
                                !.leasePhase = "none"])

Failed(w, j) ==
  /\ RequireLease(w, j)
  /\ Save(j, [jobs[j] EXCEPT !.status = "needs_attention", !.leasePhase = "none"])
-----------------------------------------------------------------------------
(***************************************************************************)
(* The independent verifier, and completeProofVerification.  The challenge *)
(* of a task is drawn anew by every "submitted"; within one stay in        *)
(* awaiting_verification nothing else of the task can change, so a result  *)
(* for an older task is one whose call Save has dropped.                   *)
(***************************************************************************)

\* Mutant of VerifierAgrees: the receipts are believed as they were filed.
VerifierTrustsReceipts(j) ==
  IF jobs[j].revocation = "pending"
  THEN "revokeCredential" \in jobs[j].receipts
  ELSE "submits" \in jobs[j].receipts

\* What contracts/sdk/verify-issued-job.ts establishes before it signs: every
\* receipt is final on the bound contract, the operations the task is about are
\* among them, and the contract's revoked flag is the one the task expects.
VerifierAgrees(j) ==
  /\ jobs[j].receipts \subseteq chain[j]
  /\ IF jobs[j].revocation = "pending"
     THEN "revokeCredential" \in jobs[j].receipts
     ELSE "submits" \in jobs[j].receipts /\ "revokeCredential" \notin chain[j]

\* Mutant of BeginComplete: current(j) where the code has current(j, true).
BeginCompleteCurrent(j) ==
  /\ jobs[j].status = "awaiting_verification"
  /\ jobs[j].chainBinding
  /\ VerifierAgrees(j)
  /\ Current(j, jobs[j].credential)
  /\ Begin("complete", j, None, jobs[j])

BeginComplete(j) ==
  /\ jobs[j].status = "awaiting_verification"
  /\ jobs[j].chainBinding
  /\ VerifierAgrees(j)
  /\ IF jobs[j].revocation = "pending"
     THEN jobs[j].credential \in revoked
     ELSE Current(j, jobs[j].credential)
  /\ Begin("complete", j, None, jobs[j])

CompleteProofVerification(c) ==
  /\ c.op = "complete"
  /\ Save(c.job, IF c.seen.revocation = "pending"
                 THEN [c.seen EXCEPT !.status = "blocked",
                                     !.revocation = "confirmed"]
                 ELSE [c.seen EXCEPT !.status = "confirmed"])

-----------------------------------------------------------------------------
(***************************************************************************)
(* The world the handlers look at: the chain as the executor drives it     *)
(* (contracts/sdk/run-issued-job.ts), the issuer, and time.  An executor   *)
(* whose lease has ended may still have a transaction under way.           *)
(***************************************************************************)

Finalise(j, op) ==
  /\ chain' = [chain EXCEPT ![j] = @ \cup {op}]
  /\ UNCHANGED <<jobs, calls, outages, revoked, requestsStale, programJobs, expired>>

\* Both submit transactions; the contract refuses them once revoked.
ExecutorSubmits(j) ==
  /\ jobs[j].chainBinding
  /\ chain[j] = {}
  /\ Finalise(j, "submits")

ExecutorRevokes(j) ==
  /\ Revoking(jobs[j])
  /\ "revokeCredential" \notin chain[j]
  /\ Finalise(j, "revokeCredential")

IssuerRevokes(credential) ==
  /\ credential \notin revoked
  /\ revoked' = revoked \cup {credential}
  /\ UNCHANGED <<jobs, calls, outages, requestsStale, chain, programJobs, expired>>

RequestsGoStale(credential) ==
  /\ credential \notin requestsStale
  /\ requestsStale' = requestsStale \cup {credential}
  /\ UNCHANGED <<jobs, calls, outages, revoked, chain, programJobs, expired>>

ConsentEnds(j) ==
  /\ jobs[j].status # "absent"
  /\ j \notin expired
  /\ expired' = expired \cup {j}
  /\ UNCHANGED <<jobs, issuedVars, programJobs>>

\* The stored leaseExpiresAt does not move; the present does, for the row and
\* for every snapshot of it.
LeasePasses(j, phase) ==
  /\ jobs' = [jobs EXCEPT ![j].leasePhase = phase]
  /\ calls' = {IF c.job = j THEN [c EXCEPT !.seen.leasePhase = phase] ELSE c :
                 c \in calls}

LeaseRunsOut(j) ==
  /\ \/ jobs[j].leasePhase = "live" /\ LeasePasses(j, "due")
     \/ jobs[j].leasePhase = "due" /\ LeasePasses(j, "past")
  /\ UNCHANGED <<worldVars, outages, programJobs, expired>>

-----------------------------------------------------------------------------
InitIssued ==
  /\ jobs = [j \in Job |-> Absent]
  /\ revoked = {}
  /\ requestsStale = {}
  /\ chain = [j \in Job |-> {}]
  /\ calls = {}
  /\ outages = 0

Visit(j) ==
  \/ \E credential \in Credential : BeginRequest(j, credential)
  \/ CancelProofJob(j)

Administer(j) ==
  \/ BeginApprove(j)
  \/ BeginResume(j)
  \/ ResumeRevocation(j)

Poll(j) ==
  \/ NoteCredentialRevoked(j)
  \/ RefreshProofJob(j)
  \/ BeginRefuse(j)
  \/ BeginComplete(j)

Execute(w, j) ==
  \/ BeginClaim(w, j)
  \/ Heartbeat(w, j)
  \/ \E target \in Target : Bind(w, j, target)
  \/ BeginSource(w, j)
  \/ \E op \in ChainOp : Receipt(w, j, op)
  \/ BeginSubmitted(w, j)
  \/ Failed(w, j)

Finish(c) ==
  \/ \E mode \in Mode : RequestProofJob(c, mode)
  \/ ApproveProofJob(c)
  \/ ResumeProofJob(c)
  \/ ClaimProofJob(c)
  \/ RefuseClaim(c)
  \/ Source(c)
  \/ Submitted(c)
  \/ CompleteProofVerification(c)

World(j) ==
  \/ ExecutorSubmits(j)
  \/ ExecutorRevokes(j)
  \/ ConsentEnds(j)
  \/ LeaseRunsOut(j)

NextIssued ==
  \/ \E j \in Job : Visit(j) \/ Administer(j) \/ Poll(j) \/ World(j)
  \/ \E w \in Worker, j \in Job : Execute(w, j)
  \/ \E c \in calls : Finish(c)
  \/ \E credential \in Credential :
       IssuerRevokes(credential) \/ RequestsGoStale(credential)
-----------------------------------------------------------------------------
(***************************************************************************)
(* Properties of the issued-credential jobs.                               *)
(***************************************************************************)

\* Every row and every call in flight has its type.
IssuedTypeOK ==
  /\ jobs \in [Job -> Row]
  /\ revoked \subseteq Credential
  /\ requestsStale \subseteq Credential
  /\ chain \in [Job -> SUBSET ChainOp]
  /\ calls \subseteq Call
  /\ outages \in 0..MaxOutages

\* While the issuer vouches for a credential, at most one of its jobs is open,
\* whatever requests, resumes, cancellations and refusals have raced
\* (requestProofJob's NOT EXISTS).
OneOpenJobPerCredential ==
  \A i, j \in Job :
    /\ Open(i) /\ Open(j)
    /\ jobs[i].credential = jobs[j].credential
    /\ jobs[i].credential \notin revoked
    => i = j

\* Nothing runs, waits for the verifier, is confirmed or is bound to a contract
\* without the administrator's (or the demo's automatic) approval.
OnlyApprovedJobsRun ==
  \A j \in Job :
    \/ jobs[j].status \in Engaged \cup {"queued", "needs_attention", "confirmed"}
    \/ jobs[j].target # None
    => jobs[j].approved

\* "Confirmed" and "revocation confirmed" say what the contract bound to the job
\* really holds, though only the verifier ever looked at it, and a revocation is
\* confirmed only for a credential the issuer revoked.
ConfirmedIsOnChain ==
  \A j \in Job :
    /\ jobs[j].status = "confirmed" => jobs[j].chainBinding /\ "submits" \in chain[j]
    /\ jobs[j].revocation = "confirmed" =>
         "revokeCredential" \in chain[j] /\ jobs[j].credential \in revoked

\* Once a revocation is recorded against a contract, no list, claim, command or
\* late verification makes the job usable as a proof again.
RevokedJobStaysBlocked ==
  \A j \in Job :
    jobs[j].revocation # "none" =>
      jobs[j].status \notin {"awaiting_approval", "running", "confirmed"}

\* docs/issued-midnight-integration.md, step 8: after the issuer's revocation the
\* operator runs the same executor again, which sends the revocation to the
\* original contract.  So a pending revocation is claimable, with the verifier, or
\* waits for the administrator.
PendingRevocationIsReachable ==
  \A j \in Job :
    jobs[j].revocation = "pending" =>
      jobs[j].status \in {"blocked", "queued", "needs_attention",
                         "awaiting_verification"}

\* What was recorded stays recorded: no handler that awaited, however late it
\* writes, undoes an approval, a contract binding, a filed receipt or a
\* revocation (the UPDATE's WHERE revision=?).
NothingRecordedIsLost ==
  [][\A j \in Job :
       /\ jobs[j].approved => jobs'[j].approved
       /\ jobs[j].target # None => jobs'[j].target = jobs[j].target
       /\ jobs[j].chainBinding => jobs'[j].chainBinding
       /\ jobs[j].receipts \subseteq jobs'[j].receipts
       /\ jobs[j].revocation = "pending" => jobs'[j].revocation # "none"
       /\ jobs[j].revocation = "confirmed" => jobs'[j].revocation = "confirmed"]_jobs

\* A revocation waiting for the verifier is not taken back by polling, and no
\* executor takes a job that waits for the verifier.
VerificationIsNotDisturbed ==
  [][\A j \in Job :
       jobs[j].status = "awaiting_verification" =>
         /\ jobs'[j].lease = jobs[j].lease
         /\ jobs'[j].leasePhase = "none"
         /\ jobs[j].revocation = "pending" =>
              \/ jobs'[j] = jobs[j]
              \/ jobs'[j].revocation = "confirmed"]_jobs

\* An interrupted job gets a lease again only after somebody resumed it, or, when
\* its revocation is still to be recorded, after the revocation was; an
\* interrupted revocation only after somebody resumed it.
InterruptedJobWaits ==
  [][\A j \in Job :
       jobs[j].status = "needs_attention" =>
         \/ jobs'[j].status \in {"needs_attention", "queued"}
         \/ /\ jobs'[j].status = "blocked"
            /\ jobs[j].revocation = "none"
            /\ jobs[j].credential \in revoked]_jobs
=============================================================================
