# Formal models of BizProof

BizProof lets a company reuse an attestation it got from a separate issuer: it applies to
several institutions, and the eligibility results are proved on a Midnight contract.  This
directory holds TLA+ models of the part of the repository where several processes share
state, the TLC configurations that check them, and the theorems that TLAPS proves about
them.  Paths below are relative to the repository.

## 1. Inventory

| Component | State | Operations | Works with |
|---|---|---|---|
| Shared queue, `lib/proof-queue.ts` | none of its own: it counts rows of `proof_jobs` and `program_proof_jobs` | the admission predicate in the INSERT of a request and the UPDATE of a resume | both job families |
| Issued-credential jobs, `lib/proof-jobs.ts` | `proof_jobs`: status, approval, revocation, target, chain binding, receipts, lease, revision | request, approve, resume, cancel, note a revocation, refresh, claim, the seven worker commands, complete | issuer, workspace, executors, verifier |
| Program jobs, `lib/program-proof-jobs.ts` | `program_proof_jobs`, the same without a revocation | the same | workspace, executors, verifier |
| Worker API and loops, `app/api/proof-worker`, `contracts/sdk/worker-loop.mjs` | worker health, a lock per role, cooldowns in memory | discover, lock, run a child per job | jobs |
| Executors, `contracts/sdk/run-issued-job.ts`, `run-program-job.ts` | `private-journal.json`: pending step, sent transaction id, completed receipts, abandoned steps | claim, recover, deploy, bind, prove, revoke | jobs, chain |
| Verifiers, `contracts/sdk/verify-*-job.ts` | none | read a task, compare it with the chain, sign | jobs, chain |
| Contracts, `contracts/bizproof.compact`, `program-core.compact` | ledger: administrator, trusted time, issuer keys, suspended, revoked, requests, cancelled, results | register, suspend, resume, revoke, advance time, rotate, create, cancel, submit | executors |
| Separate issuer, `services/issuer/core.mjs` | identities, requests, credentials, events, commands by idempotency key | identity and consent, request, decide, resubmit, cancel, revoke, signed status | web server |
| Automatic issuance, `lib/demo-issuance-jobs.ts` | `demo_issuance_jobs`: stage, attempts, lease, deadline | start, process, resume, recover | issuer, workspace |
| Workspace store, `lib/store.ts`, `app/api/platform` | one JSON document and one version per owner | read, await, write if the version stands | all handlers |
| Application flow, `lib/application-flow.ts`, `application-batch.ts` | applications and their receipts in the workspace | submit one, submit several | workspace |
| Revocation relay, `app/api/issuance/route.ts` | none | issuer, then chain jobs, then workspace | issuer, jobs, workspace |
| Policy translation, `lib/domain.ts`, `contracts/sdk/policy-age.ts`, `issued-source.ts` | none | evaluate a claim, find the founding day of an age limit, turn a policy into a circuit's constants | contracts |
| Workflow exceptions, `lib/workflow-exceptions.ts` | requests for access in the workspace | request, decide, cancel, provision | workspace |
| Everything else: identity, adapters, demo pool, UI, analytics, deployment | per-user records, or none | single-request operations | |

**What is hard here.**  A Node server interleaves its handlers at every `await`; a handler
reads a row, asks the issuer over the network, and writes the row back.  Executors run
elsewhere, hold leases that time out, die between two steps, and may have a transaction
under way after they lost their lease.  Consents end while handlers wait.  The issuer may be
silent, and revokes at any moment.  Two tables share one capacity.  The verifier's answer
may arrive after the world moved.

**What makes each part correct.**  Queue: the places given never exceed the capacity.  Jobs:
one open job for a credential or an application; nothing runs unapproved; "confirmed" is
true of the chain; a revocation sticks, and is carried to the chain; nothing recorded is
lost to a late write.  Executor: no step is sent twice.  Contract: one result per request,
none after a revocation, a cancellation or the deadline.  Issuer: a retried command has one
effect.  Workspace: no update is lost; a submission that is repeated is one application, and
a failed item of a batch leaves nothing behind.  Translation: the circuit decides as the
review does.

`PROJECT.json` lists every component with its state of modelling and every hazard with its
line.

## 2. Plan

1. `ProofQueue`, `ProofJobs`, `ProgramProofJobs`, and `ProofPlatform` that composes them;
   their proofs.  *Done.*
2. `StepLedger` and `ChainExecutor`: the executor's journal as a write-ahead log, with
   crashes between any two writes; its proofs.  *Done.*
3. `RequestRegistry` and `BizProofContract`: the circuits over the ledger; their proofs.
   *Done.*
4. `IssuerRequests` and `AutomaticIssuance`: idempotent commands, lost answers, leases that
   overlap, the receipt into a workspace that others write; their proofs.  *Done.*  Left: the
   sessions a visitor confirms, cancels and spends by hand.
5. `ApplicationLedger` and `Workspace`: what the handlers put into a workspace between reading
   and saving it; batches; the revocation relay over issuer and workspace; their proofs.
   *Done.*  Left: the actions of `app/api/platform/route.ts` that change one record at once
   (companies, issuers, drafts, schemas, authorities, files), and those of
   `lib/workflow-exceptions.ts`.
6. `PolicyTranslation`: `lib/domain.ts` `evaluate`, `contracts/sdk/policy-age.ts` and
   `issued-source.ts` against the last lines of `submit`; its proofs.  *Done.*
7. `JobOutcomeProofs`: what becomes of a job of either family.  *Done.*
8. `JobLedger`: what the web server, the executor and the chain rely on in each other.  Both
   tables implement it, and the executor moves its row and its contract as it allows; the
   proofs of this.  *Done.*
9. Preparation of a program application (`lib/program-service.ts`), whose result the jobs
   know as `materialsStale` only.  *Left.*

Modules are written to be proved about: constants with named assumptions, one action per
operation, invariants in named parts, no RECURSIVE operator.

## 3. Modules

- **`ProofQueue`** - `jobs` and `programJobs` are the two tables, a function from row ids to
  records; an id whose status is "absent" has not been inserted.  `ProofQueueCount` is
  `proofQueueCountSql`.  Time appears only through the comparisons the code makes: a consent
  is in `expired` or not, and a lease is "live", "due" (this very instant), "past" or "none".
- **`ProofJobs`** - `lib/proof-jobs.ts`.  A handler that awaits `current` is two actions:
  `Begin<op>` reads the row and checks, and leaves a record in `calls`; `<op>` writes.
  `Save` is `UPDATE ... WHERE revision=?`: it changes the row and drops every call that had
  read the older one, because its UPDATE can match nothing any more.  `NoteCredentialRevoked`
  handles one row, so the loop over rows may stop anywhere.  `chain` is what the contract of
  a job has finalised; executors move it whether or not they still hold a lease.
- **`ProgramProofJobs`** - `lib/program-proof-jobs.ts` in the same style, with the code's
  differences: strict lease comparison, a heartbeat that awaits, no revocation, and a
  verification that does not ask for a running consent.
- **`ProofPlatform`** - both over the same tables; `Spec`, the fairness of `FairSpec`, and
  the properties that concern both.
- **`MCProofPlatform`** - the symmetry set of the instances.
- **`ProofPlatformProofs`**, **`JobOutcomeProofs`** - its theorems.
- **`JobLedger`** - the life of a chain job of either family, from the visitor's request to
  the verified proof, and from the issuer's revocation to the verified withdrawal.  `stage`,
  `subject` and `sourced` are the web server's (`sourced`: the source of the contract is
  recorded), `disowned` the issuer's, `proved` and `withdrawn` the chain's.  Who asks, polls,
  races or dies is left out.  `IssuedLedger` and `ProgramLedger` of `ProofPlatform` and
  `ServerLedger` of `ChainExecutor` map to it.
- **`StepLedger`** - what an executor promises about one job: a step (step 1 deploys, the next
  ones register, set the time, create and submit; step 0 is the revocation) is sent once at
  most, when its predecessors are final, and no proof step is sent after the revocation.
- **`ChainExecutor`** - `run-issued-job.ts` and `run-program-job.ts` as one process and its
  files.  `file` is `private-journal.json`, `memory` the copy the process works on, `phase`
  the line it has reached; every action ends where the process can be lost: after a write of
  the journal, after a transaction is sent, after a request to the web server.  `vault` is the
  key store of `IssuerVault`, `secret` the administrator's private state, which the client
  library stores once the deployment is final.  `server` is the row of `proof_jobs` as far as
  the executor sees it, with the administrator's resume, the issuer's revocation and the end
  of the lease as actions of their own.  `Interrupt` is the death of the process, a call that
  throws, or an answer of the server that refuses the executor.
- **`ChainExecutorProofs`** - its theorems.
- **`RequestRegistry`** - what the contract promises about a request: one answer, for good,
  before the deadline and before a withdrawal, and one that an attestation in force gives at
  that moment: `backed` holds the answers so vouched for, and is the contract's to say.
- **`BizProofContract`** - every circuit of the two contracts, one action each; `program`
  says which of them the ledger is.  A map of the ledger is a function on what was inserted.
  `administrator` is the account that knows the secret, or nobody (`rotateAdministrator` takes
  any hash); `attested` is what the owners of issuer keys have signed.  An attestation is in
  force (`InForce`) while its issuer is not suspended, its credential not revoked, and the
  trusted time within its claims' validity; this is stated apart from the assertions of the
  circuits (`Valid`), which have to keep to it.
- **`MCBizProofContract`** - claims and policies for its instance.
- **`BizProofContractProofs`** - its theorems.
- **`IssuerRequests`** - the ledger of `services/issuer/core.mjs` for one visitor: identity
  sessions, the request each is spent on, its credential, and the answers kept by idempotency
  key.  A command is one action, as it is one transaction; the one that was answered before
  changes nothing.
- **`AutomaticIssuance`** - `lib/demo-issuance-jobs.ts`, `lib/demo-issuance.ts` and
  `saveState`.  `rows` is `demo_issuance_jobs`; a handler is a processing of a job, by the
  POST that started it or by a recovery worker.  Each call to the issuer is an action whose
  answer may be lost (`Call...`, `Unreachable`), each `save` one that may meet a newer
  revision (`Save...`), and between any two the other handlers, the clock, the visitor and a
  crash may come.  `current` says that the row is as the handler left it, `walletCurrent` the
  same of the workspace.  `page` is a request of the issuance page, which saves over the same
  workspace: it syncs the wallet or revokes (`ReadPage`, `SavePage`), or receives an original
  (`ReadReceipt`, `SaveReceipt`).  What reads a row and saves it without a call in between is
  one action.  A handler holds one lease at a time, so its name stands for the random lease.
- **`AutomaticIssuanceProofs`** - their theorems.
- **`ApplicationLedger`** - what a workspace promises about applications: stages that only go
  forward, an application filed only when no other of its target is open, nothing presented
  or judged on a credential known to be revoked; with its one theorem.
- **`Workspace`** - one company's workspace as `app/api/platform/route.ts`,
  `application-flow.ts`, `application-batch.ts` and `app/api/issuance/route.ts` change it.
  `ws` is the stored document, `issuer` what the issuer's register says, `calls` a handler
  with the copy it read (`state`), the copy one item works on (`draft`), and the items still
  to do.  `Save` is `UPDATE ... WHERE version=?`: it ends every handler that read the older
  version.  A submission is `Inspect` (the credential and the preview), `File` (the request
  and its presentation), `Validate` (everything again, and the verdict); `FailItem` is any
  exception inside an item, which loses its draft only.  Deadlines are what the clock makes
  of a request's status (`TimePasses`), in the stored document and in every copy.  An action
  that awaits nothing between reading and saving is one step (`SaveNow`).
- **`MCWorkspace`** - the targets, requests and submissions of its instance.
- **`WorkspaceProofs`** - its theorems.
- **`PolicyTranslation`** - the search of `policy-age.ts` for the founding day that stands for
  an age limit, a step for each halving (`Narrow`) and one for the check of the neighbourhood
  (`Conclude`), over an arbitrary calendar that keeps the named assumption; `Constants` is
  what `issued-source.ts` makes of the other conditions, `Eligible` what `submit` compares,
  `Evaluate` what the review of `domain.ts` says.
- **`MCPolicyTranslation`** - the Gregorian calendar from 1970 to 2124 and the inputs.
- **`PolicyTranslationProofs`** - its theorems.

Operators whose comment begins "Mutant of" are the faulty variants of a definition against
which each property was tried; nothing in a specification uses them.

## 4. Runs

| Run | Question | Bounds |
|---|---|---|
| `issued_job` | What may happen to one job at worst, and is every wait ended | 1 job, 2 executors, 2 contracts, manual and automatic approval, 1 silent answer of the issuer, under `FairSpec` |
| `shared_queue` | Do two jobs for a credential exclude each other, and do the families respect one capacity | 2 jobs of 1 credential and 1 program job, capacity 1, no contract |
| `program_pair` | Are the program jobs a ledger of jobs as well, and is anything lost | 2 jobs, 1 application, 2 executors, 2 contracts |
| `unknown_kept` | What one silent answer does to discovery | 1 job, 1 executor, 1 silent answer, under `FairSpec`; *violated* |
| `cancelled_revocation` | Is a pending revocation reachable | 1 job; *violated* |
| `executor` | Does the journal keep a job to one transaction per step, and what does a crash cost | both families, 4 proof steps, the last one a submission, 2 interruptions |
| `contract` | What may the order of transactions do to an answer | both contracts, 2 accounts, issuers, keys and companies, 1 credential, 1 request, times 0 to 2, 2 attestations of claims that are valid at different times |
| `deploy_recovery` | Does a recovered deployment go on | 3 proof steps, 1 interruption; *violated* |
| `issuance` | What may overlap, be lost or be decided by a person while a job is tried again | 1 job, 2 handlers, 2 sessions, 4 revisions of a request, 2 attempts, 2 tries to receive |
| `policy` | Does the circuit decide as the review does | the calendar of 1970 to 2124; limits of 0, 1, 12, 36 and 1200 months; moments and founding days around the ends of months of a leap year, the year before and one three years before; claims at and beside every bound |
| `workspace` | What may interleave with a submission, fail in it, or be repeated | 2 targets, of which the credential meets 1; 3 requests; 4 submissions with 2 keys; 1 company, 1 reviewer, the page; under `FairSpec` |
| `queue_overrun` | Is the capacity kept if consents may end | 1 job of each family, capacity 1; *violated* |

The bounds are enough for the cases in question: two writers of a row are two calls on one
job; every race for a row needs two of them; every race for admission needs two rows and one
place; a lease that passes from one executor to another needs two of them; a binding that
must not change needs two contracts.  `MaxOutages` bounds only how often the issuer is
silent within a claim.  Deadlock is not checked: a system in which every job is closed and
every credential revoked has nothing left to do, and each instance has finitely many rows.

Executor: a second interruption is one that hits the recovery from the first, and a third
would meet a journal of the same shape as the second; four steps are the deployment, two
steps of which the later waits for the earlier, and a submission, which the contract refuses
once the credential is revoked there.  The proofs need neither bound.  Contract: two
issuers and two keys let a key be replaced under an answered request, two companies and two
claims let the answer stand on the wrong ones, and with three times a request can be made in
time and late, and the claims, each valid from its time to the next, be too young, valid or
expired while it is open.  Requests meet only in the maps they are kept in, so one is enough.
`MaxAttested` bounds what is signed; an answer stands on one attestation, and a second can
compete with it.

Issuance: two handlers are the one whose lease ended and the one that took over; a second
session is the one that must not be opened, or the place a visitor took by hand; four
revisions let a request be sent back, supplemented and then approved by a person, with the
automation still at work on the first.  Two attempts and two tries have a first, which is
followed by another, and a last.  `attempts` stays at the limit where the code counts on,
since only the comparison with the limit is used.  A second job could meet the first only in
the ledger's places and in the wallet, where a visitor's session and `OtherSave` stand for
it; that their sessions are their own is proved for any number.

Policy: a limit is none at all, a month, a year, a few years, or one that reaches behind 1970;
the moments are about the ends of months of 28 to 31 days, where `setUTCMonth` rolls over and
a fixed rule clamps, and the first day of the calendar.  Workspace: a second request of a
target lets a lapsed application be followed by another; of the submissions one is repeated
under its key, one comes under the same key with another preview, one under a new key, and
one is for the other target, so that a batch has two items either of which may fail; the
reviewer and the page are the writers in between.  A second company handler meets the first
only in the version, as every other writer does; that two submissions under way together leave
one application is not in this run but proved for any number (`OneReceiptHolds`,
`LedgerKept`).  The proofs need none of these bounds.

### What the runs show

`issued_job`: approval comes before everything (`OnlyApprovedJobsRun`); a confirmed proof or
revocation is really on the contract (`ConfirmedIsOnChain`); no late write makes a revoked
job usable (`RevokedJobStaysBlocked`) or undoes what was recorded (`NothingRecordedIsLost`);
polling does not disturb a verification under way (`VerificationIsNotDisturbed`); an
interrupted job waits for a person (`InterruptedJobWaits`).  Under all the races the table
changes as a ledger of jobs does, one entry at a time (`IssuedJobsKeepLedger`, the refinement
of `JobLedger`): no answer of an executor or a verifier is accepted in another stage than the
one it is for, but for the failure an executor reports of a job that the revocation closed.
A dead executor is noticed (`EndedLeaseIsNoticed`), a revocation is taken up unless the row
is marked unknown (`KnownRevocationIsTakenUp`), and what the verifier can establish is
settled (`VerifiableJobSettles`).  `program_pair`: two program jobs keep the same ledger
(`ProgramJobsKeepLedger`), which opens a job only if no open one has its application, and
what was recorded of them stays (`ProgramRecordsStay`).  `shared_queue`: the INSERT's NOT
EXISTS is enough to have one open job.  For credentials this is so while the issuer vouches
for them: a revoked credential may have two open rows, one of them cancelled and carrying its
revocation. `shared_queue` also: the predicate inside INSERT and UPDATE is enough for the
jobs whose consent runs.

`executor`: at every moment what was sent is in the journal on disk
(`NothingSentIsForgotten`), so no interruption makes the executor send a step twice or out of
order (`EveryStepOnce`, the refinement of `StepLedger`); a receipt stands for a finalised
transaction (`ReceiptsAreFinal`); a job reaches the verifier only with its last proof step or
its revocation on the chain (`SubmittedIsFinal`); and a transaction whose id was written down
is reconciled in the end (`StoredTransactionIsReconciled`).  What the executor asks of its row,
and what the chain finalises for it, is what `JobLedger` lets it (`MeetsJobLedger`): the proof
is on the contract only of a job whose source is recorded, the revocation only of one that is
being revoked.  Two crashes lose what no later run can replace, and then nothing is sent on
the strength of it (`StrandedJobSendsNothing`).  `contract`: the answers stand on
what the request's issuer signed for the request's holder (`AnswersStandOnAttestations`), and
a request is answered once, in time, not after a cancellation, and only by an attestation in
force: no revoked credential, suspended issuer or expired claim gives an answer
(`EveryRequestOnce`).  What is answered stays when the credential is revoked afterwards.

`issuance`: with answers lost anywhere and two handlers at the same job, the issuer opens one
session for it (`OneSessionPerConsent`), because the keys are derived from the job's; the
automation never decides what a person has touched (`ReviewIsNotOverruled`), because its
decision carries the revision it saw; a job is complete only with its credential issued and
kept (`CompletedIsReceived`), whatever is saved over the workspace meanwhile; no save undoes
a receipt or a revocation (`ReceivedStays`); and every job is completed, blocked or handed to
a person (`EveryJobSettles`).

`policy`: the search is a binary one over days of which not every one is a boundary, since a
founding day at a month's end has its anniversary after those of the days that follow it.
Whatever is granted is exact (`ProofAgrees`): with the constants the circuit is given it
accepts the companies that the review accepts, for every founding day it supports.  What is
refused could not be granted: no founding day separates the old enough from the others
(`RefusalIsJustified`).  And the search ends (`ConversionEnds`).

`workspace`: whichever items of a batch fail, and wherever, a request is filed exactly if its
company has the receipt (`EverySubmissionHasReceipt`); a submission repeated under its key,
under another key or beside the first is one application (`OneReceiptPerKey`); a verdict is
automatic exactly if the company saw that it would be and the institution still wants it so
in the workspace that is written (`FiledAsShown`).  Every step keeps the ledger of
applications (`KeepsApplicationLedger`, the refinement), which has one open application for a
target.  A revocation reaches the wallet though the step that was to write it fails
(`RevocationReachesWallet`), because every later page asks the issuer again.

Four runs show where the code does other than its documentation says; each is a finding:

- `cancelled_revocation` - a revocation can be cancelled with its job.  A running job with a
  contract bound to it is noted as revoked (blocked, the revocation pending), its executor
  fails, and the administrator's resume queues it again without `current`; the cancellation
  asks only for "queued" and no `current`, so the visitor can cancel it.  No claim accepts
  the row: the contract keeps the credential, and the row keeps a place.  A job that is
  cancelled so before its credential is revoked ends in the same row, as noting the
  revocation leaves "cancelled" as it is.
- `unknown_kept` - the mark "unknown" is meant for display, but a claim stores the object
  that carries it.  Discovery passes over the row from then on.
- `queue_overrun` - a claim writes "running" without the admission predicate, so a place
  that was freed by an ended consent can be used twice.
- `deploy_recovery` - a run that dies after its deployment is final and before it wrote the
  address leaves a journal whose deployment is recovered, but the administrator's client is
  not connected to the contract: the next step is written down as pending, throws before it
  is sent, and every later run stops at it.  `run-program-job.ts:44` has the line that
  `run-issued-job.ts` lacks: program jobs go on (`ProgramRecoveryJoins`).

Five more observations are not contradicted by any document.  A job in
`awaiting_verification` whose consent ends before the verifier's result stays there, and
keeps its place, since `completeProofVerification` wants the consent running
(`VerifiableJobSettles` excludes it by name).  A job revoked after `bind` and before `source`
can never report its revocation, since `submitted` wants a chain binding, and nothing else
ends it (the theorem `UnsourcedRevocationStays`).  An executor that dies between the creation
of the attestation key and the write of `issuerReady` stops at `IssuerVault.create` in every
later run.  The administrator's secret is in memory only until the client library stores it,
so a crash before that leaves a deployed contract that nobody can administer.  These are the
two dead ends of `StrandedJobSendsNothing`.  And a handler of an automatic issuance whose
lease and consent end during a call may, when that call fails, write "retry" over the
"blocked" that the recovery put there, since blocking leaves the lease as it was (`Block`,
then `Catch`); a new job may have been admitted in between, so a visitor can have two open
ones for a moment, until the old one is processed and blocked again.  The consent of all but
one of them is over (the theorem `OneConsentedJob`).

### Fairness

`FairSpec` assumes, for each job, that a handler that reached its write finishes; that
somebody polls (every list of jobs and every discovery of work refreshes each row, and the
worker loops discover for ever); and that the worker loops try again what discovery offers
them - which excludes a row marked unknown.  It assumes nothing of visitors, of the
administrator, of the chain, of an executor once it holds a lease, or of the issuer's mood.
`RevocationIsTakenUp` therefore ends with a lease being given, and an interruption that waits
for the administrator counts as an answer.

The `FairSpec` of `ChainExecutor` assumes that the service's loop starts a claimable job,
that a process that is not interrupted goes on to its next write or throws, that leases end,
that a transaction that was sent becomes final, and that the administrator resumes a job that
needs attention.  `Interrupt` is never fair and `MaxInterruptions` bounds it: without a bound
the process could die at the same line for ever.  `BizProofContract` has no fairness and no
liveness; nobody is obliged to call a circuit.

The `FairSpec` of `AutomaticIssuance` assumes that a server's recovery worker, which looks
every 15 seconds, takes up or blocks a job that stays due; that a handler that is not killed
goes on, since every call has a timeout; and that leases, waits and consents end.  Crashes,
lost answers and the visitor's clicks may happen any number of times.

The `FairSpec` of `Workspace` assumes that the page is opened again and again, and that not
every answer of the issuer it reads is overtaken by another save or an error: `SyncStatus` is
strongly fair, since a save of anybody takes the page's turn away.  Nobody has to submit,
judge or retry anything.  `PolicyTranslation` is a loop of one function, fair as a whole.

## 5. Proofs

**Platform.**  `ProofPlatformProofs` proves, for any number of jobs, executors, contracts and
credentials and any capacity: `TypeCorrect`, `ApprovalComesFirst`, `RevocationSticks`,
`RecordsStay`, `CapacityHolds`.  The assumptions are those of the modules: finitely many row
ids, disjoint between the tables; a positive capacity; "none" is not an executor or a
contract.

None of the properties is inductive.  A handler writes a row it read long ago, so what it
writes is harmless only because the row has not changed since.  `CallsInv` says that: the
snapshot of every call in flight equals its row, and what its first half checked still holds
of the snapshot.  With it every write is a function of the present row, and `RowInv` is
preserved by each of those functions.  `BlockedByIssuer` closes the one gap: an executor may
go on with a blocked row only if the issuer's revocation blocked it, which is why
`noteCredentialRevoked` need not take the lease away.  `SaveKeeps`, `AwaitsKeeps` and the
lemma for the passing of time show that the three shapes of a step preserve the invariant;
one lemma per action then only shows that the new row satisfies `RowInv`.  `CapacityHolds`
needs in addition that only an admitted write can add to the set of consented jobs.

`JobOutcomeProofs` goes on from there: `OneOpenJob`, `ConfirmedHolds`,
`VerificationUndisturbed` and `InterruptedWaits` of issued-credential jobs,
`OneOpenProgramJob`, `ProgramConfirmedHolds` and `ProgramRecordsKept` of program jobs.  They
are about the chain, the issuer and the other rows as well as about a row, so two facts are
added to the invariant: what a row says is so (`Outcome`: a confirmed row's transaction is on
its contract, a noted revocation is the issuer's), and what a handler found before it waited
is still so when it writes (`Snap`: its row has the same credential and lease; the evidence a
verifier confirmed is on the contract).  Both stay, because the chain and the issuer's
revocations only grow (`GrowsStay`).  Every step is then one of four shapes (`StepShape`): a
write that is a `Move` of one row, the beginning of a handler, the passing of a lease, or
something that happens elsewhere.  `Move` says what a write may make of a row; the action
properties are read off from it, and two open jobs cannot arise, because a row becomes open
only by an INSERT that found none (the last disjunct of `Move`).

`IssuedJobsKept` and `ProgramJobsKept` are the refinements of `JobLedger`, by the same
shapes: each disjunct of `Move` is one entry of the ledger or leaves the stage as it is
(`MoveServes`, `ProgramMoveServes`), what happens elsewhere is a step of the issuer or the
chain, and the beginning of a handler and the passing of a lease are stutters.  Of the ledger
follow `LedgerStandsOnChain`, that the end of a job is true of the chain whichever family it
is of, and `UnsourcedRevocationStays`, that the one dead end among the observations above is
final.

**Executor.**  `ChainExecutorProofs` proves, for any number of steps and interruptions,
`ExecutorTypes`, `NothingIsForgotten`, `ReceiptsFinal`, `SubmittedAreFinal` and
`ExecutorKeepsLedger`, the refinement.  That a step is sent once is not inductive: it rests
on what is on disk at the moment before.  `RecordInv`, proved in `RecordInvariant`, says what
that is.  `SameJournal`: the process's copy and the file agree but for the id that is about
to be written.  `OneUncertainStep`: at most one step is pending.  `Recorded`: every step that
was sent has a receipt, is pending, or was abandoned for a revocation.  `CallInv`: the step a
call is about is new, and its predecessors are final, until it is sent.  `IdleInv`: between
two runs the copy of the next process is what is on disk.  `RevocationInv` and `ProofInv` keep
proof and revocation apart, since one process at a time works on the job; `ContractInv` ties
the contract's address to the receipt of its deployment.  The refinement then only needs
that each sending action is a step of the ledger; `ChainInOrder` follows from the ledger: the
steps on the chain have no gap.

`ExecutorMeetsLedger` is the other side of `JobLedger`.  In `ProofPlatform` the chain moves as
a job's source and revocation allow, whatever the executor; here the executor's script is
shown to keep to that, while the server is reduced to the answers the script can tell apart.
`SourcedInv` says that a submission is taken up only after the source was recorded, and
`LeaseInv` that a leased row is running, or blocked by the issuer's revocation.
`StrandedJobIsSafe` needs `StorageInv`: which phases may have a key or a secret that the disk
does not know of.  `ProgramRecoveryJoins` needs `AdoptedInv`: a program job's client is
connected whenever the address is in its journal.

**Contract.**  `BizProofContractProofs` proves, for any accounts, issuers, keys, requests,
claims and policies, `ContractTypes`, `AnswersStand` and `ContractKeepsRegistry`, the
refinement; from the registry it implements follow `AnsweredWereAsked` and `AnswersRemain`:
what is answered was asked and not withdrawn, and no transaction takes an answer back.  The
type invariant has one part that is not a type: the issuer of every request
is registered.  Without it `submit` could look up a key that is not there, and
`AnswersStandOnAttestations` would not be inductive, since a later `registerIssuer` could give
an answered request another key.  The refinement needs that a request's deadline is after the
time of its creation, and that time never moves back.  `SubmitIsBacked` is its other half:
the attestation that `submit` checks is in force and answers its request, so the answer is
backed at the moment it is recorded.

**Issuance.**  `AutomaticIssuanceProofs` proves, for any number of jobs, handlers, sessions,
attempts and tries, all the safety properties of the run: `IssuanceTypes`, `OneSessionHolds`,
`ReviewHolds`, `CompletedHolds` and `ReceivedHolds`.  The ledger is inductive by itself
(`LedgerInv`): an identity key and the session of its job name each other, a request has used
its session up, and the automation approves only a first revision.  It only grows (`Grows`).
So what a handler once saw stays true however late it uses it, and `HandlerOK` says what that
is: the session is its job's, the request it received from is issued, and its copy of the
workspace has all that the workspace has unless it is marked as behind (`Follows`).
`HandlerOutlives` shows that this survives every step of the others; `CompletedIsReceived`
then follows at the step that completes the row, and `ReceivedStays` at the three that save
the workspace.  The assumptions are those of the modules: "no job" is not a job, and the
limits are positive.

`OneConsentedJob` is about the INSERT of `startDemoIssuanceJob`, which looks for active rows
only.  Two rows may be active at once, as observed above, so the invariant speaks of consents:
`HoldsOn` says that a handler with the lease of a row finds it active while its consent
lasts, whatever the recovery did to it, and that a row which is as the handler left it is the
handler's to save.  A write can then make active only a row whose consent is over.

**Policy.**  `PolicyTranslationProofs` proves `TranslationTypes`, `Agreement` and
`RefusalJustified` for every calendar whose months have 28 to 31 days, and any limits,
moments, claims and terms.  The invariant of the search cannot say that all days before `lo`
are refused and all from `hi` on accepted, since acceptance is not monotonic.  It says that
the last day refused is just before `lo` and that `hi` is accepted, and `Local` makes up for
the rest: of two days more than a month apart the later one has the later anniversary, so
exceptions lie within `Margin` of the boundary, where `Exact` looks at every day.
`IndexTellsApart` shows that the numbers of regions in the sorted list tell them apart.
`Halving` is what `ConversionEnds` needs of the loop: a look at a day leaves at most half of
the days.

**Workspace.**  `WorkspaceProofs` proves `WorkspaceTypes`, `ReceiptsHold`, `OneReceiptHolds`,
`ShownHolds`, `LedgerKept` (the refinement) and `OneOpenInWorkspace`, for any targets,
requests, submissions and handlers.  A handler saves what it computed from a copy, so the
invariant says of every copy that it could take the place of the stored workspace in one step
of the ledger (`Follows`); for a batch, that the targets it has not come to are as they were
(`Untouched`), and that the draft of an item under validation could be saved as well
(`DraftFollows`).  While a handler waits only the clock moves the stored workspace without
ending it, and it moves the copies too, which the lemmas named `Aged...` show to keep all
this.  `SaveGood` then gets the refinement for nothing: the save is the step that `Follows`
speaks of.  `OneOpenInWorkspace` follows from `OneOpenHolds`, which is proved of the ledger
alone.

Only model-checked: the liveness properties, which are out of the prover's reach
(`EndedLeaseIsNoticed`, `KnownRevocationIsTakenUp`, `VerifiableJobSettles`,
`StoredTransactionIsReconciled`, `EveryJobSettles`, `ConversionEnds`,
`RevocationReachesWallet`).  Every safety property that a passing run checks is also a
theorem.  Proved without a run are the types of `AutomaticIssuance` and `PolicyTranslation`
(`IssuanceTypes`, `TranslationTypes`), the invariants that a refinement which is run implies
(`OneOpenProgramJob`, `ProgramConfirmedHolds`, `LedgerStandsOnChain`, `ChainInOrder`,
`AnsweredWereAsked`, `AnswersRemain`, `OneOpenInWorkspace`), and `UnsourcedRevocationStays`,
`OneConsentedJob`, `Halving` and `ProgramRecoveryJoins`.

## 6. Not modelled

Everything marked so in `PROJECT.json`, with the reason there: the interface, the guides,
analytics and deployment, which are most of the code; the adapters to third-party services and
to the Midnight SDK; identity, sessions and administration of single users; the pool of
prepared demo workspaces; the one-use tokens and locks of the worker service; the preparation
of a program application; requests for access and the review of a manual issuance.  They hold
no state that the modelled parts read in two steps, or change one record behind the version
check that `Save` models.

Of the modelled parts:
cryptography (a signature that verifies is the record it signs), wording and layout, the
limits on events and receipts per job, the lower capacity reported after slow jobs, the
order in which discovery lists work, how a transaction is proved and balanced before it is
sent, failures of the web server's own database, the stages of an automatic issuance that
are only displayed, and several owners (the limits per owner are those of
one owner; nothing else couples owners but the queue).
