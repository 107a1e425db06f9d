-------------------------- MODULE ProgramProofJobs --------------------------
(***************************************************************************)
(* The server's side of a program job (lib/program-proof-jobs.ts): one     *)
(* synthetic application to an institution or buyer, proved on the chain.  *)
(* It is built like an issued-credential job and shares the queue with it, *)
(* and differs where the code does: there is no revocation, every worker   *)
(* command refreshes the row first and needs it running, a heartbeat       *)
(* checks the application again, and verification does not need the        *)
(* consent to be running still.                                            *)
(***************************************************************************)
EXTENDS ProofQueue

CONSTANTS
  Application,       \* applications recorded in the workspace
  ProgramWorker,     \* executor incarnations
  ProgramTarget,     \* (contract address, holder) pairs
  ProgramMode,       \* subset of {"manual", "automatic"}
  ProgramOwnerLimit  \* the INSERT's limit of rows per owner (12 in the code)

NoProgramValue == "none"

ASSUME ProgramJobsAssumption ==
  /\ NoProgramValue \notin ProgramWorker
  /\ NoProgramValue \notin ProgramTarget
  /\ NoProgramValue \notin Application
  /\ ProgramMode \subseteq {"manual", "automatic"}
  /\ ProgramOwnerLimit \in Nat

VARIABLES
  materialsStale,  \* applications whose signed originals no longer match
  programChain,    \* the jobs whose two transactions their contract finalised
  programCalls     \* handlers between their check and their write

programVars == <<materialsStale, programChain, programCalls>>

ProgramRow == [status       : Status,
               application  : Application \cup {NoProgramValue},
               approved     : BOOLEAN,
               target       : ProgramTarget \cup {NoProgramValue},
               chainBinding : BOOLEAN,
               receipts     : BOOLEAN,  \* createRequest and submit are filed
               lease        : ProgramWorker \cup {NoProgramValue},
               leasePhase   : LeasePhase]

AbsentProgram == [status |-> "absent", application |-> NoProgramValue,
                  approved |-> FALSE, target |-> NoProgramValue,
                  chainBinding |-> FALSE, receipts |-> FALSE,
                  lease |-> NoProgramValue, leasePhase |-> "none"]

ProgramCall == [op   : {"request", "approve", "resume", "claim", "heartbeat",
                        "source", "submitted", "complete"},
                job  : ProgramJob,
                by   : ProgramWorker \cup {NoProgramValue},
                seen : ProgramRow]

-----------------------------------------------------------------------------
\* Mutant of SaveProgram: the UPDATE without AND revision=?.
SaveProgramWithoutRevision(p, row) ==
  /\ programJobs' = [programJobs EXCEPT ![p] = row]
  /\ UNCHANGED <<programCalls, materialsStale, programChain, jobs, expired>>

SaveProgram(p, row) ==
  /\ programJobs' = [programJobs EXCEPT ![p] = row]
  /\ programCalls' = {c \in programCalls : c.job # p}
  /\ UNCHANGED <<materialsStale, programChain, jobs, expired>>

BeginProgram(op, p, w, row) ==
  /\ programCalls' = programCalls \cup {[op |-> op, job |-> p, by |-> w, seen |-> row]}
  /\ UNCHANGED <<programJobs, materialsStale, programChain, jobs, expired>>

\* current(j, true): the application's originals are those that were approved.
\* current(j) wants the consent running as well.
ProgramUnchanged(application) == application \notin materialsStale
ProgramCurrent(p, application) == ProgramUnchanged(application) /\ p \notin expired

OpenProgramJobs(application) ==
  {p \in ProgramJob : /\ programJobs[p].status \notin Closed \cup {"absent"}
                      /\ programJobs[p].application = application}

ProgramRows == {p \in ProgramJob : programJobs[p].status # "absent"}

-----------------------------------------------------------------------------
BeginProgramRequest(p, application) ==
  /\ programJobs[p].status = "absent"
  /\ OpenProgramJobs(application) = {}
  /\ Admits
  /\ ProgramCurrent(p, application)
  /\ BeginProgram("request", p, NoProgramValue,
                  [programJobs[p] EXCEPT !.application = application])

\* Mutant of ProgramInserts: the capacity is looked at before the INSERT only.
ProgramInsertsUnbounded(c) ==
  /\ Cardinality(ProgramRows) < ProgramOwnerLimit
  /\ OpenProgramJobs(c.seen.application) = {}

ProgramInserts(c) ==
  /\ Cardinality(ProgramRows) < ProgramOwnerLimit
  /\ Admits
  /\ OpenProgramJobs(c.seen.application) = {}

RequestProgramJob(c, mode) ==
  /\ c.op = "request"
  /\ ProgramInserts(c)
  /\ SaveProgram(c.job, [c.seen EXCEPT
                          !.status = IF mode = "automatic" THEN "queued"
                                                           ELSE "awaiting_approval",
                          !.approved = (mode = "automatic")])

\* controlProgramJob reads, checks and writes for approve and resume alike; only
\* a resume carries the admission predicate.
BeginControl(p, action) ==
  /\ \/ action = "approve" /\ programJobs[p].status = "awaiting_approval"
     \/ /\ action = "resume" /\ programJobs[p].status = "needs_attention"
        /\ programJobs[p].approved
  /\ ProgramCurrent(p, programJobs[p].application)
  /\ BeginProgram(action, p, NoProgramValue, programJobs[p])

ControlProgramJob(c) ==
  /\ c.op \in {"approve", "resume"}
  /\ c.op = "resume" => Admits
  /\ SaveProgram(c.job, [c.seen EXCEPT !.status = "queued", !.approved = TRUE,
                                      !.leasePhase = "none"])

CancelProgramJob(p) ==
  /\ programJobs[p].status \in Waiting
  /\ SaveProgram(p, [programJobs[p] EXCEPT !.status = "cancelled"])

ProgramConsentEnded(p) == programJobs[p].status \in Waiting /\ p \in expired
ProgramLeaseEnded(p) ==
  programJobs[p].status = "running" /\ programJobs[p].leasePhase = "past"

RefreshProgramJob(p) ==
  \/ /\ ProgramConsentEnded(p)
     /\ SaveProgram(p, [programJobs[p] EXCEPT !.status = "blocked"])
  \/ /\ ProgramLeaseEnded(p)
     /\ SaveProgram(p, [programJobs[p] EXCEPT !.status = "needs_attention"])

-----------------------------------------------------------------------------
\* programWorkerCommand refreshes the row before it looks at the command.
BeginProgramClaim(w, p) ==
  /\ ~ProgramConsentEnded(p)
  /\ programJobs[p].status = "queued"
  /\ programJobs[p].approved
  /\ ProgramCurrent(p, programJobs[p].application)
  /\ BeginProgram("claim", p, w, programJobs[p])

ClaimProgramJob(c) ==
  /\ c.op = "claim"
  /\ SaveProgram(c.job, [c.seen EXCEPT !.status = "running", !.lease = c.by,
                                      !.leasePhase = "live"])

\* Unlike an issued-credential job, the lease is spent at the instant it ends.
HoldsProgramLease(w, p) ==
  /\ programJobs[p].status = "running"
  /\ programJobs[p].lease = w
  /\ programJobs[p].leasePhase = "live"

BeginProgramHeartbeat(w, p) ==
  /\ HoldsProgramLease(w, p)
  /\ ProgramCurrent(p, programJobs[p].application)
  /\ BeginProgram("heartbeat", p, w, programJobs[p])

ProgramHeartbeat(c) ==
  /\ c.op = "heartbeat"
  /\ SaveProgram(c.job, [c.seen EXCEPT !.leasePhase = "live"])

BindProgram(w, p, target) ==
  /\ HoldsProgramLease(w, p)
  /\ programJobs[p].target \in {NoProgramValue, target}
  /\ SaveProgram(p, [programJobs[p] EXCEPT !.target = target])

BeginProgramSource(w, p) ==
  /\ HoldsProgramLease(w, p)
  /\ programJobs[p].target # NoProgramValue
  /\ ~programJobs[p].chainBinding
  /\ ProgramCurrent(p, programJobs[p].application)
  /\ BeginProgram("source", p, w, programJobs[p])

ProgramSource(c) ==
  /\ c.op = "source"
  /\ SaveProgram(c.job, [c.seen EXCEPT !.chainBinding = TRUE])

ProgramReceipt(w, p) ==
  /\ HoldsProgramLease(w, p)
  /\ SaveProgram(p, [programJobs[p] EXCEPT !.receipts = TRUE])

BeginProgramSubmitted(w, p) ==
  /\ HoldsProgramLease(w, p)
  /\ ProgramCurrent(p, programJobs[p].application)
  /\ programJobs[p].chainBinding /\ programJobs[p].receipts
  /\ BeginProgram("submitted", p, w, programJobs[p])

ProgramSubmitted(c) ==
  /\ c.op = "submitted"
  /\ SaveProgram(c.job, [c.seen EXCEPT !.status = "awaiting_verification",
                                      !.leasePhase = "none"])

ProgramFailed(w, p) ==
  /\ HoldsProgramLease(w, p)
  /\ SaveProgram(p, [programJobs[p] EXCEPT !.status = "needs_attention",
                                          !.leasePhase = "none"])

\* Mutant of BeginProgramComplete: the filed receipts are believed.
BeginProgramCompleteOnReceipts(p) ==
  /\ programJobs[p].status = "awaiting_verification"
  /\ programJobs[p].chainBinding
  /\ ProgramUnchanged(programJobs[p].application)
  /\ BeginProgram("complete", p, NoProgramValue, programJobs[p])

\* contracts/sdk/verify-program-job.ts signs only what the contract shows; the
\* server then wants the application unchanged, whether or not the consent runs.
BeginProgramComplete(p) ==
  /\ programJobs[p].status = "awaiting_verification"
  /\ programJobs[p].chainBinding
  /\ p \in programChain
  /\ ProgramUnchanged(programJobs[p].application)
  /\ BeginProgram("complete", p, NoProgramValue, programJobs[p])

CompleteProgramVerification(c) ==
  /\ c.op = "complete"
  /\ SaveProgram(c.job, [c.seen EXCEPT !.status = "confirmed"])

-----------------------------------------------------------------------------
ProgramExecutorSubmits(p) ==
  /\ programJobs[p].chainBinding
  /\ p \notin programChain
  /\ programChain' = programChain \cup {p}
  /\ UNCHANGED <<programJobs, programCalls, materialsStale, jobs, expired>>

MaterialsGoStale(application) ==
  /\ application \notin materialsStale
  /\ materialsStale' = materialsStale \cup {application}
  /\ UNCHANGED <<programJobs, programCalls, programChain, jobs, expired>>

ProgramConsentEnds(p) ==
  /\ programJobs[p].status # "absent"
  /\ p \notin expired
  /\ expired' = expired \cup {p}
  /\ UNCHANGED <<programJobs, programVars, jobs>>

ProgramLeasePasses(p, phase) ==
  /\ programJobs' = [programJobs EXCEPT ![p].leasePhase = phase]
  /\ programCalls' = {IF c.job = p THEN [c EXCEPT !.seen.leasePhase = phase] ELSE c :
                        c \in programCalls}
  /\ UNCHANGED <<materialsStale, programChain, jobs, expired>>

ProgramLeaseRunsOut(p) ==
  \/ programJobs[p].leasePhase = "live" /\ ProgramLeasePasses(p, "due")
  \/ programJobs[p].leasePhase = "due" /\ ProgramLeasePasses(p, "past")

-----------------------------------------------------------------------------
InitProgram ==
  /\ programJobs = [p \in ProgramJob |-> AbsentProgram]
  /\ materialsStale = {}
  /\ programChain = {}
  /\ programCalls = {}

ProgramVisit(p) ==
  \/ \E application \in Application : BeginProgramRequest(p, application)
  \/ CancelProgramJob(p)
  \/ \E action \in {"approve", "resume"} : BeginControl(p, action)

ProgramExecute(w, p) ==
  \/ BeginProgramClaim(w, p)
  \/ BeginProgramHeartbeat(w, p)
  \/ \E target \in ProgramTarget : BindProgram(w, p, target)
  \/ BeginProgramSource(w, p)
  \/ ProgramReceipt(w, p)
  \/ BeginProgramSubmitted(w, p)
  \/ ProgramFailed(w, p)

ProgramFinish(c) ==
  \/ \E mode \in ProgramMode : RequestProgramJob(c, mode)
  \/ ControlProgramJob(c)
  \/ ClaimProgramJob(c)
  \/ ProgramHeartbeat(c)
  \/ ProgramSource(c)
  \/ ProgramSubmitted(c)
  \/ CompleteProgramVerification(c)

ProgramWorld(p) ==
  \/ RefreshProgramJob(p)
  \/ BeginProgramComplete(p)
  \/ ProgramExecutorSubmits(p)
  \/ ProgramConsentEnds(p)
  \/ ProgramLeaseRunsOut(p)

NextProgram ==
  \/ \E p \in ProgramJob : ProgramVisit(p) \/ ProgramWorld(p)
  \/ \E w \in ProgramWorker, p \in ProgramJob : ProgramExecute(w, p)
  \/ \E c \in programCalls : ProgramFinish(c)
  \/ \E application \in Application : MaterialsGoStale(application)
-----------------------------------------------------------------------------
\* Every row and every call in flight has its type.
ProgramTypeOK ==
  /\ programJobs \in [ProgramJob -> ProgramRow]
  /\ materialsStale \subseteq Application
  /\ programChain \subseteq ProgramJob
  /\ programCalls \subseteq ProgramCall
=============================================================================
