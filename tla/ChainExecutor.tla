----------------------------- MODULE ChainExecutor -----------------------------
(***************************************************************************)
(* The executor of one chain job (contracts/sdk/run-issued-job.ts and its  *)
(* twin run-program-job.ts).  It keeps a journal in the job's private      *)
(* directory and writes it ahead of everything it sends, so that a process *)
(* started after an interruption can tell what may have reached the chain. *)
(* One process works on a job at a time (the service holds lockWorker and  *)
(* runs one child; deploy/nhn stops the whole control group with it).      *)
(*                                                                         *)
(* `memory` is the running process's copy of the journal, `file` the one   *)
(* on disk.  The server appears as far as the executor meets it: the claim, *)
(* the lease its commands need, and what the source command asks; ProofJobs *)
(* and ProgramProofJobs model it in full.                                  *)
(***************************************************************************)
EXTENDS StepLedger

CONSTANT MaxInterruptions  \* bound on crashes, failed calls and lost leases

ASSUME InterruptionsAssumption == MaxInterruptions \in Nat

VARIABLES
  family,         \* "issued" or "program": which of the two scripts runs
  file,           \* private-journal.json
  memory,         \* the process's copy of it
  vault,          \* the private storage holds the attestation key (IssuerVault)
  secret,         \* and the administrator's private state for the contract
  phase,          \* how far the process has come; "off" when there is none
  kind,           \* what the claim returned
  joined,         \* the administrator's client is connected to the contract
  server,         \* the job's row
  revoked,        \* the issuer has revoked the credential
  interruptions

storage     == <<vault, secret>>
processVars == <<memory, phase, kind, joined>>
vars == <<family, file, storage, processVars, server, revoked, interruptions, ledgerVars>>

Journal == [pending     : SUBSET Step,
            sentTx      : BOOLEAN,      \* sentTxId is set
            completed   : SUBSET Step,
            abandoned   : SUBSET Step,
            contract    : BOOLEAN,      \* contractAddress is set
            issuerReady : BOOLEAN]

EmptyJournal == [pending |-> {}, sentTx |-> FALSE, completed |-> {},
                 abandoned |-> {}, contract |-> FALSE, issuerReady |-> FALSE]

Phase == {"off", "claimed", "ready", "bound", "working", "keyed", "called",
          "cleared", "sent", "stored", "filed", "finalised"}

Server == [status     : {"queued", "running", "needs_attention", "blocked",
                         "awaiting_verification"},
           revocation : BOOLEAN,   \* revocation is 'pending'
           bound      : BOOLEAN,   \* target is set
           sourced    : BOOLEAN,   \* chainBinding is set
           lease      : {"none", "held", "lapsed"}]

\* Types.  A journal has one uncertain step at most, and an id only for that step.
ExecutorTypeOK ==
  /\ family \in {"issued", "program"}
  /\ \A journal \in {file, memory} :
       /\ journal \in Journal
       /\ \A s, t \in journal.pending : s = t
       /\ journal.sentTx => journal.pending # {}
  /\ vault \in BOOLEAN /\ secret \in BOOLEAN
  /\ phase \in Phase
  /\ kind \in {"none", "proof", "revoke"}
  /\ joined \in BOOLEAN
  /\ server \in Server
  /\ revoked \in BOOLEAN
  /\ interruptions \in 0..MaxInterruptions
  /\ sends \in [Step -> Nat]
  /\ final \in SUBSET Step

InitExecutor ==
  /\ family \in {"issued", "program"}
  /\ file = EmptyJournal /\ memory = EmptyJournal
  /\ vault = FALSE /\ secret = FALSE
  /\ phase = "off" /\ kind = "none" /\ joined = FALSE
  /\ server = [status |-> "queued", revocation |-> FALSE, bound |-> FALSE,
               sourced |-> FALSE, lease |-> "none"]
  /\ revoked = FALSE
  /\ interruptions = 0
  /\ InitLedger

-----------------------------------------------------------------------------
(***************************************************************************)
(* Parts of the steps.                                                     *)
(***************************************************************************)

\* persist(): the temporary file is renamed over the journal, so a crash leaves
\* the old journal or the new one.
Persist(journal) == memory' = journal /\ file' = journal

Goes(from, to) == phase = from /\ phase' = to

\* Every command wants the lease (requireLease), the source command this too.
Leased == server.lease = "held"

Fresh == server.status = "running" /\ ~server.revocation /\ ~revoked

Undisturbed == UNCHANGED <<family, revoked, interruptions>>

Exits ==
  /\ phase' = "off" /\ kind' = "none" /\ joined' = FALSE
  /\ memory' = file

-----------------------------------------------------------------------------
(***************************************************************************)
(* One run of the script.                                                  *)
(***************************************************************************)

\* The journal is read, then the job is claimed.
Start ==
  /\ phase = "off" /\ server.lease = "none"
  /\ \/ /\ server.revocation /\ server.status \in {"queued", "blocked"}
        /\ kind' = "revoke"
        /\ server' = [server EXCEPT !.status = "blocked", !.lease = "held"]
     \/ /\ ~server.revocation /\ server.status = "queued" /\ ~revoked
        /\ kind' = "proof"
        /\ server' = [server EXCEPT !.status = "running", !.lease = "held"]
  /\ phase' = "claimed"
  /\ memory' = file
  /\ UNCHANGED <<file, storage, joined, ledgerVars>> /\ Undisturbed

\* Mutant of Abandon: a step whose transaction is known is kept.
AbandonUnsent ==
  /\ phase = "claimed" /\ kind = "revoke"
  /\ memory.pending \notin {{}, {Revoke}} /\ ~memory.sentTx
  /\ Persist([memory EXCEPT !.pending = {}, !.abandoned = @ \cup memory.pending])
  /\ UNCHANGED <<storage, phase, kind, joined, server, ledgerVars>> /\ Undisturbed

\* An interrupted proof step is never resumed once the issuer has revoked.
Abandon ==
  /\ phase = "claimed" /\ kind = "revoke"
  /\ memory.pending \notin {{}, {Revoke}}
  /\ Persist([memory EXCEPT !.pending = {}, !.sentTx = FALSE,
                            !.abandoned = @ \cup memory.pending])
  /\ UNCHANGED <<storage, phase, kind, joined, server, ledgerVars>> /\ Undisturbed

\* Mutant of RecoversFrom: a stored id is taken for a finalised transaction.
RecoversUnseen(journal) == journal.sentTx

\* watchForTxData returns the transaction once the chain has finalised it.
RecoversFrom(journal) == journal.sentTx /\ journal.pending \subseteq final

Recover ==
  /\ phase = "claimed"
  /\ memory.pending # {}
  /\ kind = "revoke" => memory.pending = {Revoke}
  /\ RecoversFrom(memory)
  /\ Persist([memory EXCEPT !.completed = @ \cup memory.pending,
                            !.pending = {}, !.sentTx = FALSE])
  /\ UNCHANGED <<storage, phase, kind, joined, server, ledgerVars>> /\ Undisturbed

\* run-program-job.ts only: a recovered deployment names the contract.
AdoptsContract ==
  family = "program" /\ Deploy \in memory.completed /\ ~memory.contract

Adopt ==
  /\ phase = "claimed" /\ memory.pending = {}
  /\ AdoptsContract
  /\ Persist([memory EXCEPT !.contract = TRUE])
  /\ UNCHANGED <<storage, phase, kind, joined, server, ledgerVars>> /\ Undisturbed

\* Mutant of Prepare: an unfinished step does not stop the run.
PrepareRegardless ==
  /\ Goes("claimed", "ready")
  /\ Leased
  /\ joined' = memory.contract
  /\ memory' = [memory EXCEPT !.pending = {}]
  /\ UNCHANGED <<file, storage, kind, server, ledgerVars>> /\ Undisturbed

\* Mutant of Prepare: the client joins with whatever its private storage holds.
PrepareWithoutSecret ==
  /\ Goes("claimed", "ready")
  /\ memory.pending = {} /\ ~AdoptsContract
  /\ Leased
  /\ joined' = memory.contract
  /\ UNCHANGED <<memory, file, storage, kind, server, ledgerVars>> /\ Undisturbed

\* The wallet starts, and the client joins a contract the journal names; join wants
\* the private state the client had when it deployed.
Prepare ==
  /\ Goes("claimed", "ready")
  /\ memory.pending = {} /\ ~AdoptsContract
  /\ Leased
  /\ memory.contract => secret
  /\ joined' = memory.contract
  /\ UNCHANGED <<memory, file, storage, kind, server, ledgerVars>> /\ Undisturbed

\* A deployment that is in the journal is not repeated: execute returns its
\* receipt, and the client that would have deployed stays unconnected.
FindDeployment ==
  /\ phase = "ready" /\ Leased
  /\ ~memory.contract /\ ~server.bound
  /\ Deploy \in memory.completed
  /\ Persist([memory EXCEPT !.contract = TRUE])
  /\ UNCHANGED <<storage, phase, kind, joined, server, ledgerVars>> /\ Undisturbed

Bind ==
  /\ Goes("ready", "bound")
  /\ memory.contract /\ Leased
  /\ server' = [server EXCEPT !.bound = TRUE]
  /\ UNCHANGED <<memory, file, storage, kind, joined, ledgerVars>> /\ Undisturbed

\* Mutant of Source: the lease alone is asked for.
SourceOnLease ==
  /\ Goes("bound", "working")
  /\ kind = "proof" /\ Leased
  /\ server' = [server EXCEPT !.sourced = TRUE]
  /\ UNCHANGED <<memory, file, storage, kind, joined, ledgerVars>> /\ Undisturbed

Source ==
  /\ Goes("bound", "working")
  /\ kind = "proof" /\ Leased /\ Fresh
  /\ server' = [server EXCEPT !.sourced = TRUE]
  /\ UNCHANGED <<memory, file, storage, kind, joined, ledgerVars>> /\ Undisturbed

\* issuer.create refuses a key it already has, and the journal says so later.
CreateKey ==
  /\ Goes("working", "keyed")
  /\ ~memory.issuerReady /\ ~vault
  /\ vault' = TRUE
  /\ UNCHANGED <<memory, file, secret, kind, joined, server, ledgerVars>> /\ Undisturbed

NoteKey ==
  /\ Goes("keyed", "working")
  /\ Persist([memory EXCEPT !.issuerReady = TRUE])
  /\ UNCHANGED <<storage, kind, joined, server, ledgerVars>> /\ Undisturbed

-----------------------------------------------------------------------------
(***************************************************************************)
(* execute(label, call): the journal says what is about to be sent before  *)
(* it is, and what its transaction is once it is.                          *)
(***************************************************************************)

MayExecute(s) ==
  \/ s = Revoke /\ kind = "revoke" /\ phase = "bound" /\ Revoke \notin final
  \/ s = Deploy /\ phase = "ready" /\ ~memory.contract /\ ~server.bound
  \/ /\ s \in ProofStep \ {Deploy}
     /\ kind = "proof" /\ phase = "working" /\ memory.issuerReady
     /\ 1..(s - 1) \subseteq memory.completed

\* Mutant of BeginStep: the journal is written with the transaction's id only.
BeginUnwritten(s) ==
  /\ MayExecute(s)
  /\ s \notin memory.completed /\ memory.pending = {}
  /\ phase' = "called"
  /\ memory' = [memory EXCEPT !.pending = {s}, !.sentTx = FALSE]
  /\ UNCHANGED <<file, storage, kind, joined, server, ledgerVars>> /\ Undisturbed

BeginStep(s) ==
  /\ MayExecute(s)
  /\ s \notin memory.completed /\ memory.pending = {}
  /\ phase' = "called"
  /\ Persist([memory EXCEPT !.pending = {s}, !.sentTx = FALSE])
  /\ UNCHANGED <<storage, kind, joined, server, ledgerVars>> /\ Undisturbed

\* submitTx asks the server again before the transaction leaves; a client that
\* is connected to no contract does not get that far.
ClearStep(s) ==
  /\ Goes("called", "cleared")
  /\ memory.pending = {s}
  /\ s = Deploy \/ joined
  /\ Leased
  /\ s \in ProofStep \ {Deploy} => Fresh
  /\ UNCHANGED <<memory, file, storage, kind, joined, server, ledgerVars>> /\ Undisturbed

SendStep(s) ==
  /\ Goes("cleared", "sent")
  /\ memory.pending = {s}
  /\ sends' = [sends EXCEPT ![s] = @ + 1]
  /\ memory' = [memory EXCEPT !.sentTx = TRUE]
  /\ UNCHANGED <<file, storage, kind, joined, server, final>> /\ Undisturbed

StoreId ==
  /\ Goes("sent", "stored")
  /\ file' = memory
  /\ UNCHANGED <<memory, storage, kind, joined, server, ledgerVars>> /\ Undisturbed

ReportSent ==
  /\ Goes("stored", "filed")
  /\ Leased
  /\ UNCHANGED <<memory, file, storage, kind, joined, server, ledgerVars>> /\ Undisturbed

\* External: the library makes the administrator's private state last once the
\* deployment is final, before deploy returns.
StoreSecret ==
  /\ phase = "filed" /\ memory.pending = {Deploy} /\ Deploy \in final
  /\ ~secret /\ secret' = TRUE
  /\ UNCHANGED <<vault, file, processVars, server, ledgerVars>> /\ Undisturbed

\* Mutant of CompleteStep: the transaction's id stays behind in the journal.
CompleteKeepingId(s) ==
  /\ Goes("filed", "finalised")
  /\ memory.pending = {s} /\ s \in final
  /\ s = Deploy => secret
  /\ Persist([memory EXCEPT !.completed = @ \cup {s}, !.pending = {}])
  /\ UNCHANGED <<storage, kind, joined, server, ledgerVars>> /\ Undisturbed

\* The SDK waits until the chain has finalised the transaction.
CompleteStep(s) ==
  /\ Goes("filed", "finalised")
  /\ memory.pending = {s} /\ s \in final
  /\ s = Deploy => secret
  /\ Persist([memory EXCEPT !.completed = @ \cup {s}, !.pending = {}, !.sentTx = FALSE])
  /\ UNCHANGED <<storage, kind, joined, server, ledgerVars>> /\ Undisturbed

\* The receipt is filed; a new contract's address goes into the journal only now.
FileReceipt ==
  /\ phase = "finalised" /\ Leased
  /\ IF ~memory.contract
     THEN /\ phase' = "ready" /\ joined' = TRUE
          /\ Persist([memory EXCEPT !.contract = TRUE])
     ELSE /\ phase' = IF kind = "proof" THEN "working" ELSE "bound"
          /\ UNCHANGED <<joined, memory, file>>
  /\ UNCHANGED <<storage, kind, server, ledgerVars>> /\ Undisturbed

\* Mutant of Finish: the last look at the source is left out.
FinishUnsourced ==
  /\ Leased /\ server.sourced
  /\ \/ phase = "working" /\ ProofStep \subseteq memory.completed
     \/ /\ phase = "bound" /\ kind = "revoke"
        /\ Revoke \in memory.completed /\ server.revocation
  /\ server' = [server EXCEPT !.status = "awaiting_verification", !.lease = "none"]
  /\ Exits
  /\ UNCHANGED <<file, storage, ledgerVars>> /\ Undisturbed

\* The submitted command, and the end of the run.
Finish ==
  /\ Leased /\ server.sourced
  /\ \/ phase = "working" /\ ProofStep \subseteq memory.completed /\ Fresh
     \/ /\ phase = "bound" /\ kind = "revoke"
        /\ Revoke \in memory.completed /\ server.revocation
  /\ server' = [server EXCEPT !.status = "awaiting_verification", !.lease = "none"]
  /\ Exits
  /\ UNCHANGED <<file, storage, ledgerVars>> /\ Undisturbed

-----------------------------------------------------------------------------
(***************************************************************************)
(* Exceptions and crashes end the process; the failed command reaches the  *)
(* server if the lease runs and the process still can send it.             *)
(***************************************************************************)

\* A heartbeat that finds the job blocked sets leaseFailed, which execute and
\* submitTx look at.
Inactive == server.status # "running" /\ ~server.revocation

\* Where the script throws whatever the weather.
Throws ==
  \/ /\ phase \in {"ready", "bound", "called", "stored", "finalised"}
     /\ ~Leased
  \/ phase = "claimed" /\ memory.pending = {} /\ ~Leased
  \/ phase = "claimed" /\ memory.pending = {} /\ memory.contract /\ ~secret
  \/ /\ phase = "claimed" /\ memory.pending # {} /\ ~memory.sentTx
     /\ kind = "revoke" => memory.pending = {Revoke}
  \/ phase \in {"ready", "called"} /\ Inactive
  \/ phase = "ready" /\ ~memory.contract /\ server.bound
  \/ phase \in {"bound", "working"} /\ kind = "proof" /\ ~(Leased /\ Fresh)
  \/ /\ phase = "bound" /\ kind = "revoke" /\ Revoke \in final
     /\ ~(Revoke \in memory.completed /\ server.revocation /\ server.sourced)
  \/ phase = "working" /\ ~memory.issuerReady /\ vault
  \/ phase = "called" /\ memory.pending # {Deploy} /\ ~joined
  \/ phase = "called" /\ memory.pending \notin {{Deploy}, {Revoke}} /\ ~Fresh

Fails ==
  /\ \/ server' = server
     \/ /\ Leased
        /\ server' = [server EXCEPT !.status = "needs_attention", !.lease = "none"]
  /\ Exits
  /\ UNCHANGED <<family, file, storage, revoked, ledgerVars>>

Throw == phase # "off" /\ Throws /\ Fails /\ UNCHANGED interruptions

Interrupt ==
  /\ phase # "off"
  /\ interruptions < MaxInterruptions
  /\ interruptions' = interruptions + 1
  /\ Fails

-----------------------------------------------------------------------------
(***************************************************************************)
(* The server, the issuer and the chain.                                   *)
(***************************************************************************)

\* Heartbeats keep the lease of a running process, unless they are interrupted.
LeaseEnds ==
  /\ Leased
  /\ \/ phase = "off" /\ UNCHANGED interruptions
     \/ /\ phase # "off" /\ interruptions < MaxInterruptions
        /\ interruptions' = interruptions + 1
  /\ server' = [server EXCEPT !.lease = "lapsed"]
  /\ UNCHANGED <<family, file, storage, processVars, revoked, ledgerVars>>

\* Any reading of the job notices a lapsed lease; a claim starts with one.
Refresh ==
  /\ server.lease = "lapsed"
  /\ \/ server.status = "running"
     \/ server.status = "blocked" /\ server.revocation
  /\ server' = [server EXCEPT !.status = "needs_attention"]
  /\ UNCHANGED <<file, storage, processVars, ledgerVars>> /\ Undisturbed

Resume ==
  /\ server.status = "needs_attention"
  /\ server.revocation \/ ~revoked
  /\ server' = [server EXCEPT !.status = "queued", !.lease = "none"]
  /\ UNCHANGED <<file, storage, processVars, ledgerVars>> /\ Undisturbed

IssuerRevokes ==
  /\ family = "issued" /\ ~revoked
  /\ revoked' = TRUE
  /\ UNCHANGED <<family, file, storage, processVars, server, interruptions, ledgerVars>>

NoteRevocation ==
  /\ revoked /\ ~server.revocation
  /\ server.bound \/ server.status # "blocked"
  /\ server' = [server EXCEPT !.revocation = server.bound, !.status = "blocked"]
  /\ UNCHANGED <<file, storage, processVars, ledgerVars>> /\ Undisturbed

Finalise(s) ==
  /\ FinaliseStep(s)
  /\ UNCHANGED <<file, storage, processVars, server>> /\ Undisturbed

-----------------------------------------------------------------------------
Execute(s) ==
  BeginStep(s) \/ ClearStep(s) \/ SendStep(s) \/ CompleteStep(s)

Run ==
  \/ Abandon \/ Recover \/ Adopt \/ Prepare \/ FindDeployment \/ Bind \/ Source
  \/ CreateKey \/ NoteKey \/ StoreId \/ ReportSent \/ StoreSecret \/ FileReceipt \/ Finish
  \/ \E s \in Step : Execute(s)

World == LeaseEnds \/ Refresh \/ Resume \/ IssuerRevokes \/ NoteRevocation
           \/ \E s \in Step : Finalise(s)

Next == Start \/ Run \/ Throw \/ Interrupt \/ World

Spec == InitExecutor /\ [][Next]_vars

\* The loop starts the script while the job is claimable, a process that is not
\* interrupted goes on or throws, leases end, the chain finalises what it got,
\* and the administrator resumes an interrupted job after looking at it.
FairSpec ==
  /\ Spec
  /\ WF_vars(Start) /\ WF_vars(Run \/ Throw)
  /\ WF_vars(phase = "off" /\ LeaseEnds) /\ WF_vars(Refresh)
  /\ WF_vars(Resume) /\ WF_vars(NoteRevocation)
  /\ \A s \in Step : WF_vars(Finalise(s))

-----------------------------------------------------------------------------
(***************************************************************************)
(* Properties.                                                             *)
(***************************************************************************)

\* Through every crash, lost lease and restart, the executor keeps the promise of
\* StepLedger: no step is sent twice, none before its predecessors are final, no
\* proof step after the revocation (execute, and the recovery that precedes it).
EveryStepOnce == LedgerSpec

\* Everything that may have reached the chain is in the journal on disk, as a
\* completed, an abandoned or the pending step.
NothingSentIsForgotten ==
  \A s \in Step :
    sends[s] > 0 => s \in file.completed \cup file.abandoned \cup file.pending

\* A receipt in the journal is of a transaction that the chain finalised.
ReceiptsAreFinal == file.completed \subseteq final

\* What the executor submits to the verifier is on the chain: the whole proof, or
\* the revocation when that is what the job has come to.
SubmittedIsFinal ==
  server.status = "awaiting_verification" =>
    IF server.revocation THEN Revoke \in final ELSE ProofStep \subseteq final

-----------------------------------------------------------------------------
(***************************************************************************)
(* The row and the chain as the web server's ledger of jobs knows them:    *)
(* what ProofJobs and ProgramProofJobs assume of an executor, and what the *)
(* executor assumes of them.  Job 1 is about subject 1.                    *)
(***************************************************************************)

ServerStage ==
  CASE server.revocation                                              -> "revoking"
    [] ~server.revocation /\ server.status \in {"queued", "running"}   -> server.status
    [] ~server.revocation /\ server.status = "needs_attention"         -> "interrupted"
    [] ~server.revocation /\ server.status = "awaiting_verification"   -> "submitted"
    [] ~server.revocation /\ server.status = "blocked"                 -> "closed"

Known(holds) == IF holds THEN {1} ELSE {}

ServerLedger == INSTANCE JobLedger WITH
  Job <- {1}, Subject <- {1}, Nobody <- 0,
  stage <- [j \in {1} |-> ServerStage],
  subject <- [j \in {1} |-> 1],
  sourced <- Known(server.sourced),
  disowned <- Known(revoked),
  proved <- Known(SubmitSteps \subseteq final),
  withdrawn <- Known(Revoke \in final)

\* Whatever the executor asks of the row, and whatever the chain finalises for it,
\* is a step that the server's ledger of jobs allows: the proof is on the contract
\* only of a job whose source is recorded, the revocation only of one that is being
\* revoked, and neither the process nor its death moves the row another way.
MeetsJobLedger == [][ServerLedger!NextLedger]_(ServerLedger!ledgerVars)

-----------------------------------------------------------------------------
(***************************************************************************)
(* Two crashes nothing recovers from.                                      *)
(***************************************************************************)

\* The attestation key was created and the journal does not say so: every later
\* run stops at IssuerVault.create.
KeyIsUnknown == vault /\ ~file.issuerReady /\ phase # "keyed"

\* The deployment became final for a process that was gone by then, and with it the
\* administrator's secret.
SecretIsLost ==
  /\ ~secret /\ Deploy \in final
  /\ ~(phase \in {"sent", "stored", "filed"} /\ memory.pending = {Deploy})

\* From there no run, no resume and no revocation leads on; but nothing is sent on
\* the strength of what was lost: no step of the proof, and with the secret lost no
\* step at all.
StrandedJobSendsNothing ==
  [][/\ KeyIsUnknown => KeyIsUnknown' /\ \A s \in ProofStep : sends'[s] = sends[s]
     /\ SecretIsLost => SecretIsLost' /\ sends' = sends]_vars

\* docs/issued-midnight-integration.md, "failure and recovery": a run interrupted
\* after a transaction was sent is looked up by its stored id and continued.  Here
\* only the look-up: the transaction is filed, or given up for the revocation.
StoredTransactionIsReconciled ==
  \A s \in Step :
    file.pending = {s} /\ file.sentTx /\ s \in final
      ~> \/ s \in file.completed \cup file.abandoned
         \/ revoked /\ ~server.bound

\* And here the whole of it: the administrator resumes, and the job goes on until
\* it waits for the verifier, unless the credential is revoked.  (Nobody promises it
\* of a job whose private storage lacks the administrator's state.)
InterruptedJobGoesOn ==
  phase = "off" /\ file.sentTx /\ secret
    ~> (server.status = "awaiting_verification" \/ revoked)
=============================================================================
