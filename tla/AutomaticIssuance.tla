--------------------------- MODULE AutomaticIssuance ---------------------------
(***************************************************************************)
(* One visitor's automatic issuances (lib/demo-issuance-jobs.ts): a row    *)
(* for each, processed by whichever handler takes its lease - the POST     *)
(* that started or resumed it, or the recovery worker of any server - in   *)
(* calls to the issuer that may be lost before or after they take effect.  *)
(* The credential is received into the visitor's workspace, which other    *)
(* handlers read and write (lib/demo-issuance.ts, lib/store.ts).           *)
(*                                                                         *)
(* The row's revision appears as a mark: a handler is `current` while the  *)
(* row is as it last read or saved it, and so is `walletCurrent` for the   *)
(* version of the workspace.  Claim, Resume, Block and Catch read the row, *)
(* and save it where they had read it; one that meets a newer revision     *)
(* does nothing, and is left out.                                          *)
(***************************************************************************)
EXTENDS IssuerRequests

CONSTANTS
  Handler,
  MaxAttempts,  \* 6 in the code
  ImportTries   \* 4 in the code

ASSUME IssuanceAssumption == MaxAttempts \in Nat \ {0} /\ ImportTries \in Nat \ {0}

VARIABLES
  rows,      \* [Job -> its row in demo_issuance_jobs]
  expired,   \* the jobs whose ten minutes of consent are over
  handlers,  \* [Handler -> the processing it is at]
  wallet,    \* [Id -> the credential in the workspace, "none" until received]
  page       \* a request of the issuance page that asks the issuer for the wallet

vars == <<issuerVars, rows, expired, handlers, wallet, page>>

Open == {"pending", "running", "retry"}

Row == [status   : {"absent", "complete", "blocked", "needs_attention"} \cup Open,
        attempts : 0..MaxAttempts,
        waiting  : BOOLEAN,           \* nextAttemptAt is ahead
        lease    : SUBSET Handler,    \* who took the last lease
        leased   : BOOLEAN,           \* leaseUntil is ahead
        identity : Id \cup {NoId},
        request  : Id \cup {NoId}]

Wallet == [Id -> {"none", "active", "revoked"}]

\* The calls, and between them what follows an answer.
Call  == {"identity", "consent", "submit", "fetch", "approve", "import", "check"}
Phase == Call \cup {"idle", "identified", "consented", "submitted", "fetched",
                    "received", "finish", "failed", "refused"}

\* `id` is what j.identityId and j.requestId are about; `approved` what the request
\* looked like when it was fetched.
Processing == [phase : Phase, job : Job \cup {NoJob}, id : Id \cup {NoId},
               current : BOOLEAN, approved : BOOLEAN,
               wallet : Wallet, walletCurrent : BOOLEAN, tries : 0..ImportTries]

NoWallet == [i \in Id |-> "none"]

Idle == [phase |-> "idle", job |-> NoJob, id |-> NoId, current |-> FALSE, approved |-> FALSE,
         wallet |-> NoWallet, walletCurrent |-> FALSE, tries |-> 0]

Page == [asks : {"nothing", "status", "original"}, wallet : Wallet, current : BOOLEAN]
NoPage == [asks |-> "nothing", wallet |-> NoWallet, current |-> FALSE]

\* Types.
IssuanceTypeOK ==
  /\ sessions \in [Id -> Session]
  /\ requests \in [Id -> Request]
  /\ credentials \in [Id -> {"none", "active", "revoked"}]
  /\ commands \in [Key -> Id \cup {NoId}]
  /\ rows \in [Job -> Row]
  /\ expired \subseteq Job
  /\ handlers \in [Handler -> Processing]
  /\ wallet \in Wallet
  /\ page \in Page

Init ==
  /\ InitIssuer
  /\ rows = [j \in Job |-> [status |-> "absent", attempts |-> 0, waiting |-> FALSE, lease |-> {},
                            leased |-> FALSE, identity |-> NoId, request |-> NoId]]
  /\ expired = {}
  /\ handlers = [p \in Handler |-> Idle]
  /\ wallet = NoWallet
  /\ page = NoPage

-----------------------------------------------------------------------------
(***************************************************************************)
(* Writes of the row and of the workspace.                                 *)
(***************************************************************************)

\* UPDATE ... WHERE revision=?: who had read the row before is current no more.
Write(j, row, p, processing) ==
  /\ rows' = [rows EXCEPT ![j] = row]
  /\ handlers' = [q \in Handler |->
       IF q = p THEN processing
       ELSE IF handlers[q].job = j THEN [handlers[q] EXCEPT !.current = FALSE]
       ELSE handlers[q]]

Goes(p, phase) == handlers' = [handlers EXCEPT ![p].phase = phase]

\* The processing throws: it has "failed" and may be tried again, or is "refused".
Throws(p, how) ==
  handlers' = [handlers EXCEPT ![p] = [Idle EXCEPT !.phase = how, !.job = handlers[p].job]]

\* save(j) in the course of a processing; a conflict is a refusal (status 409).
Save(p, row, phase) ==
  /\ IF handlers[p].current
     THEN Write(handlers[p].job, row, p, [handlers[p] EXCEPT !.phase = phase, !.approved = FALSE])
     ELSE Throws(p, "refused") /\ UNCHANGED rows
  /\ UNCHANGED <<issuerVars, expired, wallet, page>>

\* UPDATE workspaces ... WHERE version=?.
WriteWallet(w) ==
  /\ wallet' = w
  /\ page' = [page EXCEPT !.current = FALSE]

-----------------------------------------------------------------------------
(***************************************************************************)
(* Starting, resuming and taking up a job.                                 *)
(***************************************************************************)

\* The visitor has one active job at a time.
Start(j) ==
  /\ rows[j].status = "absent"
  /\ \A k \in Job : rows[k].status \in {"absent", "complete", "blocked"}
  /\ rows' = [rows EXCEPT ![j].status = "pending"]
  /\ UNCHANGED <<issuerVars, expired, handlers, wallet, page>>

Resume(j) ==
  /\ rows[j].status \in {"retry", "needs_attention", "pending"}
  /\ j \notin expired
  /\ Write(j, [rows[j] EXCEPT !.status = "retry", !.attempts = 0, !.waiting = FALSE,
                              !.leased = FALSE], "nobody", Idle)
  /\ UNCHANGED <<issuerVars, expired, wallet, page>>

\* Mutant of Due: the recovery does not look for running jobs.
DueUnlessRunning(j) ==
  rows[j].status \in {"pending", "retry"} /\ ~rows[j].waiting /\ ~rows[j].leased

Due(j) == rows[j].status \in Open /\ ~rows[j].waiting /\ ~rows[j].leased

\* The consent's time is over: nothing more is done.
Block(j) ==
  /\ Due(j) /\ j \in expired
  /\ Write(j, [rows[j] EXCEPT !.status = "blocked"], "nobody", Idle)
  /\ UNCHANGED <<issuerVars, expired, wallet, page>>

\* Only whether the attempts have reached the limit is ever asked.
Claim(p, j) ==
  /\ handlers[p].phase = "idle"
  /\ Due(j) /\ j \notin expired
  /\ LET row == [rows[j] EXCEPT !.status = "running", !.lease = {p}, !.leased = TRUE,
                   !.attempts = IF @ < MaxAttempts THEN @ + 1 ELSE @]
         phase == IF row.identity = NoId THEN "identity"
                  ELSE IF row.request = NoId THEN "consent" ELSE "fetch"
     IN Write(j, row, p, [Idle EXCEPT !.phase = phase, !.job = j, !.current = TRUE,
                                      !.id = row.identity])
  /\ UNCHANGED <<issuerVars, expired, wallet, page>>

-----------------------------------------------------------------------------
(***************************************************************************)
(* Processing.  A call that took effect may go unanswered.                 *)
(***************************************************************************)

At(p, phase) == handlers[p].phase = phase

Returns(p, phase) == Goes(p, phase) \/ Throws(p, "failed")

CallIdentity(p) ==
  /\ At(p, "identity")
  /\ \/ /\ Full /\ ~Answered(<<"identity", handlers[p].job>>)
        /\ Throws(p, "failed") /\ UNCHANGED issuerVars
     \/ \E i \in Id :
          /\ OpenSession(handlers[p].job, i)
          /\ \/ handlers' = [handlers EXCEPT ![p].phase = "identified", ![p].id = i]
             \/ Throws(p, "failed")
  /\ UNCHANGED <<rows, expired, wallet, page>>

SaveIdentity(p) ==
  /\ At(p, "identified")
  /\ Save(p, [rows[handlers[p].job] EXCEPT !.identity = handlers[p].id], "consent")

\* A session lives ten minutes, from later than its job: it may be over when the
\* job's consent is.
Lapsed(p, key) == handlers[p].job \in expired /\ ~Answered(<<key, handlers[p].job>>)

CallConsent(p) ==
  /\ At(p, "consent")
  /\ \/ Confirm(handlers[p].job, handlers[p].id) /\ Returns(p, "consented")
     \/ Lapsed(p, "consent") /\ Throws(p, "refused") /\ UNCHANGED issuerVars
  /\ UNCHANGED <<rows, expired, wallet, page>>

SaveConsent(p) ==
  /\ At(p, "consented")
  /\ Save(p, rows[handlers[p].job], "submit")

CallSubmit(p) ==
  /\ At(p, "submit")
  /\ \/ Submit(handlers[p].job, handlers[p].id) /\ Returns(p, "submitted")
     \/ Lapsed(p, "submit") /\ Throws(p, "refused") /\ UNCHANGED issuerVars
  /\ UNCHANGED <<rows, expired, wallet, page>>

SaveRequest(p) ==
  /\ At(p, "submitted")
  /\ Save(p, [rows[handlers[p].job] EXCEPT !.request = handlers[p].id], "fetch")

\* What a person has decided or sent back is not the automation's any more.
Untouched(request) ==
  \/ request.status = "issued"
  \/ request.status = "submitted" /\ request.revision = 1

Fetch(p) ==
  /\ At(p, "fetch")
  /\ LET request == requests[handlers[p].id]
     IN IF Untouched(request) /\ handlers[p].job \notin expired
        THEN handlers' = [handlers EXCEPT ![p].phase = "fetched",
                                          ![p].approved = request.status = "issued"]
        ELSE Throws(p, "refused")
  /\ UNCHANGED <<issuerVars, rows, expired, wallet, page>>

SaveFetched(p) ==
  /\ At(p, "fetched")
  /\ Save(p, rows[handlers[p].job], IF handlers[p].approved THEN "import" ELSE "approve")

CallApprove(p) ==
  /\ At(p, "approve")
  /\ \/ Approve(handlers[p].id) /\ Returns(p, "import")
     \/ /\ ~Answered(<<"approve", handlers[p].id>>) /\ ~Approvable(handlers[p].id)
        /\ Throws(p, "refused") /\ UNCHANGED issuerVars
  /\ UNCHANGED <<rows, expired, wallet, page>>

ReadWallet(p) ==
  /\ At(p, "import")
  /\ handlers' = [handlers EXCEPT ![p].phase = "check", ![p].wallet = wallet,
                                  ![p].walletCurrent = TRUE]
  /\ UNCHANGED <<issuerVars, rows, expired, wallet, page>>

\* importRemoteCredential: the original, and its status of this moment.
CheckStatus(p) ==
  /\ At(p, "check")
  /\ IF credentials[handlers[p].id] = "active"
     THEN handlers' = [handlers EXCEPT ![p].phase = "received",
            ![p].wallet[handlers[p].id] = IF @ = "none" THEN "active" ELSE @]
     ELSE Throws(p, "refused")
  /\ UNCHANGED <<issuerVars, rows, expired, wallet, page>>

\* Mutant of Unchanged: the version is not compared.
UnchangedAnyway(current) == TRUE

\* The workspace has the version that was read.
Unchanged(current) == current

\* Mutant of AfterConflict: the receipt is taken as kept all the same.
AfterConflictDone(processing) == [processing EXCEPT !.phase = "finish"]

\* After a conflict the workspace is read again, a few times.
AfterConflict(processing) ==
  IF processing.tries + 1 < ImportTries
  THEN [processing EXCEPT !.phase = "import", !.tries = @ + 1, !.wallet = NoWallet]
  ELSE [Idle EXCEPT !.phase = "failed", !.job = processing.job]

SaveWallet(p) ==
  /\ At(p, "received")
  /\ IF Unchanged(handlers[p].walletCurrent)
     THEN /\ WriteWallet(handlers[p].wallet)
          /\ handlers' = [q \in Handler |->
               IF q = p THEN [handlers[p] EXCEPT !.phase = "finish", !.wallet = NoWallet,
                                                 !.walletCurrent = FALSE, !.tries = 0]
               ELSE [handlers[q] EXCEPT !.walletCurrent = FALSE]]
     ELSE /\ handlers' = [handlers EXCEPT ![p] = AfterConflict(handlers[p])]
          /\ UNCHANGED <<wallet, page>>
  /\ UNCHANGED <<issuerVars, rows, expired>>

Complete(p) ==
  /\ At(p, "finish")
  /\ IF handlers[p].current
     THEN Write(handlers[p].job,
                [rows[handlers[p].job] EXCEPT !.status = "complete", !.leased = FALSE], p, Idle)
     ELSE Throws(p, "refused") /\ UNCHANGED rows
  /\ UNCHANGED <<issuerVars, expired, wallet, page>>

\* A call that did not reach the issuer.
Unreachable(p) ==
  /\ handlers[p].phase \in Call \ {"import"}
  /\ Throws(p, "failed")
  /\ UNCHANGED <<issuerVars, rows, expired, wallet, page>>

\* The row is read again; one that another handler has leased since is left alone.
Catch(p) ==
  /\ handlers[p].phase \in {"failed", "refused"}
  /\ LET j == handlers[p].job
         row == rows[j]
         status == IF At(p, "refused") THEN "blocked"
                   ELSE IF row.attempts < MaxAttempts THEN "retry" ELSE "needs_attention"
     IN IF row.lease = {p}
        THEN Write(j, [row EXCEPT !.status = status, !.leased = FALSE, !.waiting = TRUE], p, Idle)
        ELSE handlers' = [handlers EXCEPT ![p] = Idle] /\ UNCHANGED rows
  /\ UNCHANGED <<issuerVars, expired, wallet, page>>

\* The server is stopped, or killed, with the handler in it.
Crash(p) ==
  /\ handlers[p].phase # "idle"
  /\ handlers' = [handlers EXCEPT ![p] = Idle]
  /\ UNCHANGED <<issuerVars, rows, expired, wallet, page>>

-----------------------------------------------------------------------------
(***************************************************************************)
(* Time, the visitor, and the other handlers of the workspace.             *)
(***************************************************************************)

Rest == UNCHANGED <<issuerVars, handlers, wallet, page>>

LeaseEnds(j) ==
  /\ rows[j].leased
  /\ rows' = [rows EXCEPT ![j].leased = FALSE]
  /\ UNCHANGED expired /\ Rest

WaitEnds(j) ==
  /\ rows[j].waiting
  /\ rows' = [rows EXCEPT ![j].waiting = FALSE]
  /\ UNCHANGED expired /\ Rest

ConsentEnds(j) ==
  /\ rows[j].status # "absent" /\ j \notin expired
  /\ expired' = expired \cup {j}
  /\ UNCHANGED rows /\ Rest

Visit ==
  /\ \E i \in Id : Review(i) \/ Resubmit(i) \/ Cancel(i) \/ Revoke(i)
  /\ UNCHANGED <<rows, expired, handlers, wallet, page>>

\* A page with nothing to ask about saves nothing.
ReadPage ==
  /\ page.asks = "nothing" /\ \E i \in Id : wallet[i] = "active"
  /\ page' = [asks |-> "status", wallet |-> wallet, current |-> TRUE]
  /\ UNCHANGED <<issuerVars, rows, expired, handlers, wallet>>

\* The page asks for the status of each credential, and saves what it learns; the
\* answers it does not get change nothing.  POST 'revoke' ends the same way, for the
\* credential it has revoked.
SavePage ==
  /\ page.asks = "status"
  /\ \E learnt \in SUBSET {i \in Id : page.wallet[i] = "active" /\ credentials[i] = "revoked"} :
       IF learnt # {} /\ Unchanged(page.current)
       THEN /\ wallet' = [i \in Id |-> IF i \in learnt THEN "revoked" ELSE page.wallet[i]]
            /\ handlers' = [q \in Handler |-> [handlers[q] EXCEPT !.walletCurrent = FALSE]]
       ELSE UNCHANGED <<wallet, handlers>>
  /\ page' = NoPage
  /\ UNCHANGED <<issuerVars, rows, expired>>

\* POST 'receive' reads the workspace, and the issuer gives it an original that is
\* active: a save between the two would end it as one after them does.  If the wallet
\* has the credential, it is saved as it was (OtherSave).
ReadReceipt ==
  /\ page.asks = "nothing"
  /\ \E i \in Id :
       /\ wallet[i] = "none" /\ credentials[i] = "active"
       /\ page' = [asks |-> "original", wallet |-> [wallet EXCEPT ![i] = "active"],
                   current |-> TRUE]
  /\ UNCHANGED <<issuerVars, rows, expired, handlers, wallet>>

\* It saves once; a conflict is an error the visitor sees.
SaveReceipt ==
  /\ page.asks = "original"
  /\ \/ /\ Unchanged(page.current)
        /\ wallet' = page.wallet
        /\ handlers' = [q \in Handler |-> [handlers[q] EXCEPT !.walletCurrent = FALSE]]
     \/ UNCHANGED <<wallet, handlers>>
  /\ page' = NoPage
  /\ UNCHANGED <<issuerVars, rows, expired>>

\* Any other handler of the workspace saves it; it leaves the wallet as it read it.
OtherSave ==
  /\ handlers' = [q \in Handler |-> [handlers[q] EXCEPT !.walletCurrent = FALSE]]
  /\ page' = [page EXCEPT !.current = FALSE]
  /\ UNCHANGED <<issuerVars, rows, expired, wallet>>

-----------------------------------------------------------------------------
Process(p) ==
  \/ CallIdentity(p) \/ SaveIdentity(p) \/ CallConsent(p) \/ SaveConsent(p)
  \/ CallSubmit(p) \/ SaveRequest(p) \/ Fetch(p) \/ SaveFetched(p) \/ CallApprove(p)
  \/ ReadWallet(p) \/ CheckStatus(p) \/ SaveWallet(p) \/ Complete(p) \/ Catch(p)

Next ==
  \/ \E p \in Handler : Process(p) \/ Unreachable(p) \/ Crash(p)
  \/ \E p \in Handler, j \in Job : Claim(p, j)
  \/ \E j \in Job : Start(j) \/ Resume(j) \/ Block(j)
  \/ \E j \in Job : LeaseEnds(j) \/ WaitEnds(j) \/ ConsentEnds(j)
  \/ Visit \/ ReadPage \/ SavePage \/ ReadReceipt \/ SaveReceipt \/ OtherSave

Spec == Init /\ [][Next]_vars

\* The recovery worker of a server looks every 15 seconds for jobs that are due, a
\* handler that is not stopped goes on (its calls time out), and time passes.
FairSpec ==
  /\ Spec
  /\ \A p \in Handler : WF_vars(Process(p))
  /\ \A j \in Job : WF_vars(Block(j) \/ \E p \in Handler : Claim(p, j))
  /\ \A j \in Job : WF_vars(LeaseEnds(j)) /\ WF_vars(WaitEnds(j)) /\ WF_vars(ConsentEnds(j))

-----------------------------------------------------------------------------
(***************************************************************************)
(* Properties.                                                             *)
(***************************************************************************)

\* However often a job is tried, by whomever at the same time, with whatever answers
\* lost, the issuer opens one session for it, and so has one request and one
\* credential (the stable keys of processDemoIssuanceJob, command of the issuer).
OneSessionPerConsent ==
  \A i, k \in Id :
    sessions[i].job # NoJob /\ sessions[i].job = sessions[k].job => i = k

\* What a person decided, sent back or resubmitted while the automation was at work
\* is never approved by the automation (the revision that goes with its decision).
ReviewIsNotOverruled ==
  \A i \in Id : requests[i].approver = "automation" => requests[i].revision = 2

\* A job is complete when its credential is in the visitor's wallet, issued.
CompletedIsReceived ==
  \A j \in Job :
    rows[j].status = "complete" =>
      \E i \in Id : /\ sessions[i].job = j /\ requests[i].status = "issued"
                    /\ wallet[i] # "none"

\* No two handlers of the workspace undo each other: what was received stays, and
\* what was seen revoked stays revoked (saveState).
ReceivedStays ==
  [][\A i \in Id : /\ wallet[i] # "none" => wallet'[i] # "none"
                   /\ wallet[i] = "revoked" => wallet'[i] = "revoked"]_vars

\* Every job comes to an end or to a person, through crashes and lost answers, in
\* whatever number (recoverDemoIssuanceJobs, the limits of attempts and of consent).
EveryJobSettles ==
  \A j \in Job : rows[j].status \in Open ~> rows[j].status \notin Open
=============================================================================
