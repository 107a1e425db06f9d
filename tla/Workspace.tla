----------------------------- MODULE Workspace -----------------------------
(***************************************************************************)
(* The workspace of one company with one credential of the separate        *)
(* issuer, as app/api/platform/route.ts, lib/application-flow.ts,          *)
(* lib/application-batch.ts and app/api/issuance/route.ts change it.       *)
(*                                                                         *)
(* A handler reads the whole workspace with its version, waits (for the    *)
(* issuer, the policy engine, signatures) and writes the whole workspace   *)
(* back if the version is still the same.  A handler whose version is no   *)
(* longer the workspace's can only fail, so it ends when another one saves.*)
(*                                                                         *)
(* Data abstracted: the preview a company consents to is whether the       *)
(* verdict is automatic (a change of anything else in it makes an item     *)
(* fail, and every item may fail); conditions are met or not, by policy;   *)
(* deadlines are what the clock has made of a request's status.            *)
(***************************************************************************)
EXTENDS Naturals, Sequences

CONSTANTS
  Policy,
  Eligible,   \* the policies whose conditions the credential meets
  Request,    \* identifiers of requests, each for one policy
  PolicyOf,
  Key, Item,  \* what companies submit: a target, a key of their client, a preview
  Configured, Archived, Invited,  \* the policies whose institutions configure
              \* the automatic verification, end the policy, or ask for requests
  Company, Reviewer,  \* handlers of app/api/platform, by the role that calls them
  Page,       \* the handler of app/api/issuance
  NoRequest

ASSUME WorkspaceAssumption ==
  /\ Eligible \subseteq Policy
  /\ PolicyOf \in [Request -> Policy]
  /\ Item \subseteq [policy : Policy, key : Key, preview : BOOLEAN]
  /\ Configured \subseteq Policy
  /\ Archived \subseteq Policy
  /\ Invited \subseteq Policy
  /\ Page \notin Company \cup Reviewer
  /\ NoRequest \notin Request

Handler == Company \cup Reviewer \cup {Page}

VARIABLES
  ws,     \* the stored workspace
  calls,  \* the handlers, and what each of them read
  issuer  \* whether the issuer's register says the credential is active

vars == <<ws, calls, issuer>>

\* A request's status and the clock: "pending" in time or "overdue"; "submitted" in
\* time, "stale" after the presentation's fifteen minutes, "late" after the request's
\* day; "verified" within that day, "past" after it; "closed" if cancelled or expired.
Status == {"absent", "pending", "overdue", "submitted", "stale", "late",
           "verified", "past", "rejected", "closed"}

\* applicationSubmissions
Receipt == [item : Item, request : Request]

State == [status : [Request -> Status],
          archived : SUBSET Policy,
          auto : SUBSET Policy,
          active : BOOLEAN,          \* the credential's status in the wallet
          filed : SUBSET Request,    \* targets of the audit's application-submit
          receipts : SUBSET Receipt]

New == [status |-> [r \in Request |-> "absent"],
        archived |-> {}, auto |-> Policy, active |-> TRUE, filed |-> {}, receipts |-> {}]

\* state is what the handler would save, draft the copy an item works on.
Call == [kind : {"none", "batch", "present", "verify", "sync"},
         state : State, draft : State, items : Seq(Item),
         step : {"inspect", "file", "validate"}, request : Request \cup {NoRequest},
         ok : BOOLEAN]

Idle == [kind |-> "none", state |-> New, draft |-> New, items |-> <<>>,
         step |-> "inspect", request |-> NoRequest, ok |-> FALSE]

\* Types.
WorkspaceTypeOK ==
  /\ ws \in State
  /\ calls \in [Handler -> Call]
  /\ issuer \in BOOLEAN

Init ==
  /\ ws = New
  /\ calls = [h \in Handler |-> Idle]
  /\ issuer = TRUE

-----------------------------------------------------------------------------
(***************************************************************************)
(* store.ts                                                                *)
(***************************************************************************)

\* A handler goes on with what it read.
Turn(h, call) ==
  /\ calls' = [calls EXCEPT ![h] = call]
  /\ UNCHANGED <<ws, issuer>>

Read(h, call) == calls[h].kind = "none" /\ Turn(h, call)

\* Mutant of Save: the version is not compared.
SaveAnyway(h, state) ==
  /\ ws' = state
  /\ calls' = [calls EXCEPT ![h] = Idle]
  /\ UNCHANGED issuer

\* UPDATE ... WHERE version=?: whoever read before fails.
Save(h, state) ==
  /\ ws' = state
  /\ calls' = [g \in Handler |-> Idle]
  /\ UNCHANGED issuer

\* Nothing is waited for between reading and saving, so no handler is seen at it.
SaveNow(state) == Save(Page, state)

\* A handler answers with an error or without a change, or its process ends.
Drop(h) == calls[h].kind # "none" /\ Turn(h, Idle)

-----------------------------------------------------------------------------
(***************************************************************************)
(* application-flow.ts: one item of a batch.                               *)
(***************************************************************************)

Having(s, p, statuses) == {r \in Request : PolicyOf[r] = p /\ s.status[r] \in statuses}

\* existing: it waits for its institution or was verified, and is in time.
Standing(s, p) == Having(s, p, {"submitted", "verified"})

\* expired: applicationStatus says so of a pending or submitted request.
Lapsed(s, p) == Having(s, p, {"overdue", "stale", "late"})

\* The pending request that is taken up (the hash of an active policy is the one it
\* was asked with, since only ending a policy changes it), or a new one.
Reusable(s, p) == Having(s, p, {"pending"})
Unused(s, p) == Having(s, p, {"absent"})

\* crypto.randomUUID: identifiers are alike, so any unused one will do.
Fresh(s, p) == IF Unused(s, p) = {} THEN {} ELSE {CHOOSE r \in Unused(s, p) : TRUE}

Chosen(s, p) ==
  IF Lapsed(s, p) = {} /\ Reusable(s, p) # {} THEN Reusable(s, p) ELSE Fresh(s, p)

\* What is due of the lapsed attempts, the request and its presentation.
Presented(s, p, r) ==
  [s EXCEPT !.status = [q \in Request |->
                          IF q = r THEN "submitted"
                          ELSE IF q \in Lapsed(s, p) THEN "closed"
                          ELSE s.status[q]],
            !.filed = @ \cup {r}]

Receive(s, i, r) == [s EXCEPT !.receipts = @ \cup {[item |-> i, request |-> r]}]

\* Mutant of Verdict: the evaluation's name is taken for the status.
VerdictEligible(r) == IF PolicyOf[r] \in Eligible THEN "eligible" ELSE "rejected"

Verdict(r) == IF PolicyOf[r] \in Eligible THEN "verified" ELSE "rejected"

\* inspectCredential: the register answers, and the wallet agrees.
Valid(s) == issuer /\ s.active

\* The receipts of an earlier submission with the key; every submission is by the
\* company of the workspace, so the actor it is also looked up by is the same.
Earlier(s, i) == {t \in s.receipts : t.item.key = i.key}

Working(h, step) ==
  /\ calls[h].kind = "batch"
  /\ calls[h].items # <<>>
  /\ calls[h].step = step

\* The batch goes on to its next item, with kept as what it would save.
Done(c, kept, ok) ==
  [c EXCEPT !.state = kept, !.draft = kept, !.items = Tail(@), !.step = "inspect",
            !.request = NoRequest, !.ok = ok]

Accept(h, draft) == Turn(h, Done(calls[h], draft, TRUE))

\* The same submission again: the receipt it had.
Replay(h) ==
  /\ Working(h, "inspect")
  /\ \E t \in Earlier(calls[h].state, Head(calls[h].items)) : t.item = Head(calls[h].items)
  /\ Accept(h, calls[h].state)

\* Mutant of Ready: the preview is not compared with what the company saw.
ReadyUnseen(s, i) ==
  /\ Earlier(s, i) = {}
  /\ i.policy \notin s.archived
  /\ Valid(s)

\* Mutant of Ready: a key is not looked up.
ReadyAgain(s, i) ==
  /\ i.policy \notin s.archived
  /\ Valid(s)
  /\ i.preview = (i.policy \in s.auto)

\* prepareApplication finds the credential, and the preview is the one consented to.
Ready(s, i) ==
  /\ Earlier(s, i) = {}
  /\ i.policy \notin s.archived
  /\ Valid(s)
  /\ i.preview = (i.policy \in s.auto)

Inspect(h) ==
  /\ Working(h, "inspect")
  /\ Ready(calls[h].state, Head(calls[h].items))
  /\ Turn(h, [calls[h] EXCEPT !.step = "file"])

File(h) ==
  LET s == calls[h].state
      i == Head(calls[h].items)
  IN  /\ Working(h, "file")
      /\ Standing(s, i.policy) = {}
      /\ \E r \in Chosen(s, i.policy) :
           LET draft == Presented(s, i.policy, r)
           IN  IF i.preview
                 THEN Turn(h, [calls[h] EXCEPT !.draft = draft, !.request = r,
                                               !.step = "validate"])
                 ELSE Accept(h, Receive(draft, i, r))

\* validateAutomaticResult: everything is inspected again.
Validate(h) ==
  LET s == calls[h].draft
      r == calls[h].request
  IN  /\ Working(h, "validate")
      /\ Valid(s)
      /\ s.status[r] = "submitted"
      /\ Accept(h, Receive([s EXCEPT !.status[r] = Verdict(r)], Head(calls[h].items), r))

\* Mutant of FailItem: the item worked on the batch's own copy.
FailItemKept(h) ==
  /\ calls[h].kind = "batch"
  /\ calls[h].items # <<>>
  /\ Turn(h, Done(calls[h], calls[h].draft, calls[h].ok))

\* An item throws, wherever it is: its copy is forgotten, the batch goes on.
FailItem(h) ==
  /\ calls[h].kind = "batch"
  /\ calls[h].items # <<>>
  /\ Turn(h, Done(calls[h], calls[h].state, calls[h].ok))

-----------------------------------------------------------------------------
(***************************************************************************)
(* app/api/platform/route.ts                                               *)
(***************************************************************************)

\* batchApplicationInput: targets and keys are distinct.
Batches ==
  {<<i>> : i \in Item}
    \cup {b \in {<<i, j>> : i, j \in Item} : b[1].policy # b[2].policy /\ b[1].key # b[2].key}

\* submit-application and submit-applications, of up to two targets here.
SubmitApplications(h) ==
  \E items \in Batches :
    Read(h, [Idle EXCEPT !.kind = "batch", !.state = ws, !.draft = ws, !.items = items])

SaveApplications(h) ==
  /\ calls[h].kind = "batch"
  /\ calls[h].items = <<>>
  /\ calls[h].ok
  /\ Save(h, calls[h].state)

BeginPresent(h) ==
  \E r \in Request :
    /\ ws.status[r] = "pending"
    /\ Read(h, [Idle EXCEPT !.kind = "present", !.state = ws, !.request = r])

Present(h) ==
  LET c == calls[h]
  IN  /\ c.kind = "present"
      /\ Valid(c.state)
      /\ Save(h, [c.state EXCEPT !.status[c.request] =
                                 IF @ = "overdue" THEN "late" ELSE "submitted"])

BeginVerify(h) ==
  \E r \in Request :
    /\ ws.status[r] = "submitted"
    /\ Read(h, [Idle EXCEPT !.kind = "verify", !.state = ws, !.request = r])

VerifyPresentation(h) ==
  LET c == calls[h]
  IN  /\ c.kind = "verify"
      /\ Valid(c.state)
      /\ Save(h, [c.state EXCEPT !.status[c.request] =
                                 IF @ = "late" /\ Verdict(c.request) = "verified"
                                   THEN "past" ELSE Verdict(c.request)])

CreateRequest(p) ==
  /\ p \notin ws.archived
  /\ \E r \in Fresh(ws, p) : SaveNow([ws EXCEPT !.status[r] = "pending"])

CancelRequest(r) ==
  /\ ws.status[r] \in {"pending", "overdue", "submitted", "stale", "late"}
  /\ SaveNow([ws EXCEPT !.status[r] = "closed"])

ConfigureAutomaticVerification(p) ==
  \E enabled \in BOOLEAN :
    SaveNow([ws EXCEPT !.auto = IF enabled THEN @ \cup {p} ELSE @ \ {p}])

ArchivePolicy(p) == SaveNow([ws EXCEPT !.archived = @ \cup {p}])

-----------------------------------------------------------------------------
(***************************************************************************)
(* app/api/issuance/route.ts: the page and the relay of a revocation.      *)
(***************************************************************************)

\* The command reaches the issuer; everything after it may fail.
Revoke ==
  /\ issuer
  /\ issuer' = FALSE
  /\ UNCHANGED <<ws, calls>>

\* GET, or the relay once the issuer and the chain jobs are told.
ReadPage == Read(Page, [Idle EXCEPT !.kind = "sync", !.state = ws])

\* Mutant of SyncStatus: the status is shown and not kept.
SyncShownOnly ==
  /\ calls[Page].kind = "sync"
  /\ ~issuer
  /\ Save(Page, calls[Page].state)

\* The register's answer is written.
SyncStatus ==
  /\ calls[Page].kind = "sync"
  /\ ~issuer
  /\ Save(Page, [calls[Page].state EXCEPT !.active = FALSE])

-----------------------------------------------------------------------------
(***************************************************************************)
(* The clock: it passes for the workspace and for every copy of it.        *)
(***************************************************************************)

\* What a status becomes when its presentation's, or its request's, time is over.
Over(status, end) ==
  CASE end = "presentation" /\ status = "submitted" -> "stale"
    [] end = "request" /\ status = "pending" -> "overdue"
    [] end = "request" /\ status \in {"submitted", "stale"} -> "late"
    [] end = "request" /\ status = "verified" -> "past"
    [] OTHER -> status

Aged(s, r, end) == [s EXCEPT !.status[r] = Over(@, end)]

TimePasses(r, end) ==
  /\ ws' = Aged(ws, r, end)
  /\ calls' = [h \in Handler |-> [calls[h] EXCEPT !.state = Aged(@, r, end),
                                                  !.draft = Aged(@, r, end)]]
  /\ UNCHANGED issuer

-----------------------------------------------------------------------------
Next ==
  \/ \E h \in Company :
       \/ SubmitApplications(h) \/ Replay(h) \/ Inspect(h) \/ File(h) \/ Validate(h)
       \/ FailItem(h) \/ SaveApplications(h) \/ BeginPresent(h) \/ Present(h)
  \/ \E h \in Reviewer : BeginVerify(h) \/ VerifyPresentation(h)
  \/ \E h \in Handler : Drop(h)
  \/ \E r \in Request :
       \/ CancelRequest(r)
       \/ \E end \in {"presentation", "request"} : TimePasses(r, end)
  \/ \E p \in Configured : ConfigureAutomaticVerification(p)
  \/ \E p \in Archived : ArchivePolicy(p)
  \/ \E p \in Invited : CreateRequest(p)
  \/ Revoke \/ ReadPage \/ SyncStatus

Spec == Init /\ [][Next]_vars

\* The page is opened again and again, and not every status it is answered is
\* overtaken by another save.
FairSpec == Spec /\ WF_vars(ReadPage) /\ SF_vars(SyncStatus)

-----------------------------------------------------------------------------
\* A batch of which items failed keeps nothing of them: a request is filed if and
\* only if its company holds the receipt.
EverySubmissionHasReceipt ==
  ws.filed = {t.request : t \in ws.receipts}

\* However often a submission is repeated, with the same key or while the first
\* one is under way, it is one application, and an application is of one submission.
OneReceiptPerKey ==
  \A t, u \in ws.receipts :
    t.item.key = u.item.key \/ t.request = u.request => t = u

\* The verdict is automatic exactly if the company saw so before it consented, and
\* only while the institution, in the very workspace it joins, wants it so.
FiledAsShown ==
  [][\A t \in ws'.receipts \ ws.receipts :
       /\ t.item.preview <=> t.item.policy \in ws.auto
       /\ t.item.preview <=> ws'.status[t.request] \in {"verified", "past", "rejected"}
       /\ t.item.policy \notin ws.archived]_vars

\* The workspace is a ledger of applications: see ApplicationLedger.
Stage(status) ==
  CASE status = "absent" -> "none"
    [] status \in {"pending", "overdue"} -> "asked"
    [] status = "submitted" -> "lodged"
    [] status \in {"stale", "late"} -> "outdated"
    [] status \in {"verified", "past", "rejected"} -> status
    [] OTHER -> "closed"

Ledger == INSTANCE ApplicationLedger WITH
  entry <- [r \in Request |-> Stage(ws.status[r])],
  filed <- ws.filed,
  usable <- ws.active

\* Applications go forward only, one is open per policy, and none is presented or
\* judged on a credential known to be revoked.
KeepsApplicationLedger == Ledger!LedgerSpec

\* A revocation reaches the wallet, whatever failed right after it.
RevocationReachesWallet == ~issuer ~> ~ws.active
=============================================================================
