-------------------------- MODULE JobOutcomeProofs --------------------------
(***************************************************************************)
(* What becomes of a job, for any number of jobs, executors and contracts: *)
(* one is open at a time, "confirmed" is true of the chain, a verification *)
(* is not disturbed, an interruption waits for a person, and the tables    *)
(* of both families implement JobLedger.                                   *)
(*                                                                         *)
(* ProofPlatformProofs shows that a write is a function of the present     *)
(* row.  Here it is shown what such a function may do (Move), and what a   *)
(* handler still knows when it writes (Snap).                              *)
(***************************************************************************)
EXTENDS ProofPlatformProofs

OpenRow(row) == row.status \notin Closed \cup {"absent"}

\* What a handler of a job knows until it writes; row is the job's, ch what its
\* contract holds and rev what the issuer revoked.
Snap(c, row, ch, rev) ==
  /\ c.op # "request" => c.seen.credential = row.credential /\ c.seen.lease = row.lease
  /\ c.op = "request" => c.seen.credential \in Credential
  /\ c.op \in {"submitted", "complete"} => c.seen.chainBinding
  /\ c.op = "claim" => c.seen.status \notin {"awaiting_verification", "needs_attention"}
  /\ c.op = "submitted" => c.seen.status \in {"running", "blocked"}
  /\ c.op = "complete" =>
       /\ c.seen.revocation = "pending" => "revokeCredential" \in ch /\ c.seen.credential \in rev
       /\ c.seen.revocation # "pending" => c.seen.chainBinding /\ "submits" \in ch

\* What a row says is so.
Outcome(row, ch, rev) ==
  /\ row.status = "confirmed" => row.chainBinding /\ "submits" \in ch
  /\ row.revocation = "confirmed" => row.chainBinding /\ "revokeCredential" \in ch
  /\ row.revocation # "none" => row.credential \in rev
  /\ row.status = "awaiting_approval" => ~row.approved
  /\ row.status \in {"awaiting_verification", "confirmed"} => row.target # None

SnapsInv == \A c \in calls : Snap(c, jobs[c.job], chain[c.job], revoked)
OutcomesInv == \A j \in Job : Outcome(jobs[j], chain[j], revoked)

OutcomeInv == SnapsInv /\ OutcomesInv /\ OneOpenJobPerCredential

\* Where a write may take a job in the ledger: from and to are stages, sourced says
\* that the contract's source is recorded, and proved and withdrawn what it holds.
Advances(from, to, sourced, proved, withdrawn, disowned) ==
  \/ from = "asked" /\ to \in {"queued", "closed"}
  \/ from = "queued" /\ to \in {"running", "closed"}
  \/ from = "running" /\ to = "interrupted"
  \/ from = "running" /\ to = "submitted" /\ sourced
  \/ from = "interrupted" /\ to = "queued"
  \/ from = "submitted" /\ to = "confirmed" /\ sourced /\ proved
  \/ from = "revoking" /\ to = "revoked" /\ sourced /\ withdrawn
  \/ from \in {"running", "interrupted"} /\ to = "closed" /\ disowned
  \/ from = "closed" /\ to = "interrupted" /\ disowned
  \/ /\ from \in {"queued", "running", "interrupted", "submitted", "confirmed", "closed"}
     /\ to = "revoking" /\ disowned

\* A write opens the job, records its source, advances it or leaves its entry as
\* it is.
KeepsEntry(from, to, old, row, ch, rev, alone) ==
  \/ /\ from = "none" /\ to \in {"asked", "queued"} /\ alone
     /\ row.credential \in Credential /\ row.chainBinding = old.chainBinding
  \/ /\ from = "running" /\ to = "running" /\ row.chainBinding
     /\ row.credential = old.credential
  \/ /\ row.credential = old.credential /\ row.chainBinding = old.chainBinding
     /\ \/ to = from
        \/ Advances(from, to, row.chainBinding, "submits" \in ch,
                    "revokeCredential" \in ch, row.credential \in rev)

\* What a write may make of a row: the last two conjuncts are
\* VerificationIsNotDisturbed and InterruptedJobWaits.
Move(old, row, ch, rev, alone) ==
  /\ Outcome(row, ch, rev)
  /\ KeepsEntry(IssuedStageOf(old), IssuedStageOf(row), old, row, ch, rev, alone)
  /\ OpenRow(row) =>
       \/ row.credential \in rev
       \/ OpenRow(old) /\ row.credential = old.credential
       \/ alone
  /\ old.status = "awaiting_verification" =>
       /\ row.lease = old.lease
       /\ row.leasePhase = "none"
       /\ old.revocation = "pending" => row.revocation = "confirmed"
  /\ old.status = "needs_attention" =>
       \/ row.status \in {"needs_attention", "queued"}
       \/ row.status = "blocked" /\ old.revocation = "none" /\ old.credential \in rev

Moves(j, row) ==
  /\ Save(j, row)
  /\ Move(jobs[j], row, chain[j], revoked, OpenJobs(row.credential) = {})

Begins(new) ==
  /\ calls' = calls \cup {new}
  /\ UNCHANGED <<jobs, chain, revoked>>
  /\ new.job \in Job
  /\ Snap(new, jobs[new.job], chain[new.job], revoked)

Elsewhere ==
  /\ UNCHANGED <<jobs, calls>>
  /\ revoked \subseteq revoked'
  /\ \A j \in Job : chain[j] \subseteq chain'[j]
  /\ \/ UNCHANGED <<revoked, chain>>
     \/ \E j \in Job : ExecutorSubmits(j) \/ ExecutorRevokes(j)
     \/ \E credential \in Credential : IssuerRevokes(credential)

\* The shapes of a step as issued-credential jobs see it.
Shape ==
  \/ \E j \in Job, row \in Row : Moves(j, row)
  \/ \E new \in Call : Begins(new)
  \/ \E j \in Job : LeaseRunsOut(j)
  \/ Elsewhere

-----------------------------------------------------------------------------
(***************************************************************************)
(* Every handler has one of these shapes.                                  *)
(***************************************************************************)

\* The stages, status by status.
LEMMA Stages ==
  /\ StageOf("absent") = "none"
  /\ StageOf("awaiting_approval") = "asked"
  /\ StageOf("queued") = "queued"
  /\ StageOf("running") = "running"
  /\ StageOf("needs_attention") = "interrupted"
  /\ StageOf("awaiting_verification") = "submitted"
  /\ StageOf("confirmed") = "confirmed"
  /\ StageOf("blocked") = "closed"
  /\ StageOf("cancelled") = "closed"
  /\ \A row : /\ row.revocation = "none" => IssuedStageOf(row) = StageOf(row.status)
              /\ row.revocation = "pending" => IssuedStageOf(row) = "revoking"
              /\ row.revocation = "confirmed" => IssuedStageOf(row) = "revoked"
BY DEF StageOf, IssuedStageOf, Closed

\* A row that keeps its status and its revocation keeps its stage.
LEMMA SameStage ==
  ASSUME NEW r \in Row, NEW s \in Row, r.status = s.status, r.revocation = s.revocation
  PROVE  IssuedStageOf(r) = IssuedStageOf(s)
BY Stages DEF Row

\* What the invariants say of one row.
LEMMA RowOf ==
  ASSUME IInv, OutcomeInv, NEW j \in Job
  PROVE  /\ jobs[j] \in Row /\ RowInv(jobs[j])
         /\ Outcome(jobs[j], chain[j], revoked)
         /\ jobs[j].status = "blocked" /\ jobs[j].leasePhase \in {"live", "due"} =>
              jobs[j].credential \in revoked
<1>1. jobs[j] \in Row /\ RowInv(jobs[j]) /\ BlockedByIssuer
  BY RowsAreTyped DEF IInv, IssuedInv
<1>2. Outcome(jobs[j], chain[j], revoked)
  BY DEF OutcomeInv, OutcomesInv
<1> QED BY <1>1, <1>2 DEF BlockedByIssuer, Outcome

\* What they say of one handler that has read its row.
LEMMA CallOf ==
  ASSUME IInv, OutcomeInv, NEW c \in calls
  PROVE  /\ c.job \in Job /\ c.seen \in Row /\ c.by \in Worker \cup {None}
         /\ RowInv(c.seen) /\ SameRecord(c.seen, jobs[c.job]) /\ Checked(c)
         /\ Snap(c, jobs[c.job], chain[c.job], revoked)
         /\ c.op # "request" => Outcome(c.seen, chain[c.job], revoked)
<1>1. /\ c.job \in Job /\ c.seen \in Row /\ c.by \in Worker \cup {None}
      /\ RowInv(c.seen) /\ SameRecord(c.seen, jobs[c.job]) /\ Checked(c)
  BY SnapshotsAreTyped
<1>2. Snap(c, jobs[c.job], chain[c.job], revoked)
  BY DEF OutcomeInv, SnapsInv
<1>3. Outcome(jobs[c.job], chain[c.job], revoked)
  BY <1>1, RowOf
<1> QED BY <1>1, <1>2, <1>3 DEF Outcome, SameRecord, Snap

\* A write that leaves alone what outcomes are about.
LEMMA PlainMove ==
  ASSUME IInv, OutcomeInv, NEW j \in Job, NEW row \in Row, Save(j, row),
         row.revocation = jobs[j].revocation, row.credential = jobs[j].credential,
         row.status \notin {"awaiting_approval", "confirmed"},
         row.status = "awaiting_verification" => row.target # None,
         KeepsEntry(IssuedStageOf(jobs[j]), IssuedStageOf(row), jobs[j], row,
                    chain[j], revoked, OpenJobs(row.credential) = {}),
         OpenRow(row) => OpenRow(jobs[j]) \/ row.credential \in revoked,
         jobs[j].status \notin {"awaiting_verification", "needs_attention"}
  PROVE  Moves(j, row)
<1>1. Outcome(jobs[j], chain[j], revoked)
  BY RowOf
<1>2. jobs[j].chainBinding => row.chainBinding
  BY DEF KeepsEntry
<1> QED BY <1>1, <1>2 DEF Moves, Move, Outcome

\* The visitor's handlers: how they read a row.
LEMMA VisitShape ==
  ASSUME IInv, OutcomeInv, NEW j \in Job, Visit(j)
  PROVE  Shape
<1> USE RowOf DEF Row, Status, Waiting, Engaged, Closed, LeasePhase
<1>1. ASSUME NEW credential \in Credential, BeginRequest(j, credential)
      PROVE  Shape
  <2> DEFINE row == [jobs[j] EXCEPT !.credential = credential]
             new == [op |-> "request", job |-> j, by |-> None, seen |-> row]
  <2>1. row \in Row
    OBVIOUS
  <2>2. new \in Call
    BY <2>1 DEF Call
  <2>3. Begins(new)
    BY <1>1 DEF Begins, BeginRequest, Begin, Awaits, Snap, Checked, worldVars
  <2> QED BY <2>2, <2>3 DEF Shape
<1>2. ASSUME CancelProofJob(j)
      PROVE  Shape
  <2> DEFINE row == [jobs[j] EXCEPT !.status = "cancelled"]
  <2>1. /\ row \in Row /\ Save(j, row) /\ row.status = "cancelled"
        /\ row.revocation = jobs[j].revocation /\ row.credential = jobs[j].credential
        /\ row.chainBinding = jobs[j].chainBinding
    BY <1>2 DEF CancelProofJob
  <2>2. jobs[j] \in Row /\ jobs[j].status \in {"awaiting_approval", "queued"}
    BY <1>2 DEF CancelProofJob
  <2> HIDE DEF row
  <2>3. KeepsEntry(IssuedStageOf(jobs[j]), IssuedStageOf(row), jobs[j], row,
                   chain[j], revoked, OpenJobs(row.credential) = {})
    BY <2>1, <2>2, Stages DEF KeepsEntry, Advances
  <2>4. Moves(j, row)
    BY <2>1, <2>2, <2>3, PlainMove DEF OpenRow
  <2> QED BY <2>1, <2>4 DEF Shape
<1> QED BY <1>1, <1>2 DEF Visit

\* A handler that goes on with the row as it is, or as it is but for the mark.
LEMMA BeginShape ==
  ASSUME IInv, OutcomeInv, NEW j \in Job,
         NEW op \in {"approve", "resume", "claim", "refuse", "source", "submitted", "complete"},
         NEW w \in Worker \cup {None}, NEW row \in {jobs[j], Unknown(jobs[j])},
         Awaits(op, j, w, row),
         op = "claim" => jobs[j].status \notin {"awaiting_verification", "needs_attention"},
         op = "submitted" => jobs[j].status \in {"running", "blocked"},
         op \in {"submitted", "complete"} => jobs[j].chainBinding,
         op = "complete" =>
           /\ jobs[j].revocation = "pending" =>
                "revokeCredential" \in chain[j] /\ jobs[j].credential \in revoked
           /\ jobs[j].revocation # "pending" => jobs[j].chainBinding /\ "submits" \in chain[j]
  PROVE  Shape
<1> DEFINE new == [op |-> op, job |-> j, by |-> w, seen |-> row]
<1>1. /\ row \in Row
      /\ row.status = jobs[j].status /\ row.revocation = jobs[j].revocation
      /\ row.credential = jobs[j].credential /\ row.lease = jobs[j].lease
      /\ row.chainBinding = jobs[j].chainBinding
  BY RowOf DEF Unknown, Row
<1>2. new \in Call
  BY <1>1 DEF Call
<1>3. Snap(new, jobs[j], chain[j], revoked)
  BY <1>1 DEF Snap
<1>4. Begins(new)
  BY <1>3 DEF Begins, Awaits, worldVars
<1> QED BY <1>2, <1>4 DEF Shape

\* The administrator's handlers: how they read a row.
LEMMA AdministerShape ==
  ASSUME IInv, OutcomeInv, NEW j \in Job, Administer(j)
  PROVE  Shape
<1>1. CASE BeginApprove(j)
  BY <1>1, BeginShape DEF BeginApprove, Begin
<1>2. CASE BeginResume(j)
  BY <1>2, BeginShape DEF BeginResume, Begin
<1>3. CASE ResumeRevocation(j)
  <2>1. /\ jobs[j] \in Row /\ Outcome(jobs[j], chain[j], revoked)
        /\ jobs[j].status = "needs_attention" /\ jobs[j].revocation # "none"
    BY <1>3, RowOf DEF ResumeRevocation
  <2>2. /\ Resumed(jobs[j]) \in Row
        /\ Resumed(jobs[j]).status = "queued"
        /\ Resumed(jobs[j]).revocation = jobs[j].revocation
        /\ Resumed(jobs[j]).credential = jobs[j].credential
        /\ Resumed(jobs[j]).chainBinding = jobs[j].chainBinding
    BY <2>1 DEF Resumed, Row, Status, Waiting, LeasePhase
  <2>5. IssuedStageOf(Resumed(jobs[j])) = IssuedStageOf(jobs[j])
    BY <2>1, <2>2, Stages DEF Row
  <2>3. Move(jobs[j], Resumed(jobs[j]), chain[j], revoked, OpenJobs(Resumed(jobs[j]).credential) = {})
    BY <2>1, <2>2, <2>5 DEF Move, Outcome, KeepsEntry
  <2>4. Moves(j, Resumed(jobs[j]))
    BY <1>3, <2>3 DEF Moves, ResumeRevocation
  <2> QED BY <2>2, <2>4 DEF Shape
<1> QED BY <1>1, <1>2, <1>3 DEF Administer

\* The executor asks for a job.
LEMMA PollShape ==
  ASSUME IInv, OutcomeInv, NEW j \in Job, Poll(j)
  PROVE  Shape
<1>1. CASE NoteCredentialRevoked(j)
  <2>1. /\ jobs[j] \in Row /\ RowInv(jobs[j]) /\ Outcome(jobs[j], chain[j], revoked)
        /\ jobs[j].credential \in revoked /\ jobs[j].revocation = "none"
    BY <1>1, RowOf DEF NoteCredentialRevoked
  <2> DEFINE row == Noted(jobs[j])
             revocation == IF jobs[j].target = None THEN "none" ELSE "pending"
             status == IF jobs[j].status = "cancelled" THEN "cancelled" ELSE "blocked"
  <2>2. row = [jobs[j] EXCEPT !.revocation = revocation, !.status = status]
    BY DEF Noted
  <2>3. revocation \in {"none", "pending"} /\ status \in Closed
          /\ (status = "cancelled" => jobs[j].status = "cancelled")
    BY DEF Closed
  <2> HIDE DEF row, revocation, status
  <2>4. /\ row \in Row
        /\ row.status = status /\ row.revocation = revocation
        /\ row.credential = jobs[j].credential
        /\ row.lease = jobs[j].lease /\ row.leasePhase = jobs[j].leasePhase
        /\ row.chainBinding = jobs[j].chainBinding
    BY <2>1, <2>2, <2>3 DEF Row, Status, Closed
  <2>5. jobs[j].status = "awaiting_verification" => jobs[j].leasePhase = "none"
    BY <2>1 DEF RowInv
  <2>8. KeepsEntry(IssuedStageOf(jobs[j]), IssuedStageOf(row), jobs[j], row,
                   chain[j], revoked, OpenJobs(row.credential) = {})
    <3>1. IssuedStageOf(jobs[j]) = StageOf(jobs[j].status)
      BY <2>1, Stages
    <3>2. CASE jobs[j].target # None
      <4>1. /\ jobs[j].status \notin {"absent", "awaiting_approval"}
            /\ revocation = "pending"
        BY <1>1, <2>1, <3>2 DEF NoteCredentialRevoked, RowInv, Outcome, revocation
      <4>2. IssuedStageOf(row) = "revoking"
        BY <2>4, <4>1, Stages
      <4>3. StageOf(jobs[j].status) \in
              {"queued", "running", "interrupted", "submitted", "confirmed", "closed"}
        BY <2>1, <4>1, Stages DEF Row, Status, Waiting, Engaged, Closed
      <4> QED BY <2>1, <2>4, <3>1, <4>2, <4>3 DEF KeepsEntry, Advances
    <3>3. CASE jobs[j].target = None
      <4>1. /\ jobs[j].status \in {"awaiting_approval", "queued", "running", "needs_attention"}
            /\ revocation = "none"
        BY <1>1, <2>1, <3>3 DEF NoteCredentialRevoked, Outcome, revocation, Row, Status,
                                Waiting, Engaged, Closed
      <4>2. IssuedStageOf(row) = "closed"
        BY <2>3, <2>4, <4>1, Stages DEF Closed
      <4>3. StageOf(jobs[j].status) \in {"asked", "queued", "running", "interrupted"}
        BY <4>1, Stages
      <4> QED BY <2>1, <2>4, <3>1, <4>2, <4>3 DEF KeepsEntry, Advances
    <3> QED BY <3>2, <3>3
  <2>6. Move(jobs[j], row, chain[j], revoked, OpenJobs(row.credential) = {})
    BY <2>1, <2>3, <2>4, <2>5, <2>8 DEF Move, Outcome, OpenRow, Closed
  <2>7. Moves(j, row)
    BY <1>1, <2>6 DEF Moves, NoteCredentialRevoked, row
  <2> QED BY <2>4, <2>7 DEF Shape
<1>2. CASE RefreshProofJob(j)
  <2>0. jobs[j] \in Row /\ RowInv(jobs[j]) /\ Outcome(jobs[j], chain[j], revoked)
    BY RowOf
  <2>1. CASE LeaseEnded(jobs[j]) /\ Save(j, [jobs[j] EXCEPT !.status = "needs_attention"])
    <3> DEFINE row == [jobs[j] EXCEPT !.status = "needs_attention"]
    <3>1. /\ row \in Row /\ row.status = "needs_attention"
          /\ row.revocation = jobs[j].revocation /\ row.credential = jobs[j].credential
          /\ row.chainBinding = jobs[j].chainBinding
      BY <2>0 DEF Row, Status
    <3>2. \/ jobs[j].status = "running" /\ jobs[j].revocation = "none"
          \/ /\ jobs[j].status = "blocked" /\ jobs[j].credential \in revoked
             /\ jobs[j].revocation = "pending"
      BY <2>0, <2>1 DEF LeaseEnded, Outcome, RowInv, Row
    <3> HIDE DEF row
    <3>3. OpenRow(row) => OpenRow(jobs[j]) \/ row.credential \in revoked
      BY <3>1, <3>2 DEF OpenRow, Closed
    <3>5. KeepsEntry(IssuedStageOf(jobs[j]), IssuedStageOf(row), jobs[j], row,
                     chain[j], revoked, OpenJobs(row.credential) = {})
      BY <3>1, <3>2, Stages DEF KeepsEntry, Advances
    <3>4. Moves(j, row)
      BY <2>1, <3>1, <3>2, <3>3, <3>5, PlainMove DEF row
    <3> QED BY <3>1, <3>4 DEF Shape
  <2>2. CASE ConsentEnded(j, jobs[j]) /\ Save(j, [jobs[j] EXCEPT !.status = "blocked"])
    <3> DEFINE row == [jobs[j] EXCEPT !.status = "blocked"]
    <3>1. /\ row \in Row /\ row.status = "blocked"
          /\ row.revocation = jobs[j].revocation /\ row.credential = jobs[j].credential
          /\ row.chainBinding = jobs[j].chainBinding
      BY <2>0 DEF Row, Status, Closed
    <3>2. jobs[j].status \in Waiting /\ jobs[j].revocation = "none"
      BY <2>2 DEF ConsentEnded
    <3> HIDE DEF row
    <3>4. KeepsEntry(IssuedStageOf(jobs[j]), IssuedStageOf(row), jobs[j], row,
                     chain[j], revoked, OpenJobs(row.credential) = {})
      BY <3>1, <3>2, Stages DEF KeepsEntry, Advances, Waiting
    <3>3. Moves(j, row)
      BY <2>2, <3>1, <3>2, <3>4, PlainMove DEF row, OpenRow, Closed, Waiting
    <3> QED BY <3>1, <3>3 DEF Shape
  <2> QED BY <1>2, <2>1, <2>2 DEF RefreshProofJob
<1>3. CASE BeginRefuse(j)
  BY <1>3, BeginShape DEF BeginRefuse
<1>4. CASE BeginComplete(j)
  <2>1. /\ jobs[j].revocation = "pending" =>
             "revokeCredential" \in chain[j] /\ jobs[j].credential \in revoked
        /\ jobs[j].revocation # "pending" => jobs[j].chainBinding /\ "submits" \in chain[j]
        /\ jobs[j].chainBinding
    BY <1>4 DEF BeginComplete, VerifierAgrees
  <2> QED BY <1>4, <2>1, BeginShape DEF BeginComplete, Begin
<1> QED BY <1>1, <1>2, <1>3, <1>4 DEF Poll

\* The commands of an executor that has the lease: how they read a row.
LEMMA ExecuteShape ==
  ASSUME IInv, OutcomeInv, NEW w \in Worker, NEW j \in Job, Execute(w, j)
  PROVE  Shape
<1>0. /\ jobs[j] \in Row /\ RowInv(jobs[j])
      /\ Outcome(jobs[j], chain[j], revoked)
      /\ jobs[j].status = "blocked" /\ jobs[j].leasePhase \in {"live", "due"} =>
           jobs[j].credential \in revoked
  BY RowOf
\* A row with a running lease is running, or blocked by the issuer.
<1>9. ASSUME RequireLease(w, j)
      PROVE  \/ jobs[j].status = "running" /\ jobs[j].revocation = "none"
             \/ /\ jobs[j].status = "blocked" /\ jobs[j].credential \in revoked
                /\ jobs[j].revocation \in {"none", "pending"}
  BY <1>0, <1>9 DEF RequireLease, RowInv, Row
<1>1. CASE BeginClaim(w, j)
  <2>1. jobs[j].status \notin {"awaiting_verification", "needs_attention"}
    BY <1>1 DEF BeginClaim, Claimable
  <2> QED BY <1>1, <2>1, BeginShape DEF BeginClaim
<1>2. ASSUME NEW row \in Row, RequireLease(w, j), Save(j, row),
             row.status \in {jobs[j].status, "needs_attention"},
             row.revocation = jobs[j].revocation, row.credential = jobs[j].credential,
             row.chainBinding = jobs[j].chainBinding
      PROVE  Shape
  <2>1. OpenRow(row) => OpenRow(jobs[j]) \/ row.credential \in revoked
    BY <1>9, <1>2 DEF OpenRow, Closed
  <2>2. jobs[j].status \notin {"awaiting_verification", "needs_attention", "confirmed"}
    BY <1>9, <1>2
  <2>4. KeepsEntry(IssuedStageOf(jobs[j]), IssuedStageOf(row), jobs[j], row,
                   chain[j], revoked, OpenJobs(row.credential) = {})
    BY <1>9, <1>2, Stages DEF KeepsEntry, Advances
  <2>3. Moves(j, row)
    BY <1>9, <1>2, <2>1, <2>2, <2>4, PlainMove
  <2> QED BY <1>2, <2>3 DEF Shape
<1>3. CASE Heartbeat(w, j)
  <2> DEFINE row == [jobs[j] EXCEPT !.leasePhase = "live"]
  <2>1. /\ row \in Row /\ row.status = jobs[j].status
        /\ row.revocation = jobs[j].revocation /\ row.credential = jobs[j].credential
        /\ row.chainBinding = jobs[j].chainBinding
    BY <1>0 DEF Row, LeasePhase
  <2> QED BY <1>2, <1>3, <2>1 DEF Heartbeat
<1>4. ASSUME NEW target \in Target, Bind(w, j, target)
      PROVE  Shape
  <2> DEFINE row == [jobs[j] EXCEPT !.target = target]
  <2>1. /\ row \in Row /\ row.status = jobs[j].status
        /\ row.revocation = jobs[j].revocation /\ row.credential = jobs[j].credential
        /\ row.chainBinding = jobs[j].chainBinding
    BY <1>0 DEF Row
  <2> QED BY <1>2, <1>4, <2>1 DEF Bind
<1>5. CASE BeginSource(w, j)
  BY <1>5, BeginShape DEF BeginSource, Begin
<1>6. ASSUME NEW op \in ChainOp, Receipt(w, j, op)
      PROVE  Shape
  <2> DEFINE row == [jobs[j] EXCEPT !.receipts = @ \cup {op}]
  <2>1. /\ row \in Row /\ row.status = jobs[j].status
        /\ row.revocation = jobs[j].revocation /\ row.credential = jobs[j].credential
        /\ row.chainBinding = jobs[j].chainBinding
    BY <1>0 DEF Row
  <2> QED BY <1>2, <1>6, <2>1 DEF Receipt
<1>7. CASE BeginSubmitted(w, j)
  <2>1. jobs[j].status \in {"running", "blocked"} /\ jobs[j].chainBinding
    BY <1>9, <1>7 DEF BeginSubmitted
  <2> QED BY <1>7, <2>1, BeginShape DEF BeginSubmitted, Begin
<1>8. CASE Failed(w, j)
  <2> DEFINE row == [jobs[j] EXCEPT !.status = "needs_attention", !.leasePhase = "none"]
  <2>1. /\ row \in Row /\ row.status = "needs_attention"
        /\ row.revocation = jobs[j].revocation /\ row.credential = jobs[j].credential
        /\ row.chainBinding = jobs[j].chainBinding
    BY <1>0 DEF Row, Status, LeasePhase
  <2> QED BY <1>2, <1>8, <2>1 DEF Failed
<1> QED BY <1>1, <1>3, <1>4, <1>5, <1>6, <1>7, <1>8 DEF Execute

\* The writes: what each does to the row it had read.
LEMMA FinishShape ==
  ASSUME IInv, OutcomeInv, NEW c \in calls, Finish(c)
  PROVE  Shape
<1> DEFINE j == c.job
           old == jobs[c.job]
<1>0. /\ j \in Job /\ c.seen \in Row /\ c.by \in Worker \cup {None}
      /\ RowInv(c.seen) /\ SameRecord(c.seen, old) /\ Checked(c)
      /\ Snap(c, old, chain[j], revoked)
      /\ Outcome(old, chain[j], revoked)
      /\ IssuedStageOf(old) = IssuedStageOf(c.seen)
      /\ c.op # "request" => /\ c.seen.credential = old.credential
                             /\ c.seen.lease = old.lease
                             /\ Outcome(c.seen, chain[j], revoked)
  BY CallOf, RowOf, SameStage DEF Snap, SameRecord
<1> HIDE DEF j, old
\* Writes that are no outcome.
<1>1. ASSUME NEW row \in Row, Save(j, row), c.op # "request",
             row.revocation = c.seen.revocation, row.credential = c.seen.credential,
             row.status \notin {"awaiting_approval", "confirmed"},
             row.status = "awaiting_verification" => row.target # None,
             KeepsEntry(IssuedStageOf(c.seen), IssuedStageOf(row), c.seen, row,
                        chain[j], revoked, FALSE),
             c.seen.status \notin {"awaiting_verification", "needs_attention"},
             OpenRow(row) => OpenRow(c.seen) \/ row.credential \in revoked
      PROVE  Shape
  <2>2. KeepsEntry(IssuedStageOf(old), IssuedStageOf(row), old, row,
                   chain[j], revoked, OpenJobs(row.credential) = {})
    BY <1>0, <1>1 DEF KeepsEntry, SameRecord
  <2>1. Moves(j, row)
    BY <1>0, <1>1, <2>2, PlainMove DEF SameRecord, OpenRow, old, j
  <2> QED BY <1>0, <1>1, <2>1 DEF Shape
<1>2. ASSUME NEW mode \in Mode, RequestProofJob(c, mode)
      PROVE  Shape
  <2> DEFINE auto == mode = "automatic"
             status == IF auto THEN "queued" ELSE "awaiting_approval"
             row == [c.seen EXCEPT !.status = status, !.approved = auto]
  <2>1. Save(j, row) /\ OpenJobs(c.seen.credential) = {} /\ c.op = "request"
    BY <1>2 DEF RequestProofJob, Inserts, j
  <2>2. auto \in BOOLEAN /\ status \in Waiting
    BY DEF Waiting
  <2> HIDE DEF auto, status
  <2>3. /\ row \in Row /\ row.status = status
        /\ row.credential = c.seen.credential /\ row.revocation = c.seen.revocation
        /\ row.chainBinding = c.seen.chainBinding
    BY <1>0, <2>2 DEF Row, Status
  <2>7. row.approved = auto /\ (status = "awaiting_approval" => ~auto)
    BY <1>0 DEF Row, status
  <2>4. c.seen.status = "absent" /\ old.status = "absent" /\ c.seen.revocation = "none"
    BY <1>0, <2>1 DEF Checked, SameRecord, RowInv
  <2> HIDE DEF row
  <2>8. IssuedStageOf(c.seen) = "none" /\ IssuedStageOf(row) \in {"asked", "queued"}
    BY <2>2, <2>3, <2>4, Stages DEF Waiting
  <2>9. row.credential \in Credential /\ row.chainBinding = old.chainBinding
    BY <1>0, <2>1, <2>3 DEF Snap, SameRecord
  <2>10. row.status = "awaiting_approval" => ~row.approved
    BY <2>3, <2>7
  <2>5. Move(old, row, chain[j], revoked, OpenJobs(row.credential) = {})
    BY <1>0, <2>1, <2>2, <2>3, <2>4, <2>8, <2>9, <2>10 DEF Move, Outcome, Waiting, KeepsEntry
  <2>6. Moves(j, row)
    BY <2>1, <2>5 DEF Moves, old, j
  <2> QED BY <1>0, <2>3, <2>6 DEF Shape
<1>3. CASE ApproveProofJob(c)
  <2> DEFINE row == [c.seen EXCEPT !.status = "queued", !.approved = TRUE]
  <2>1. /\ Save(j, row) /\ c.op = "approve" /\ c.seen.status = "awaiting_approval"
        /\ c.seen.revocation = "none"
    BY <1>0, <1>3 DEF ApproveProofJob, Checked, RowInv, Row, j
  <2>2. /\ row \in Row /\ row.status = "queued"
        /\ row.credential = c.seen.credential /\ row.revocation = c.seen.revocation
        /\ row.chainBinding = c.seen.chainBinding
    BY <1>0 DEF Row, Status, Waiting
  <2> HIDE DEF row
  <2>3. KeepsEntry(IssuedStageOf(c.seen), IssuedStageOf(row), c.seen, row,
                   chain[j], revoked, FALSE)
    BY <2>1, <2>2, Stages DEF KeepsEntry, Advances
  <2> QED BY <1>1, <2>1, <2>2, <2>3 DEF OpenRow, Closed
<1>4. CASE ResumeProofJob(c)
  <2> DEFINE row == Resumed(c.seen)
  <2>1. /\ Save(j, row) /\ c.op = "resume" /\ c.seen.status = "needs_attention"
        /\ c.seen.revocation = "none"
    BY <1>0, <1>4 DEF ResumeProofJob, Checked, j
  <2>2. /\ row \in Row /\ row.status = "queued"
        /\ row.credential = c.seen.credential /\ row.revocation = c.seen.revocation
        /\ row.chainBinding = c.seen.chainBinding
    BY <1>0 DEF Resumed, Row, Status, Waiting, LeasePhase
  <2> HIDE DEF row
  <2>5. KeepsEntry(IssuedStageOf(old), IssuedStageOf(row), old, row,
                   chain[j], revoked, OpenJobs(row.credential) = {})
    BY <1>0, <2>1, <2>2, Stages DEF KeepsEntry, Advances, SameRecord
  <2>3. Move(old, row, chain[j], revoked, OpenJobs(row.credential) = {})
    BY <1>0, <2>1, <2>2, <2>5 DEF Move, Outcome, OpenRow, Closed, SameRecord
  <2>4. Moves(j, row)
    BY <2>1, <2>3 DEF Moves, old, j
  <2> QED BY <1>0, <2>2, <2>4 DEF Shape
<1>5. CASE ClaimProofJob(c)
  <2> DEFINE status == IF Revoking(c.seen) THEN "blocked" ELSE "running"
             row == [c.seen EXCEPT !.status = status, !.lease = c.by, !.leasePhase = "live"]
  <2>1. /\ Save(j, row) /\ c.op = "claim"
        /\ c.seen.status \notin {"awaiting_verification", "needs_attention"}
    BY <1>0, <1>5 DEF ClaimProofJob, Snap, j
  <2>2. \/ status = "blocked" /\ c.seen.revocation = "pending"
        \/ status = "running" /\ c.seen.status = "queued" /\ c.seen.revocation = "none"
    BY <1>0, <2>1 DEF Checked, Revoking
  <2> HIDE DEF status
  <2>3. /\ row \in Row /\ row.status = status
        /\ row.credential = c.seen.credential /\ row.revocation = c.seen.revocation
        /\ row.chainBinding = c.seen.chainBinding
    BY <1>0, <2>2 DEF Row, Status, Engaged, Closed, LeasePhase
  <2> HIDE DEF row
  <2>4. KeepsEntry(IssuedStageOf(c.seen), IssuedStageOf(row), c.seen, row,
                   chain[j], revoked, FALSE)
    BY <2>2, <2>3, Stages DEF KeepsEntry, Advances
  <2> QED BY <1>1, <2>1, <2>2, <2>3, <2>4 DEF OpenRow, Closed
<1>6. CASE RefuseClaim(c)
  <2> DEFINE row == [c.seen EXCEPT !.status = "blocked"]
  <2>1. /\ Save(j, row) /\ c.op = "refuse" /\ c.seen.status = "queued"
        /\ c.seen.revocation = "none"
    BY <1>0, <1>6 DEF RefuseClaim, Checked, j
  <2>2. /\ row \in Row /\ row.status = "blocked"
        /\ row.credential = c.seen.credential /\ row.revocation = c.seen.revocation
        /\ row.chainBinding = c.seen.chainBinding
    BY <1>0 DEF Row, Status, Closed
  <2> HIDE DEF row
  <2>3. KeepsEntry(IssuedStageOf(c.seen), IssuedStageOf(row), c.seen, row,
                   chain[j], revoked, FALSE)
    BY <2>1, <2>2, Stages DEF KeepsEntry, Advances
  <2> QED BY <1>1, <2>1, <2>2, <2>3 DEF OpenRow, Closed
<1>7. CASE Source(c)
  <2> DEFINE row == [c.seen EXCEPT !.chainBinding = TRUE]
  <2>1. /\ Save(j, row) /\ c.op = "source" /\ c.seen.status = "running"
        /\ c.seen.revocation = "none"
    BY <1>0, <1>7 DEF Source, Checked, RowInv, Row, j
  <2>2. /\ row \in Row /\ row.status = "running"
        /\ row.credential = c.seen.credential /\ row.revocation = c.seen.revocation
    BY <1>0, <2>1 DEF Row
  <2>4. row.chainBinding
    BY <1>0 DEF Row
  <2> HIDE DEF row
  <2>3. KeepsEntry(IssuedStageOf(c.seen), IssuedStageOf(row), c.seen, row,
                   chain[j], revoked, FALSE)
    BY <2>1, <2>2, <2>4, Stages DEF KeepsEntry
  <2> QED BY <1>1, <2>1, <2>2, <2>3 DEF OpenRow, Closed
<1>8. CASE Submitted(c)
  <2> DEFINE row == [c.seen EXCEPT !.status = "awaiting_verification", !.leasePhase = "none"]
  <2>1. /\ Save(j, row) /\ c.op = "submitted"
        /\ c.seen.status \in {"running", "blocked"}
        /\ c.seen.revocation = "pending" \/ c.seen.status = "running"
        /\ c.seen.chainBinding /\ c.seen.target # None
    BY <1>0, <1>8 DEF Submitted, Snap, Checked, j
  <2>2. /\ row \in Row /\ row.status = "awaiting_verification" /\ row.target # None
        /\ row.credential = c.seen.credential /\ row.revocation = c.seen.revocation
        /\ row.chainBinding = c.seen.chainBinding
    BY <1>0, <2>1 DEF Row, Status, Engaged, LeasePhase
  <2>3. c.seen.revocation = "pending" => c.seen.credential \in revoked
    BY <1>0, <2>1 DEF Outcome
  <2>4. c.seen.revocation # "pending" => c.seen.revocation = "none"
    BY <1>0, <2>1 DEF RowInv, Row
  <2> HIDE DEF row
  <2>5. KeepsEntry(IssuedStageOf(c.seen), IssuedStageOf(row), c.seen, row,
                   chain[j], revoked, FALSE)
    <3>1. CASE c.seen.revocation = "pending"
      BY <2>2, <3>1, Stages DEF KeepsEntry
    <3>2. CASE c.seen.revocation = "none" /\ c.seen.status = "running"
      BY <2>1, <2>2, <3>2, Stages DEF KeepsEntry, Advances
    <3> QED BY <2>1, <2>4, <3>1, <3>2
  <2> QED BY <1>1, <2>1, <2>2, <2>3, <2>5 DEF OpenRow, Closed
<1>9. CASE CompleteProofVerification(c)
  <2>1. /\ c.op = "complete" /\ c.seen.status = "awaiting_verification"
        /\ c.seen.leasePhase = "none" /\ c.seen.chainBinding /\ c.seen.target # None
        /\ c.seen.revocation # "confirmed" /\ c.seen.chainBinding = old.chainBinding
    BY <1>0, <1>9 DEF CompleteProofVerification, Checked, RowInv, Snap, Outcome, SameRecord
  <2>2. CASE c.seen.revocation = "pending"
    <3> DEFINE row == [c.seen EXCEPT !.status = "blocked", !.revocation = "confirmed"]
    <3>1. Save(j, row)
      BY <1>9, <2>2 DEF CompleteProofVerification, j
    <3>2. /\ row \in Row /\ row.status = "blocked" /\ row.revocation = "confirmed"
          /\ row.credential = c.seen.credential
          /\ row.lease = c.seen.lease /\ row.leasePhase = c.seen.leasePhase
          /\ row.chainBinding = c.seen.chainBinding
      BY <1>0 DEF Row, Status, Closed
    <3>3. "revokeCredential" \in chain[j] /\ c.seen.credential \in revoked
      BY <1>0, <2>1, <2>2 DEF Snap
    <3> HIDE DEF row
    <3>6. KeepsEntry(IssuedStageOf(old), IssuedStageOf(row), old, row,
                     chain[j], revoked, OpenJobs(row.credential) = {})
      BY <1>0, <2>1, <2>2, <3>2, <3>3, Stages DEF KeepsEntry, Advances
    <3>4. Move(old, row, chain[j], revoked, OpenJobs(row.credential) = {})
      BY <1>0, <2>1, <3>2, <3>3, <3>6 DEF Move, Outcome, OpenRow, Closed, SameRecord
    <3>5. Moves(j, row)
      BY <3>1, <3>4 DEF Moves, old, j
    <3> QED BY <1>0, <3>2, <3>5 DEF Shape
  <2>3. CASE c.seen.revocation # "pending"
    <3> DEFINE row == [c.seen EXCEPT !.status = "confirmed"]
    <3>1. Save(j, row)
      BY <1>9, <2>3 DEF CompleteProofVerification, j
    <3>2. /\ row \in Row /\ row.status = "confirmed" /\ row.revocation = c.seen.revocation
          /\ row.target = c.seen.target
          /\ row.credential = c.seen.credential /\ row.chainBinding = c.seen.chainBinding
          /\ row.lease = c.seen.lease /\ row.leasePhase = c.seen.leasePhase
      BY <1>0 DEF Row, Status
    <3>3. c.seen.chainBinding /\ "submits" \in chain[j]
      BY <1>0, <2>1, <2>3 DEF Snap
    <3>4. old.status = "awaiting_verification" /\ old.revocation = c.seen.revocation
      BY <1>0, <2>1 DEF SameRecord
    <3> HIDE DEF row
    <3>7. c.seen.revocation = "none"
      BY <1>0, <2>1, <2>3 DEF Row
    <3>8. KeepsEntry(IssuedStageOf(old), IssuedStageOf(row), old, row,
                     chain[j], revoked, OpenJobs(row.credential) = {})
      BY <1>0, <2>1, <3>2, <3>3, <3>7, Stages DEF KeepsEntry, Advances
    <3>5. Move(old, row, chain[j], revoked, OpenJobs(row.credential) = {})
      BY <1>0, <2>1, <2>3, <3>2, <3>3, <3>4, <3>8 DEF Move, Outcome, OpenRow, Closed
    <3>6. Moves(j, row)
      BY <3>1, <3>5 DEF Moves, old, j
    <3> QED BY <1>0, <3>2, <3>6 DEF Shape
  <2> QED BY <2>2, <2>3
<1> QED BY <1>2, <1>3, <1>4, <1>5, <1>6, <1>7, <1>8, <1>9 DEF Finish

\* Every step of an issued job is a write, a read, the end of a lease, or elsewhere.
LEMMA StepShape ==
  ASSUME IInv, OutcomeInv, [Next]_vars
  PROVE  Shape
<1>1. ASSUME NEW j \in Job, World(j)
      PROVE  Shape
  <2>1. CASE LeaseRunsOut(j)
    BY <2>1 DEF Shape
  <2>2. CASE ExecutorSubmits(j) \/ ExecutorRevokes(j) \/ ConsentEnds(j)
    <3>1. /\ UNCHANGED <<jobs, calls, revoked>>
          /\ \A k \in Job : chain[k] \subseteq chain'[k]
      BY <2>2 DEF ExecutorSubmits, ExecutorRevokes, ConsentEnds, Finalise, issuedVars, IInv,
                  TypeOK, IssuedTypeOK
    <3>2. ConsentEnds(j) => UNCHANGED chain
      BY DEF ConsentEnds, issuedVars
    <3> QED BY <2>2, <3>1, <3>2 DEF Shape, Elsewhere
  <2> QED BY <1>1, <2>1, <2>2 DEF World
<1>2. ASSUME NEW credential \in Credential,
             IssuerRevokes(credential) \/ RequestsGoStale(credential)
      PROVE  Shape
  BY <1>2 DEF IssuerRevokes, RequestsGoStale, Shape, Elsewhere
<1>3. CASE NextIssued
  BY <1>1, <1>2, <1>3, VisitShape, AdministerShape, PollShape, ExecuteShape, FinishShape
     DEF NextIssued
<1>4. CASE NextProgram /\ UNCHANGED issuedVars
  <2>1. UNCHANGED <<jobs, calls, revoked, chain>>
    BY <1>4, ProgramStepKeepsIssued DEF issuedVars
  <2> QED BY <2>1 DEF Shape, Elsewhere
<1>5. CASE UNCHANGED vars
  BY <1>5 DEF vars, issuedVars, Shape, Elsewhere
<1> QED BY <1>3, <1>4, <1>5 DEF Next

-----------------------------------------------------------------------------
(***************************************************************************)
(* The shapes keep the invariant.                                          *)
(***************************************************************************)

\* What a row says, and what a handler knows, is not undone elsewhere.
LEMMA GrowsStay ==
  ASSUME NEW row, NEW c, NEW ch, NEW rev, NEW ch2, NEW rev2,
         ch \subseteq ch2, rev \subseteq rev2
  PROVE  /\ Outcome(row, ch, rev) => Outcome(row, ch2, rev2)
         /\ Snap(c, row, ch, rev) => Snap(c, row, ch2, rev2)
BY DEF Outcome, Snap

\* A write that is a Move keeps the outcome invariant.
LEMMA MovesKeeps ==
  ASSUME IInv, OutcomeInv, NEW j \in Job, NEW row \in Row, Moves(j, row)
  PROVE  OutcomeInv'
<1>1. /\ jobs' = [jobs EXCEPT ![j] = row]
      /\ calls' = {c \in calls : c.job # j}
      /\ UNCHANGED <<revoked, chain>>
      /\ jobs \in [Job -> Row] /\ calls \subseteq Call
  BY DEF Moves, Save, worldVars, IInv, TypeOK, IssuedTypeOK
<1>2. \A k \in Job : jobs'[k] = IF k = j THEN row ELSE jobs[k]
  BY <1>1
<1>3. Outcome(row, chain[j], revoked)
  BY DEF Moves, Move
<1>4. OutcomesInv'
  BY <1>1, <1>2, <1>3 DEF OutcomeInv, OutcomesInv
<1>5. \A c \in calls' : c \in calls /\ c.job \in Job /\ c.job # j
  BY <1>1 DEF Call
<1>6. SnapsInv'
  BY <1>1, <1>2, <1>5 DEF OutcomeInv, SnapsInv
<1>7. ASSUME NEW i \in Job, NEW k \in Job, i # k,
             OpenRow(jobs'[i]), OpenRow(jobs'[k]),
             jobs'[i].credential = jobs'[k].credential, jobs'[i].credential \notin revoked
      PROVE  FALSE
  <2>1. OneOpenJobPerCredential
    BY DEF OutcomeInv
  <2>2. CASE i # j /\ k # j
    BY <1>2, <1>7, <2>1, <2>2 DEF OneOpenJobPerCredential, Open, OpenRow
  <2>3. ASSUME NEW x \in Job, x # j, OpenRow(jobs[x]), OpenRow(row),
               jobs[x].credential = row.credential, row.credential \notin revoked
        PROVE  FALSE
    <3>1. \/ OpenRow(jobs[j]) /\ row.credential = jobs[j].credential
          \/ OpenJobs(row.credential) = {}
      BY <2>3 DEF Moves, Move
    <3>2. x \in OpenJobs(row.credential)
      BY <2>3 DEF OpenJobs, Open, OpenRow
    <3> QED BY <2>1, <2>3, <3>1, <3>2 DEF OneOpenJobPerCredential, Open, OpenRow
  <2>4. CASE i = j
    BY <1>2, <1>7, <2>3, <2>4
  <2>5. CASE k = j
    BY <1>2, <1>7, <2>3, <2>5
  <2> QED BY <2>2, <2>4, <2>5
<1>8. OneOpenJobPerCredential'
  BY <1>1, <1>7 DEF OneOpenJobPerCredential, Open, OpenRow
<1> QED BY <1>4, <1>6, <1>8 DEF OutcomeInv

\* So does a read.
LEMMA BeginsKeeps ==
  ASSUME IInv, OutcomeInv, NEW new \in Call, Begins(new)
  PROVE  OutcomeInv'
<1>1. /\ calls' = calls \cup {new}
      /\ UNCHANGED <<jobs, chain, revoked>>
      /\ Snap(new, jobs[new.job], chain[new.job], revoked)
  BY DEF Begins
<1>2. SnapsInv'
  BY <1>1 DEF OutcomeInv, SnapsInv
<1>3. OutcomesInv' /\ OneOpenJobPerCredential'
  BY <1>1 DEF OutcomeInv, OutcomesInv, OneOpenJobPerCredential, Open
<1> QED BY <1>2, <1>3 DEF OutcomeInv

\* So does the end of a lease.
LEMMA LeaseKeeps ==
  ASSUME IInv, OutcomeInv, NEW j \in Job, LeaseRunsOut(j)
  PROVE  OutcomeInv'
<1>1. PICK phase \in {"due", "past"} : LeasePasses(j, phase)
  BY DEF LeaseRunsOut
<1>2. UNCHANGED <<revoked, chain>> /\ jobs \in [Job -> Row] /\ calls \subseteq Call
  BY DEF LeaseRunsOut, worldVars, IInv, TypeOK, IssuedTypeOK
<1> DEFINE passed(c) == IF c.job = j THEN [c EXCEPT !.seen.leasePhase = phase] ELSE c
<1>3. ASSUME NEW k \in Job
      PROVE  /\ jobs'[k].status = jobs[k].status
             /\ jobs'[k].revocation = jobs[k].revocation
             /\ jobs'[k].credential = jobs[k].credential
             /\ jobs'[k].lease = jobs[k].lease
             /\ jobs'[k].chainBinding = jobs[k].chainBinding
             /\ jobs'[k].approved = jobs[k].approved
             /\ jobs'[k].target = jobs[k].target
  BY <1>1, <1>2 DEF LeasePasses, Row
<1>4. ASSUME NEW c \in calls
      PROVE  /\ passed(c).job = c.job /\ passed(c).op = c.op /\ c.job \in Job
             /\ passed(c).seen.status = c.seen.status
             /\ passed(c).seen.revocation = c.seen.revocation
             /\ passed(c).seen.credential = c.seen.credential
             /\ passed(c).seen.lease = c.seen.lease
             /\ passed(c).seen.chainBinding = c.seen.chainBinding
  BY <1>2 DEF Call, Row
<1>5. calls' = {passed(c) : c \in calls}
  BY <1>1 DEF LeasePasses
<1> HIDE DEF passed
<1>6. OutcomesInv'
  BY <1>2, <1>3 DEF OutcomeInv, OutcomesInv, Outcome
<1>7. SnapsInv'
  <2> SUFFICES ASSUME NEW c \in calls
               PROVE  Snap(passed(c), jobs'[passed(c).job], chain[passed(c).job], revoked)
    BY <1>2, <1>5 DEF SnapsInv
  <2>1. Snap(c, jobs[c.job], chain[c.job], revoked)
    BY DEF OutcomeInv, SnapsInv
  <2> QED BY <1>3, <1>4, <2>1 DEF Snap
<1>8. OneOpenJobPerCredential'
  BY <1>2, <1>3 DEF OutcomeInv, OneOpenJobPerCredential, Open
<1> QED BY <1>6, <1>7, <1>8 DEF OutcomeInv

\* So does whatever leaves the rows alone.
LEMMA ElsewhereKeeps ==
  ASSUME IInv, OutcomeInv, Elsewhere
  PROVE  OutcomeInv'
<1>1. /\ UNCHANGED <<jobs, calls>> /\ revoked \subseteq revoked'
      /\ \A j \in Job : chain[j] \subseteq chain'[j]
      /\ \A c \in calls : c.job \in Job
  BY DEF Elsewhere, IInv, TypeOK, IssuedTypeOK, Call
<1>2. OutcomesInv'
  BY <1>1, GrowsStay DEF OutcomeInv, OutcomesInv
<1>3. SnapsInv'
  BY <1>1, GrowsStay DEF OutcomeInv, SnapsInv
<1>4. OneOpenJobPerCredential'
  BY <1>1 DEF OutcomeInv, OneOpenJobPerCredential, Open
<1> QED BY <1>2, <1>3, <1>4 DEF OutcomeInv

\* What rows and handlers know is true of the chain and of the issuer, and one job
\* for a credential is open.
THEOREM Outcomes == Spec => []OutcomeInv
<1>1. Init => OutcomeInv
  <2> SUFFICES ASSUME Init PROVE OutcomeInv
    OBVIOUS
  <2>1. calls = {} /\ \A j \in Job : jobs[j].status = "absent" /\ jobs[j].revocation = "none"
    BY DEF Init, InitIssued, Absent
  <2> QED BY <2>1 DEF OutcomeInv, SnapsInv, OutcomesInv, Outcome, OneOpenJobPerCredential, Open
<1>2. IInv /\ OutcomeInv /\ [Next]_vars => OutcomeInv'
  BY StepShape, MovesKeeps, BeginsKeeps, LeaseKeeps, ElsewhereKeeps DEF Shape
<1> QED BY <1>1, <1>2, Invariance, PTL DEF Spec

\* While the issuer vouches for a credential one of its jobs is open, however many
\* windows ask for one and whatever interruptions, cancellations and refusals race.
THEOREM OneOpenJob == Spec => []OneOpenJobPerCredential
<1>1. OutcomeInv => OneOpenJobPerCredential
  BY DEF OutcomeInv
<1> QED BY <1>1, Outcomes, PTL

\* A confirmed proof, and a confirmed revocation, is on the contract of its job.
THEOREM ConfirmedHolds == Spec => []ConfirmedIsOnChain
<1>1. OutcomeInv => ConfirmedIsOnChain
  BY DEF OutcomeInv, OutcomesInv, Outcome, ConfirmedIsOnChain
<1> QED BY <1>1, Outcomes, PTL

\* Polling neither takes a job from the verifier nor gives it to an executor.
THEOREM VerificationUndisturbed == Spec => VerificationIsNotDisturbed
<1> DEFINE A == \A j \in Job :
                  jobs[j].status = "awaiting_verification" =>
                    /\ jobs'[j].lease = jobs[j].lease
                    /\ jobs'[j].leasePhase = "none"
                    /\ jobs[j].revocation = "pending" =>
                         \/ jobs'[j] = jobs[j]
                         \/ jobs'[j].revocation = "confirmed"
<1>1. IInv /\ OutcomeInv /\ [Next]_vars => [A]_jobs
  <2> SUFFICES ASSUME IInv, OutcomeInv, [Next]_vars, NEW k \in Job,
                      jobs[k].status = "awaiting_verification"
               PROVE  /\ jobs'[k].lease = jobs[k].lease
                      /\ jobs'[k].leasePhase = "none"
                      /\ jobs[k].revocation = "pending" =>
                           \/ jobs'[k] = jobs[k]
                           \/ jobs'[k].revocation = "confirmed"
    OBVIOUS
  <2>0. jobs \in [Job -> Row] /\ jobs[k].leasePhase = "none"
    BY RowsAreTyped DEF IInv, TypeOK, IssuedTypeOK, RowInv
  <2>1. ASSUME NEW j \in Job, NEW row \in Row, Moves(j, row)
        PROVE  \/ jobs'[k] = jobs[k]
               \/ jobs'[k] = row /\ j = k
    BY <2>0, <2>1 DEF Moves, Save
  <2>2. ASSUME NEW j \in Job, NEW row \in Row, Moves(j, row)
        PROVE  /\ jobs'[k].lease = jobs[k].lease /\ jobs'[k].leasePhase = "none"
               /\ jobs[k].revocation = "pending" =>
                    jobs'[k] = jobs[k] \/ jobs'[k].revocation = "confirmed"
    BY <2>0, <2>1, <2>2 DEF Moves, Move
  <2>3. ASSUME NEW j \in Job, LeaseRunsOut(j)
        PROVE  jobs'[k] = jobs[k]
    BY <2>0, <2>3 DEF LeaseRunsOut, LeasePasses
  <2>4. ASSUME UNCHANGED jobs
        PROVE  jobs'[k] = jobs[k]
    BY <2>4
  <2> QED BY <2>0, <2>2, <2>3, <2>4, StepShape DEF Shape, Begins, Elsewhere
<1> HIDE DEF A
<1>2. Spec => [][A]_jobs
  BY <1>1, Invariance, Outcomes, PTL DEF Spec
<1> QED BY <1>2 DEF A, VerificationIsNotDisturbed

\* An interrupted job is not taken up again by itself.
THEOREM InterruptedWaits == Spec => InterruptedJobWaits
<1> DEFINE A == \A j \in Job :
                  jobs[j].status = "needs_attention" =>
                    \/ jobs'[j].status \in {"needs_attention", "queued"}
                    \/ /\ jobs'[j].status = "blocked"
                       /\ jobs[j].revocation = "none"
                       /\ jobs[j].credential \in revoked
<1>1. IInv /\ OutcomeInv /\ [Next]_vars => [A]_jobs
  <2> SUFFICES ASSUME IInv, OutcomeInv, [Next]_vars, NEW k \in Job,
                      jobs[k].status = "needs_attention"
               PROVE  \/ jobs'[k].status \in {"needs_attention", "queued"}
                      \/ /\ jobs'[k].status = "blocked"
                         /\ jobs[k].revocation = "none"
                         /\ jobs[k].credential \in revoked
    OBVIOUS
  <2>0. jobs \in [Job -> Row]
    BY DEF IInv, TypeOK, IssuedTypeOK
  <2>1. ASSUME NEW j \in Job, NEW row \in Row, Moves(j, row)
        PROVE  \/ jobs'[k] = jobs[k]
               \/ jobs'[k] = row /\ j = k
    BY <2>0, <2>1 DEF Moves, Save
  <2>2. ASSUME NEW j \in Job, NEW row \in Row, Moves(j, row)
        PROVE  \/ jobs'[k].status \in {"needs_attention", "queued"}
               \/ /\ jobs'[k].status = "blocked"
                  /\ jobs[k].revocation = "none"
                  /\ jobs[k].credential \in revoked
    BY <2>1, <2>2 DEF Moves, Move
  <2>3. ASSUME NEW j \in Job, LeaseRunsOut(j)
        PROVE  jobs'[k].status = jobs[k].status
    BY <2>0, <2>3 DEF LeaseRunsOut, LeasePasses, Row
  <2>4. ASSUME UNCHANGED jobs
        PROVE  jobs'[k].status = jobs[k].status
    BY <2>4
  <2> QED BY <2>2, <2>3, <2>4, StepShape DEF Shape, Begins, Elsewhere
<1> HIDE DEF A
<1>2. Spec => [][A]_jobs
  BY <1>1, Invariance, Outcomes, PTL DEF Spec
<1> QED BY <1>2 DEF A, InterruptedJobWaits

-----------------------------------------------------------------------------
(***************************************************************************)
(* The rows keep the ledger (JobLedger).                                   *)
(***************************************************************************)

IssuedStages   == [j \in Job |-> IssuedStageOf(jobs[j])]
IssuedSubjects == [j \in Job |-> jobs[j].credential]
IssuedSourced  == {j \in Job : jobs[j].chainBinding}
IssuedProved   == {j \in Job : "submits" \in chain[j]}
IssuedWithdrawn == {j \in Job : "revokeCredential" \in chain[j]}

\* An open entry of the ledger is an open row.
LEMMA OpenEntry ==
  ASSUME NEW row \in Row, IssuedStageOf(row) \in IssuedLedger!Open
  PROVE  OpenRow(row) /\ row.revocation = "none"
BY Stages DEF IssuedLedger!Open, OpenRow, Row, Status, Waiting, Engaged, Closed

\* A write of a handler is one step of the ledger, or none.
LEMMA MoveServes ==
  ASSUME IInv, OutcomeInv, NEW j \in Job, NEW row \in Row, Moves(j, row)
  PROVE  IssuedLedger!NextLedger \/ UNCHANGED IssuedLedger!ledgerVars
<1> DEFINE from == IssuedStageOf(jobs[j])
           to == IssuedStageOf(row)
<1>0. /\ jobs \in [Job -> Row]
      /\ jobs' = [jobs EXCEPT ![j] = row] /\ UNCHANGED <<revoked, chain>>
      /\ KeepsEntry(from, to, jobs[j], row, chain[j], revoked, OpenJobs(row.credential) = {})
  BY DEF Moves, Move, Save, worldVars, IInv, TypeOK, IssuedTypeOK
<1>1. IssuedStages' = [IssuedStages EXCEPT ![j] = to]
  BY <1>0 DEF IssuedStages
<1>2. row.credential = jobs[j].credential => IssuedSubjects' = IssuedSubjects
  BY <1>0 DEF IssuedSubjects
<1>3. row.chainBinding = jobs[j].chainBinding => IssuedSourced' = IssuedSourced
  BY <1>0 DEF IssuedSourced
<1>4. UNCHANGED <<revoked, IssuedProved, IssuedWithdrawn>>
  BY <1>0 DEF IssuedProved, IssuedWithdrawn
<1>5. /\ IssuedStages[j] = from /\ IssuedSubjects[j] = jobs[j].credential
      /\ jobs[j].chainBinding => j \in IssuedSourced
      /\ "submits" \in chain[j] => j \in IssuedProved
      /\ "revokeCredential" \in chain[j] => j \in IssuedWithdrawn
  BY DEF IssuedStages, IssuedSubjects, IssuedSourced, IssuedProved, IssuedWithdrawn
<1> HIDE DEF from, to
<1>6. CASE /\ from = "none" /\ to \in {"asked", "queued"}
           /\ OpenJobs(row.credential) = {}
           /\ row.credential \in Credential /\ row.chainBinding = jobs[j].chainBinding
  <2>1. IssuedSubjects' = [IssuedSubjects EXCEPT ![j] = row.credential]
    BY <1>0 DEF IssuedSubjects
  <2>2. ASSUME NEW i \in Job, IssuedSubjects[i] = row.credential
        PROVE  IssuedStages[i] \notin IssuedLedger!Open
    <3>1. ~OpenRow(jobs[i])
      BY <1>6, <2>2 DEF IssuedSubjects, OpenJobs, Open, OpenRow
    <3> QED BY <1>0, <3>1, OpenEntry DEF IssuedStages
  <2>3. IssuedLedger!Request(j, row.credential)
    BY <1>1, <1>3, <1>4, <1>5, <1>6, <2>1, <2>2
       DEF IssuedLedger!Request, IssuedLedger!worldVars, IssuedStages, IssuedSubjects,
           IssuedSourced, IssuedProved, IssuedWithdrawn
  <2> QED BY <1>6, <2>3 DEF IssuedLedger!NextLedger, IssuedLedger!Serve
<1>7. CASE /\ from = "running" /\ to = "running" /\ row.chainBinding
           /\ row.credential = jobs[j].credential
  <2>1. IssuedSourced' = IssuedSourced \cup {j}
    BY <1>0, <1>7 DEF IssuedSourced
  <2>2. IssuedStages' = IssuedStages
    BY <1>1, <1>5, <1>7 DEF IssuedStages
  <2>3. IssuedLedger!Record(j)
    BY <1>2, <1>4, <1>5, <1>7, <2>1, <2>2
       DEF IssuedLedger!Record, IssuedLedger!worldVars, IssuedStages, IssuedSubjects,
           IssuedSourced, IssuedProved, IssuedWithdrawn
  <2> QED BY <2>3 DEF IssuedLedger!NextLedger, IssuedLedger!Serve
<1>8. CASE row.credential = jobs[j].credential /\ row.chainBinding = jobs[j].chainBinding
             /\ to = from
  <2>1. IssuedStages' = IssuedStages
    BY <1>1, <1>5, <1>8 DEF IssuedStages
  <2> QED BY <1>2, <1>3, <1>4, <1>8, <2>1
          DEF IssuedLedger!ledgerVars, IssuedStages, IssuedSubjects, IssuedSourced,
              IssuedProved, IssuedWithdrawn
<1>9. CASE /\ row.credential = jobs[j].credential /\ row.chainBinding = jobs[j].chainBinding
           /\ Advances(from, to, row.chainBinding, "submits" \in chain[j],
                       "revokeCredential" \in chain[j], row.credential \in revoked)
  <2>1. ASSUME NEW set, from \in set PROVE IssuedLedger!Goes(j, set, to)
    BY <1>1, <1>2, <1>3, <1>4, <1>5, <1>9, <2>1
       DEF IssuedLedger!Goes, IssuedLedger!worldVars, IssuedStages, IssuedSubjects,
           IssuedSourced, IssuedProved, IssuedWithdrawn
  <2>2. row.credential \in revoked => IssuedLedger!Disowned(j)
    BY <1>5, <1>9 DEF IssuedLedger!Disowned, IssuedSubjects
  <2>3. \/ from = "asked" /\ to = "queued" /\ IssuedLedger!Approve(j)
        \/ from \in {"asked", "queued"} /\ to = "closed" /\ IssuedLedger!Close(j)
        \/ from = "queued" /\ to = "running" /\ IssuedLedger!Claim(j)
        \/ from = "running" /\ to = "interrupted" /\ IssuedLedger!Interrupt(j)
        \/ from = "running" /\ to = "submitted" /\ IssuedLedger!Submit(j)
        \/ from = "interrupted" /\ to = "queued" /\ IssuedLedger!Resume(j)
        \/ from = "submitted" /\ to = "confirmed" /\ IssuedLedger!Confirm(j)
        \/ from = "revoking" /\ to = "revoked" /\ IssuedLedger!Retire(j)
        \/ from \in {"running", "interrupted"} /\ to = "closed" /\ IssuedLedger!Abandon(j)
        \/ from = "closed" /\ to = "interrupted" /\ IssuedLedger!Return(j)
        \/ to = "revoking" /\ IssuedLedger!Pursue(j)
    BY <1>5, <1>9, <2>1, <2>2
       DEF Advances, IssuedLedger!Approve, IssuedLedger!Close, IssuedLedger!Claim,
           IssuedLedger!Interrupt, IssuedLedger!Submit, IssuedLedger!Resume,
           IssuedLedger!Confirm, IssuedLedger!Retire, IssuedLedger!Abandon,
           IssuedLedger!Return, IssuedLedger!Pursue, IssuedLedger!Open,
           IssuedSourced, IssuedProved, IssuedWithdrawn
  <2> QED BY <2>3 DEF IssuedLedger!NextLedger, IssuedLedger!Serve
<1> QED BY <1>0, <1>6, <1>7, <1>8, <1>9 DEF KeepsEntry

\* The issuer and the chain move it, or nothing does.
LEMMA ElsewhereServes ==
  ASSUME IInv, OutcomeInv, Elsewhere
  PROVE  IssuedLedger!NextLedger \/ UNCHANGED IssuedLedger!ledgerVars
<1>0. /\ jobs \in [Job -> Row] /\ chain \in [Job -> SUBSET ChainOp] /\ UNCHANGED jobs
      /\ UNCHANGED <<IssuedStages, IssuedSubjects, IssuedSourced>>
  BY DEF Elsewhere, IInv, TypeOK, IssuedTypeOK, IssuedStages, IssuedSubjects, IssuedSourced
<1>1. CASE UNCHANGED <<revoked, chain>>
  BY <1>0, <1>1 DEF IssuedLedger!ledgerVars
<1>2. ASSUME NEW j \in Job, ExecutorSubmits(j)
      PROVE  IssuedLedger!NextLedger
  <2>1. /\ chain' = [chain EXCEPT ![j] = @ \cup {"submits"}] /\ chain[j] = {}
        /\ jobs[j].chainBinding /\ UNCHANGED revoked
    BY <1>2 DEF ExecutorSubmits, Finalise
  <2>2. IssuedProved' = IssuedProved \cup {j}
    BY <1>0, <2>1 DEF IssuedProved
  <2>3. UNCHANGED IssuedWithdrawn
    BY <1>0, <2>1 DEF IssuedWithdrawn
  <2>4. j \in IssuedSourced \ IssuedWithdrawn
    BY <2>1 DEF IssuedSourced, IssuedWithdrawn
  <2>5. IssuedLedger!Prove(j)
    BY <1>0, <2>1, <2>2, <2>3, <2>4
       DEF IssuedLedger!Prove, IssuedStages, IssuedSubjects, IssuedSourced,
           IssuedProved, IssuedWithdrawn
  <2> QED BY <2>5 DEF IssuedLedger!NextLedger
<1>3. ASSUME NEW j \in Job, ExecutorRevokes(j)
      PROVE  IssuedLedger!NextLedger
  <2>1. /\ chain' = [chain EXCEPT ![j] = @ \cup {"revokeCredential"}]
        /\ jobs[j].revocation = "pending" /\ UNCHANGED revoked
    BY <1>3 DEF ExecutorRevokes, Finalise, Revoking
  <2>2. IssuedWithdrawn' = IssuedWithdrawn \cup {j}
    BY <1>0, <2>1 DEF IssuedWithdrawn
  <2>3. UNCHANGED IssuedProved
    BY <1>0, <2>1 DEF IssuedProved
  <2>4. IssuedStages[j] = "revoking"
    BY <2>1, Stages DEF IssuedStages
  <2>5. IssuedLedger!Withdraw(j)
    BY <1>0, <2>1, <2>2, <2>3, <2>4
       DEF IssuedLedger!Withdraw, IssuedStages, IssuedSubjects, IssuedSourced,
           IssuedProved, IssuedWithdrawn
  <2> QED BY <2>5 DEF IssuedLedger!NextLedger
<1>4. ASSUME NEW credential \in Credential, IssuerRevokes(credential)
      PROVE  IssuedLedger!NextLedger
  <2>1. revoked' = revoked \cup {credential} /\ UNCHANGED chain
    BY <1>4 DEF IssuerRevokes
  <2>2. UNCHANGED <<IssuedProved, IssuedWithdrawn>>
    BY <2>1 DEF IssuedProved, IssuedWithdrawn
  <2>3. IssuedLedger!Disown(credential)
    BY <1>0, <2>1, <2>2
       DEF IssuedLedger!Disown, IssuedStages, IssuedSubjects, IssuedSourced,
           IssuedProved, IssuedWithdrawn
  <2> QED BY <2>3 DEF IssuedLedger!NextLedger
<1> QED BY <1>1, <1>2, <1>3, <1>4 DEF Elsewhere

\* Time, and the first half of a handler, leave the ledger as it is.
LEMMA QuietServes ==
  ASSUME IInv, OutcomeInv,
         \/ \E new \in Call : Begins(new)
         \/ \E j \in Job : LeaseRunsOut(j)
  PROVE  UNCHANGED IssuedLedger!ledgerVars
<1>1. UNCHANGED <<revoked, chain>>
  BY DEF Begins, LeaseRunsOut, worldVars
<1>2. ASSUME NEW k \in Job
      PROVE  /\ IssuedStageOf(jobs'[k]) = IssuedStageOf(jobs[k])
             /\ jobs'[k].credential = jobs[k].credential
             /\ jobs'[k].chainBinding = jobs[k].chainBinding
  <2>0. jobs \in [Job -> Row]
    BY DEF IInv, TypeOK, IssuedTypeOK
  <2>1. CASE \E new \in Call : Begins(new)
    BY <2>1 DEF Begins
  <2>2. ASSUME NEW j \in Job, NEW phase \in {"due", "past"}, LeasePasses(j, phase)
        PROVE  /\ jobs'[k] \in Row
               /\ jobs'[k].status = jobs[k].status
               /\ jobs'[k].revocation = jobs[k].revocation
               /\ jobs'[k].credential = jobs[k].credential
               /\ jobs'[k].chainBinding = jobs[k].chainBinding
    BY <2>0, <2>2 DEF LeasePasses, Row, LeasePhase
  <2>3. CASE \E j \in Job : LeaseRunsOut(j)
    BY <2>0, <2>2, <2>3, SameStage DEF LeaseRunsOut
  <2> QED BY <2>1, <2>3
<1>3. UNCHANGED <<IssuedStages, IssuedSubjects, IssuedSourced, IssuedProved, IssuedWithdrawn>>
  BY <1>1, <1>2 DEF IssuedStages, IssuedSubjects, IssuedSourced, IssuedProved, IssuedWithdrawn
<1> QED BY <1>1, <1>3
        DEF IssuedLedger!ledgerVars, IssuedStages, IssuedSubjects, IssuedSourced,
            IssuedProved, IssuedWithdrawn

\* A step of an issued job is a step of the ledger, or leaves it as it is.
LEMMA IssuedStepServes ==
  ASSUME IInv, OutcomeInv, [Next]_vars
  PROVE  [IssuedLedger!NextLedger]_(IssuedLedger!ledgerVars)
BY StepShape, MoveServes, ElsewhereServes, QuietServes DEF Shape

\* Whatever the handlers, the polls, the executors and the verifiers of
\* issued-credential jobs do at the same time, the table changes as one ledger in
\* which jobs are opened, approved, claimed, submitted, verified and revoked one
\* entry at a time.
THEOREM IssuedJobsKept == Spec => IssuedJobsKeepLedger
<1>1. Init => IssuedLedger!InitLedger
  BY Stages DEF Init, InitIssued, Absent, IssuedLedger!InitLedger
<1>2. IInv /\ OutcomeInv /\ [Next]_vars => [IssuedLedger!NextLedger]_(IssuedLedger!ledgerVars)
  BY IssuedStepServes
<1> QED BY <1>1, <1>2, Invariance, Outcomes, PTL
        DEF Spec, IssuedJobsKeepLedger, IssuedLedger!LedgerSpec

\* A confirmed proof is on the contract whose source was recorded, a job is under
\* revocation only for a credential its issuer revoked, and a revocation is confirmed
\* only once that contract holds it.
THEOREM LedgerStandsOnChain == Spec => []IssuedLedger!StandsOnChain
<1>1. IInv /\ OutcomeInv => IssuedLedger!StandsOnChain
  <2> SUFFICES ASSUME IInv, OutcomeInv, NEW j \in Job
               PROVE  /\ IssuedStages[j] = "confirmed" => j \in IssuedSourced \cap IssuedProved
                      /\ IssuedStages[j] \in {"revoking", "revoked"} =>
                           IssuedSubjects[j] \in revoked
                      /\ IssuedStages[j] = "revoked" =>
                           j \in IssuedSourced \cap IssuedWithdrawn
    BY DEF IssuedLedger!StandsOnChain, IssuedLedger!Disowned, IssuedStages,
           IssuedSubjects, IssuedSourced, IssuedProved, IssuedWithdrawn
  <2>1. jobs[j] \in Row /\ Outcome(jobs[j], chain[j], revoked)
    BY RowOf
  <2>2. /\ IssuedStages[j] = "confirmed" => jobs[j].status = "confirmed"
        /\ IssuedStages[j] \in {"revoking", "revoked"} => jobs[j].revocation # "none"
        /\ IssuedStages[j] = "revoked" => jobs[j].revocation = "confirmed"
    BY <2>1, Stages DEF IssuedStages, Row, Status, Waiting, Engaged, Closed
  <2> QED BY <2>1, <2>2 DEF Outcome, IssuedSubjects, IssuedSourced, IssuedProved, IssuedWithdrawn
<1> QED BY <1>1, Invariance, Outcomes, PTL

\* A credential revoked while its contract is bound but its source is not recorded
\* leaves a revocation that nothing ends: "source" wants a job without one, and
\* "submitted" and the verifier want a source.
THEOREM UnsourcedRevocationStays == Spec => IssuedLedger!UnsourcedRevocationHasNoEnd
<1> DEFINE A == \A j \in Job :
                  IssuedStages[j] = "revoking" /\ j \notin IssuedSourced =>
                    IssuedStages'[j] = "revoking" /\ j \notin IssuedSourced'
<1>1. ASSUME IssuedLedger!NextLedger, NEW j \in Job,
             IssuedStages[j] = "revoking", j \notin IssuedSourced
      PROVE  IssuedStages'[j] = "revoking" /\ j \notin IssuedSourced'
  <2>1. PICK i \in Job : IssuedLedger!Serve(i) \/ UNCHANGED <<IssuedStages, IssuedSourced>>
    BY <1>1 DEF IssuedLedger!NextLedger, IssuedLedger!Prove, IssuedLedger!Withdraw,
                IssuedLedger!Disown, IssuedStages, IssuedSourced
  <2>2. ASSUME NEW from, NEW to, IssuedLedger!Goes(i, from, to),
               i # j \/ "revoking" \notin from
        PROVE  IssuedStages'[j] = "revoking" /\ j \notin IssuedSourced'
    <3>1. /\ IssuedStages[i] \in from
          /\ IssuedStages' = [IssuedStages EXCEPT ![i] = to]
          /\ IssuedSourced' = IssuedSourced
      BY <2>2 DEF IssuedLedger!Goes, IssuedStages, IssuedSourced
    <3>2. DOMAIN IssuedStages = Job
      BY DEF IssuedStages
    <3> QED BY <1>1, <2>2, <3>1, <3>2
  <2>3. ASSUME NEW s \in Credential, IssuedLedger!Request(i, s)
        PROVE  IssuedStages'[j] = "revoking" /\ j \notin IssuedSourced'
    <3>1. PICK to : /\ IssuedStages[i] = "none"
                    /\ IssuedStages' = [IssuedStages EXCEPT ![i] = to]
                    /\ IssuedSourced' = IssuedSourced
      BY <2>3 DEF IssuedLedger!Request, IssuedStages, IssuedSourced
    <3>2. DOMAIN IssuedStages = Job
      BY DEF IssuedStages
    <3> QED BY <1>1, <3>1, <3>2
  <2>4. CASE IssuedLedger!Record(i)
    <3>1. /\ IssuedStages[i] = "running" /\ IssuedStages' = IssuedStages
          /\ IssuedSourced' = IssuedSourced \cup {i}
      BY <2>4 DEF IssuedLedger!Record, IssuedStages, IssuedSourced
    <3> QED BY <1>1, <3>1
  <2>5. CASE IssuedLedger!Retire(i)
    <3>1. i \in IssuedSourced /\ IssuedLedger!Goes(i, {"revoking"}, "revoked")
      BY <2>5 DEF IssuedLedger!Retire, IssuedSourced
    <3> QED BY <1>1, <2>2, <3>1
  <2> QED BY <1>1, <2>1, <2>2, <2>3, <2>4, <2>5
          DEF IssuedLedger!Serve, IssuedLedger!Approve, IssuedLedger!Close,
              IssuedLedger!Claim, IssuedLedger!Interrupt, IssuedLedger!Submit,
              IssuedLedger!Resume, IssuedLedger!Confirm, IssuedLedger!Abandon,
              IssuedLedger!Return, IssuedLedger!Pursue, IssuedLedger!Open
<1>2. UNCHANGED IssuedLedger!ledgerVars => UNCHANGED <<IssuedStages, IssuedSourced>>
  BY DEF IssuedLedger!ledgerVars, IssuedStages, IssuedSourced
<1>3. IInv /\ OutcomeInv /\ [Next]_vars => [A]_(IssuedLedger!ledgerVars)
  BY <1>1, IssuedStepServes
<1> HIDE DEF A
<1>4. Spec => [][A]_(IssuedLedger!ledgerVars)
  BY <1>3, Invariance, Outcomes, PTL DEF Spec
<1> QED BY <1>4
        DEF A, IssuedLedger!UnsourcedRevocationHasNoEnd, IssuedStages, IssuedSourced

-----------------------------------------------------------------------------
(***************************************************************************)
(* The same for program jobs.                                              *)
(***************************************************************************)

\* What a handler of a program job knows until it writes; final says that the
\* job's contract finalised its two transactions.
ProgramSnap(c, row, final) ==
  /\ c.op # "request" => c.seen.application = row.application
  /\ c.op = "request" => c.seen.application \in Application
  /\ c.op = "submitted" => c.seen.receipts
  /\ c.op \in {"submitted", "complete"} => c.seen.chainBinding
  /\ c.op = "complete" => final

\* What a row says is so.
ProgramOutcome(row, final) ==
  /\ row.status \in {"queued", "confirmed"} \cup Engaged => row.approved
  /\ row.status \in {"awaiting_verification", "confirmed"} => row.receipts
  /\ row.status = "confirmed" => final

\* Two open jobs of one application are the same job.
OneOpenPair ==
  \A p, q \in ProgramJob :
    /\ OpenRow(programJobs[p]) /\ OpenRow(programJobs[q])
    /\ programJobs[p].application = programJobs[q].application
    => p = q

ProgramSnapsInv ==
  \A c \in programCalls : ProgramSnap(c, programJobs[c.job], c.job \in programChain)
ProgramOutcomesInv ==
  \A p \in ProgramJob : ProgramOutcome(programJobs[p], p \in programChain)

ProgramOutcomeInv == ProgramSnapsInv /\ ProgramOutcomesInv /\ OneOpenPair

\* ProgramRecordsStay, of one row.
ProgramKept(old, row) ==
  /\ old.approved => row.approved
  /\ old.target # NoProgramValue => row.target = old.target
  /\ old.chainBinding => row.chainBinding
  /\ old.receipts => row.receipts
  /\ old.status \in Closed \cup {"confirmed"} => row.status = old.status

\* A write opens the job, records its source, advances it or leaves its entry in
\* the ledger as it is.
ProgramKeepsEntry(from, to, old, row, final, alone) ==
  \/ /\ from = "none" /\ to \in {"asked", "queued"} /\ alone
     /\ row.application \in Application /\ row.chainBinding = old.chainBinding
  \/ /\ from = "running" /\ to = "running" /\ row.chainBinding
     /\ row.application = old.application
  \/ /\ row.application = old.application /\ row.chainBinding = old.chainBinding
     /\ to = from \/ Advances(from, to, row.chainBinding, final, FALSE, FALSE)

\* What a write may make of a row.
ProgramMove(old, row, final, alone) ==
  /\ ProgramOutcome(row, final)
  /\ ProgramKept(old, row)
  /\ ProgramKeepsEntry(StageOf(old.status), StageOf(row.status), old, row, final, alone)
  /\ OpenRow(row) =>
       \/ OpenRow(old) /\ row.application = old.application
       \/ alone

ProgramMoves(p, row) ==
  /\ SaveProgram(p, row)
  /\ ProgramMove(programJobs[p], row, p \in programChain,
                 OpenProgramJobs(row.application) = {})

ProgramBegins(new) ==
  /\ programCalls' = programCalls \cup {new}
  /\ UNCHANGED <<programJobs, programChain>>
  /\ new.job \in ProgramJob
  /\ ProgramSnap(new, programJobs[new.job], new.job \in programChain)

ProgramElsewhere ==
  /\ UNCHANGED <<programJobs, programCalls>>
  /\ programChain \subseteq programChain'
  /\ UNCHANGED programChain \/ \E p \in ProgramJob : ProgramExecutorSubmits(p)

\* The shapes of a step as program jobs see it.
ProgramShape ==
  \/ \E p \in ProgramJob, row \in ProgramRow : ProgramMoves(p, row)
  \/ \E new \in ProgramCall : ProgramBegins(new)
  \/ \E p \in ProgramJob : ProgramLeaseRunsOut(p)
  \/ ProgramElsewhere

-----------------------------------------------------------------------------
\* What the invariants say of one handler of a program job.
LEMMA ProgramCallOf ==
  ASSUME IInv, ProgramOutcomeInv, NEW c \in programCalls
  PROVE  /\ c.job \in ProgramJob /\ c.seen \in ProgramRow
         /\ c.by \in ProgramWorker \cup {NoProgramValue}
         /\ SameProgramRecord(c.seen, programJobs[c.job]) /\ ProgramChecked(c)
         /\ ProgramSnap(c, programJobs[c.job], c.job \in programChain)
         /\ ProgramOutcome(c.seen, c.job \in programChain)
<1>1. /\ c.job \in ProgramJob /\ c.seen \in ProgramRow
      /\ c.by \in ProgramWorker \cup {NoProgramValue}
      /\ SameProgramRecord(c.seen, programJobs[c.job]) /\ ProgramChecked(c)
  BY ProgramSnapshotsAreTyped
<1>2. ProgramSnap(c, programJobs[c.job], c.job \in programChain)
  BY DEF ProgramOutcomeInv, ProgramSnapsInv
<1>3. ProgramOutcome(programJobs[c.job], c.job \in programChain)
  BY <1>1 DEF ProgramOutcomeInv, ProgramOutcomesInv
<1> QED BY <1>1, <1>2, <1>3 DEF ProgramOutcome, SameProgramRecord

\* A handler that goes on with the row as it is.
LEMMA ProgramBeginShape ==
  ASSUME IInv, ProgramOutcomeInv, NEW p \in ProgramJob,
         NEW op \in {"approve", "resume", "claim", "heartbeat", "source", "submitted",
                     "complete"},
         NEW w \in ProgramWorker \cup {NoProgramValue},
         BeginProgram(op, p, w, programJobs[p]),
         op = "submitted" => programJobs[p].receipts,
         op \in {"submitted", "complete"} => programJobs[p].chainBinding,
         op = "complete" => p \in programChain
  PROVE  ProgramShape
<1> DEFINE new == [op |-> op, job |-> p, by |-> w, seen |-> programJobs[p]]
<1>1. new \in ProgramCall
  BY ProgramRowsAreTyped DEF ProgramCall
<1>2. ProgramSnap(new, programJobs[p], p \in programChain)
  BY DEF ProgramSnap
<1>3. ProgramBegins(new)
  BY <1>2 DEF ProgramBegins, BeginProgram
<1> QED BY <1>1, <1>3 DEF ProgramShape

\* A write that keeps the job in the state it is in, or stops it.
LEMMA ProgramPlainMove ==
  ASSUME IInv, ProgramOutcomeInv, NEW p \in ProgramJob, NEW row \in ProgramRow,
         SaveProgram(p, row),
         OpenRow(programJobs[p]), programJobs[p].status # "confirmed",
         \/ row.status = programJobs[p].status
         \/ row.status = "needs_attention" /\ programJobs[p].status = "running"
         \/ row.status \in Closed /\ programJobs[p].status \in Waiting,
         row.application = programJobs[p].application,
         row.chainBinding = programJobs[p].chainBinding,
         ProgramKept(programJobs[p], row)
  PROVE  ProgramShape
<1>1. ProgramOutcome(programJobs[p], p \in programChain)
  BY DEF ProgramOutcomeInv, ProgramOutcomesInv
<1>2. ProgramOutcome(row, p \in programChain)
  BY <1>1 DEF ProgramOutcome, ProgramKept, Engaged, Closed
<1>4. ProgramKeepsEntry(StageOf(programJobs[p].status), StageOf(row.status), programJobs[p],
                        row, p \in programChain, OpenProgramJobs(row.application) = {})
  BY Stages DEF ProgramKeepsEntry, Advances, Waiting, Closed
<1>3. ProgramMoves(p, row)
  BY <1>2, <1>4 DEF ProgramMoves, ProgramMove
<1> QED BY <1>3 DEF ProgramShape

\* Program jobs: how the visitor's and the administrator's handlers read a row.
LEMMA ProgramVisitShape ==
  ASSUME IInv, ProgramOutcomeInv, NEW p \in ProgramJob, ProgramVisit(p)
  PROVE  ProgramShape
<1>0. programJobs[p] \in ProgramRow
  BY ProgramRowsAreTyped
<1>1. ASSUME NEW application \in Application, BeginProgramRequest(p, application)
      PROVE  ProgramShape
  <2> DEFINE row == [programJobs[p] EXCEPT !.application = application]
             new == [op |-> "request", job |-> p, by |-> NoProgramValue, seen |-> row]
  <2>1. new \in ProgramCall
    BY <1>0 DEF ProgramCall, ProgramRow
  <2>3. row.application = application
    BY <1>0 DEF ProgramRow
  <2>2. ProgramBegins(new)
    BY <1>1, <2>3 DEF ProgramBegins, BeginProgramRequest, BeginProgram, ProgramSnap
  <2> QED BY <2>1, <2>2 DEF ProgramShape
<1>2. CASE CancelProgramJob(p)
  <2> DEFINE row == [programJobs[p] EXCEPT !.status = "cancelled"]
  <2>1. /\ row \in ProgramRow /\ row.status = "cancelled"
        /\ row.application = programJobs[p].application
        /\ row.chainBinding = programJobs[p].chainBinding
    BY <1>0 DEF ProgramRow, Status, Closed
  <2>2. SaveProgram(p, row) /\ programJobs[p].status \in Waiting
    BY <1>2 DEF CancelProgramJob
  <2>3. ProgramKept(programJobs[p], row)
    BY <1>0, <2>2 DEF ProgramKept, Waiting, Closed, ProgramRow
  <2> HIDE DEF row
  <2> QED BY <2>1, <2>2, <2>3, ProgramPlainMove DEF OpenRow, Waiting, Closed
<1>3. ASSUME NEW action \in {"approve", "resume"}, BeginControl(p, action)
      PROVE  ProgramShape
  BY <1>3, ProgramBeginShape DEF BeginControl
<1> QED BY <1>1, <1>2, <1>3 DEF ProgramVisit

\* Program jobs: how the commands of an executor read a row.
LEMMA ProgramExecuteShape ==
  ASSUME IInv, ProgramOutcomeInv, NEW w \in ProgramWorker, NEW p \in ProgramJob,
         ProgramExecute(w, p)
  PROVE  ProgramShape
<1>0. programJobs[p] \in ProgramRow
  BY ProgramRowsAreTyped
<1>1. CASE BeginProgramClaim(w, p)
  BY <1>1, ProgramBeginShape DEF BeginProgramClaim
<1>2. CASE BeginProgramHeartbeat(w, p)
  BY <1>2, ProgramBeginShape DEF BeginProgramHeartbeat
<1>3. CASE BeginProgramSource(w, p)
  BY <1>3, ProgramBeginShape DEF BeginProgramSource
<1>4. CASE BeginProgramSubmitted(w, p)
  BY <1>4, ProgramBeginShape DEF BeginProgramSubmitted
<1>5. ASSUME NEW row \in ProgramRow, HoldsProgramLease(w, p), SaveProgram(p, row),
             row.status \in {"running", "needs_attention"},
             row.application = programJobs[p].application,
             row.chainBinding = programJobs[p].chainBinding,
             ProgramKept(programJobs[p], row)
      PROVE  ProgramShape
  <2>1. programJobs[p].status = "running"
    BY <1>5 DEF HoldsProgramLease
  <2> QED BY <1>5, <2>1, ProgramPlainMove DEF OpenRow, Closed
<1>6. ASSUME NEW target \in ProgramTarget, BindProgram(w, p, target)
      PROVE  ProgramShape
  <2> DEFINE row == [programJobs[p] EXCEPT !.target = target]
  <2>1. /\ HoldsProgramLease(w, p) /\ SaveProgram(p, row)
        /\ programJobs[p].target \in {NoProgramValue, target}
        /\ programJobs[p].status = "running"
    BY <1>6 DEF BindProgram, HoldsProgramLease
  <2>2. /\ row \in ProgramRow /\ row.status = "running"
        /\ row.application = programJobs[p].application
        /\ row.chainBinding = programJobs[p].chainBinding
        /\ ProgramKept(programJobs[p], row)
    BY <1>0, <2>1 DEF ProgramRow, ProgramKept
  <2> QED BY <1>5, <2>1, <2>2
<1>7. CASE ProgramReceipt(w, p)
  <2> DEFINE row == [programJobs[p] EXCEPT !.receipts = TRUE]
  <2>1. /\ HoldsProgramLease(w, p) /\ SaveProgram(p, row)
        /\ programJobs[p].status = "running"
    BY <1>7 DEF ProgramReceipt, HoldsProgramLease
  <2>2. /\ row \in ProgramRow /\ row.status = "running"
        /\ row.application = programJobs[p].application
        /\ row.chainBinding = programJobs[p].chainBinding
        /\ ProgramKept(programJobs[p], row)
    BY <1>0, <2>1 DEF ProgramRow, ProgramKept
  <2> QED BY <1>5, <2>1, <2>2
<1>8. CASE ProgramFailed(w, p)
  <2> DEFINE row == [programJobs[p] EXCEPT !.status = "needs_attention", !.leasePhase = "none"]
  <2>1. /\ HoldsProgramLease(w, p) /\ SaveProgram(p, row)
        /\ programJobs[p].status = "running"
    BY <1>8 DEF ProgramFailed, HoldsProgramLease
  <2>2. /\ row \in ProgramRow /\ row.status = "needs_attention"
        /\ row.application = programJobs[p].application
        /\ row.chainBinding = programJobs[p].chainBinding
        /\ ProgramKept(programJobs[p], row)
    BY <1>0, <2>1 DEF ProgramRow, Status, LeasePhase, ProgramKept, Closed
  <2> QED BY <1>5, <2>1, <2>2
<1> QED BY <1>1, <1>2, <1>3, <1>4, <1>6, <1>7, <1>8 DEF ProgramExecute

\* Program jobs: what each write does to the row it had read.
LEMMA ProgramFinishShape ==
  ASSUME IInv, ProgramOutcomeInv, NEW c \in programCalls, ProgramFinish(c)
  PROVE  ProgramShape
<1> DEFINE p == c.job
           old == programJobs[c.job]
           final == c.job \in programChain
<1>0. /\ p \in ProgramJob /\ c.seen \in ProgramRow
      /\ c.by \in ProgramWorker \cup {NoProgramValue}
      /\ SameProgramRecord(c.seen, old) /\ ProgramChecked(c)
      /\ ProgramSnap(c, old, final) /\ ProgramOutcome(c.seen, final)
  BY ProgramCallOf
<1> HIDE DEF p, old, final
\* All but the request write what they saw back with more in it.
<1>1. ASSUME NEW row \in ProgramRow, SaveProgram(p, row), c.op # "request",
             c.seen.status \notin Closed \cup {"absent", "confirmed"},
             row.application = c.seen.application,
             ProgramKept(c.seen, row), ProgramOutcome(row, final),
             ProgramKeepsEntry(StageOf(c.seen.status), StageOf(row.status), c.seen, row,
                               final, FALSE)
      PROVE  ProgramShape
  <2>1. ProgramKept(old, row) /\ OpenRow(old) /\ row.application = old.application
    BY <1>0, <1>1 DEF ProgramKept, SameProgramRecord, OpenRow, ProgramSnap
  <2>3. ProgramKeepsEntry(StageOf(old.status), StageOf(row.status), old, row, final,
                          OpenProgramJobs(row.application) = {})
    <3>1. /\ c.seen.status = old.status /\ c.seen.chainBinding = old.chainBinding
          /\ c.seen.application = old.application
      BY <1>0, <1>1 DEF SameProgramRecord, ProgramSnap
    <3> QED BY <1>1, <3>1 DEF ProgramKeepsEntry, Advances
  <2>2. ProgramMoves(p, row)
    BY <1>1, <2>1, <2>3 DEF ProgramMoves, ProgramMove, p, old, final
  <2> QED BY <1>0, <2>2 DEF ProgramShape
<1>2. ASSUME NEW mode \in ProgramMode, RequestProgramJob(c, mode)
      PROVE  ProgramShape
  <2> DEFINE status == IF mode = "automatic" THEN "queued" ELSE "awaiting_approval"
             row == [c.seen EXCEPT !.status = status, !.approved = (mode = "automatic")]
  <2>1. /\ SaveProgram(p, row) /\ c.seen.status = "absent"
        /\ OpenProgramJobs(c.seen.application) = {}
        /\ c.seen.application \in Application
    BY <1>0, <1>2 DEF RequestProgramJob, ProgramInserts, ProgramChecked, ProgramSnap, p
  <2>2. row \in ProgramRow /\ row.application = c.seen.application
    BY <1>0 DEF ProgramRow, Status, Waiting
  <2>3. ProgramOutcome(row, final)
    BY <1>0 DEF ProgramOutcome, ProgramRow, Engaged
  <2>4. /\ old.status = "absent" /\ ~old.approved /\ old.target = NoProgramValue
        /\ old.chainBinding = c.seen.chainBinding /\ old.receipts = c.seen.receipts
    BY <1>0, <2>1 DEF SameProgramRecord, IInv, ProgramInv, ProgramRowsInv, old, p
  <2>5. /\ row.chainBinding = c.seen.chainBinding /\ row.receipts = c.seen.receipts
        /\ row.status \in Waiting
    BY <1>0 DEF ProgramRow, Waiting
  <2> HIDE DEF row
  <2>6. ProgramKept(old, row)
    BY <2>4, <2>5 DEF ProgramKept, Closed
  <2>8. ProgramKeepsEntry(StageOf(old.status), StageOf(row.status), old, row, final,
                          OpenProgramJobs(row.application) = {})
    BY <2>1, <2>2, <2>4, <2>5, Stages DEF ProgramKeepsEntry, Waiting
  <2>7. ProgramMoves(p, row)
    BY <2>1, <2>2, <2>3, <2>6, <2>8 DEF ProgramMoves, ProgramMove, p, old, final
  <2> QED BY <1>0, <2>2, <2>7 DEF ProgramShape
<1>3. CASE ControlProgramJob(c)
  <2> DEFINE row == [c.seen EXCEPT !.status = "queued", !.approved = TRUE, !.leasePhase = "none"]
  <2>1. /\ SaveProgram(p, row) /\ c.op # "request"
        /\ c.seen.status \in {"awaiting_approval", "needs_attention"}
    BY <1>0, <1>3 DEF ControlProgramJob, ProgramChecked, p
  <2>2. /\ row \in ProgramRow /\ row.application = c.seen.application
        /\ row.status = "queued" /\ row.chainBinding = c.seen.chainBinding
    BY <1>0 DEF ProgramRow, Status, Waiting, LeasePhase
  <2>3. ProgramKept(c.seen, row) /\ ProgramOutcome(row, final)
    BY <1>0, <2>1 DEF ProgramKept, ProgramOutcome, ProgramRow, Engaged, Closed
  <2> HIDE DEF row
  <2>4. ProgramKeepsEntry(StageOf(c.seen.status), StageOf(row.status), c.seen, row,
                          final, FALSE)
    BY <2>1, <2>2, Stages DEF ProgramKeepsEntry, Advances
  <2> QED BY <1>1, <2>1, <2>2, <2>3, <2>4 DEF Closed
<1>4. CASE ClaimProgramJob(c)
  <2> DEFINE row == [c.seen EXCEPT !.status = "running", !.lease = c.by, !.leasePhase = "live"]
  <2>1. SaveProgram(p, row) /\ c.op # "request" /\ c.seen.status = "queued"
    BY <1>0, <1>4 DEF ClaimProgramJob, ProgramChecked, p
  <2>2. /\ row \in ProgramRow /\ row.application = c.seen.application
        /\ row.status = "running" /\ row.chainBinding = c.seen.chainBinding
    BY <1>0 DEF ProgramRow, Status, Engaged, LeasePhase
  <2>3. ProgramKept(c.seen, row) /\ ProgramOutcome(row, final)
    BY <1>0, <2>1 DEF ProgramKept, ProgramOutcome, ProgramRow, Engaged, Closed
  <2> HIDE DEF row
  <2>4. ProgramKeepsEntry(StageOf(c.seen.status), StageOf(row.status), c.seen, row,
                          final, FALSE)
    BY <2>1, <2>2, Stages DEF ProgramKeepsEntry, Advances
  <2> QED BY <1>1, <2>1, <2>2, <2>3, <2>4 DEF Closed
<1>5. CASE ProgramHeartbeat(c)
  <2> DEFINE row == [c.seen EXCEPT !.leasePhase = "live"]
  <2>1. SaveProgram(p, row) /\ c.op # "request" /\ c.seen.status = "running"
    BY <1>0, <1>5 DEF ProgramHeartbeat, ProgramChecked, p
  <2>2. /\ row \in ProgramRow /\ row.application = c.seen.application
        /\ row.status = "running" /\ row.chainBinding = c.seen.chainBinding
    BY <1>0, <2>1 DEF ProgramRow, LeasePhase
  <2>3. ProgramKept(c.seen, row) /\ ProgramOutcome(row, final)
    BY <1>0, <2>1 DEF ProgramKept, ProgramOutcome, ProgramRow, Engaged, Closed
  <2> HIDE DEF row
  <2>4. ProgramKeepsEntry(StageOf(c.seen.status), StageOf(row.status), c.seen, row,
                          final, FALSE)
    BY <2>1, <2>2, Stages DEF ProgramKeepsEntry, Advances
  <2> QED BY <1>1, <2>1, <2>2, <2>3, <2>4 DEF Closed
<1>6. CASE ProgramSource(c)
  <2> DEFINE row == [c.seen EXCEPT !.chainBinding = TRUE]
  <2>1. SaveProgram(p, row) /\ c.op # "request" /\ c.seen.status = "running"
    BY <1>0, <1>6 DEF ProgramSource, ProgramChecked, p
  <2>2. /\ row \in ProgramRow /\ row.application = c.seen.application
        /\ row.status = "running" /\ row.chainBinding
    BY <1>0, <2>1 DEF ProgramRow
  <2>3. ProgramKept(c.seen, row) /\ ProgramOutcome(row, final)
    BY <1>0, <2>1 DEF ProgramKept, ProgramOutcome, ProgramRow, Engaged, Closed
  <2> HIDE DEF row
  <2>4. ProgramKeepsEntry(StageOf(c.seen.status), StageOf(row.status), c.seen, row,
                          final, FALSE)
    BY <2>1, <2>2, Stages DEF ProgramKeepsEntry, Advances
  <2> QED BY <1>1, <2>1, <2>2, <2>3, <2>4 DEF Closed
<1>7. CASE ProgramSubmitted(c)
  <2> DEFINE row == [c.seen EXCEPT !.status = "awaiting_verification", !.leasePhase = "none"]
  <2>1. /\ SaveProgram(p, row) /\ c.op # "request" /\ c.seen.status = "running"
        /\ c.seen.receipts /\ c.seen.chainBinding
    BY <1>0, <1>7 DEF ProgramSubmitted, ProgramChecked, ProgramSnap, p
  <2>2. /\ row \in ProgramRow /\ row.application = c.seen.application
        /\ row.status = "awaiting_verification" /\ row.chainBinding = c.seen.chainBinding
    BY <1>0 DEF ProgramRow, Status, Engaged, LeasePhase
  <2>3. ProgramKept(c.seen, row) /\ ProgramOutcome(row, final)
    BY <1>0, <2>1 DEF ProgramKept, ProgramOutcome, ProgramRow, Engaged, Closed
  <2> HIDE DEF row
  <2>4. ProgramKeepsEntry(StageOf(c.seen.status), StageOf(row.status), c.seen, row,
                          final, FALSE)
    BY <2>1, <2>2, Stages DEF ProgramKeepsEntry, Advances
  <2> QED BY <1>1, <2>1, <2>2, <2>3, <2>4 DEF Closed
<1>8. CASE CompleteProgramVerification(c)
  <2> DEFINE row == [c.seen EXCEPT !.status = "confirmed"]
  <2>1. /\ SaveProgram(p, row) /\ c.op # "request"
        /\ c.seen.status = "awaiting_verification" /\ final
        /\ c.seen.chainBinding
    BY <1>0, <1>8 DEF CompleteProgramVerification, ProgramChecked, ProgramSnap, p
  <2>2. /\ row \in ProgramRow /\ row.application = c.seen.application
        /\ row.status = "confirmed" /\ row.chainBinding = c.seen.chainBinding
    BY <1>0 DEF ProgramRow, Status
  <2>3. ProgramKept(c.seen, row) /\ ProgramOutcome(row, final)
    BY <1>0, <2>1 DEF ProgramKept, ProgramOutcome, ProgramRow, Engaged, Closed
  <2> HIDE DEF row
  <2>4. ProgramKeepsEntry(StageOf(c.seen.status), StageOf(row.status), c.seen, row,
                          final, FALSE)
    BY <2>1, <2>2, Stages DEF ProgramKeepsEntry, Advances
  <2> QED BY <1>1, <2>1, <2>2, <2>3, <2>4 DEF Closed
<1> QED BY <1>2, <1>3, <1>4, <1>5, <1>6, <1>7, <1>8 DEF ProgramFinish

\* Program jobs: time and the chain.
LEMMA ProgramWorldShape ==
  ASSUME IInv, ProgramOutcomeInv, NEW p \in ProgramJob, ProgramWorld(p)
  PROVE  ProgramShape
<1>0. programJobs[p] \in ProgramRow
  BY ProgramRowsAreTyped
<1>1. CASE RefreshProgramJob(p)
  <2>1. PICK status \in {"blocked", "needs_attention"} :
          /\ SaveProgram(p, [programJobs[p] EXCEPT !.status = status])
          /\ \/ status = "blocked" /\ programJobs[p].status \in Waiting
             \/ status = "needs_attention" /\ programJobs[p].status = "running"
    BY <1>1 DEF RefreshProgramJob, ProgramConsentEnded, ProgramLeaseEnded
  <2> DEFINE row == [programJobs[p] EXCEPT !.status = status]
  <2>2. /\ row \in ProgramRow /\ row.status = status
        /\ row.application = programJobs[p].application
        /\ row.chainBinding = programJobs[p].chainBinding
        /\ ProgramKept(programJobs[p], row)
    BY <1>0, <2>1 DEF ProgramRow, Status, Closed, Waiting, ProgramKept
  <2>3. SaveProgram(p, row)
    BY <2>1
  <2> HIDE DEF row
  <2> QED BY <2>1, <2>2, <2>3, ProgramPlainMove DEF OpenRow, Waiting, Closed
<1>2. CASE BeginProgramComplete(p)
  BY <1>2, ProgramBeginShape DEF BeginProgramComplete
<1>3. CASE ProgramExecutorSubmits(p) \/ ProgramConsentEnds(p)
  <2>1. ProgramElsewhere
    BY <1>3 DEF ProgramExecutorSubmits, ProgramConsentEnds, programVars, ProgramElsewhere
  <2> QED BY <2>1 DEF ProgramShape
<1>4. CASE ProgramLeaseRunsOut(p)
  BY <1>4 DEF ProgramShape
<1> QED BY <1>1, <1>2, <1>3, <1>4 DEF ProgramWorld

\* A step of an issued job leaves the program's rows as they are.
LEMMA IssuedStepKeepsProgram ==
  ASSUME NextIssued
  PROVE  UNCHANGED programJobs
BY DEF NextIssued, Visit, Administer, Poll, Execute, Finish, World,
       BeginRequest, CancelProofJob, BeginApprove, BeginResume, ResumeRevocation,
       NoteCredentialRevoked, RefreshProofJob, BeginRefuse, BeginComplete,
       BeginClaim, Heartbeat, Bind, BeginSource, Receipt, BeginSubmitted, Failed,
       RequestProofJob, ApproveProofJob, ResumeProofJob, ClaimProofJob, RefuseClaim,
       Source, Submitted, CompleteProofVerification, LeaseRunsOut, LeasePasses,
       ExecutorSubmits, ExecutorRevokes, ConsentEnds, Finalise, IssuerRevokes,
       RequestsGoStale, Save, Begin, Awaits, worldVars

\* Every step of a program job is a write, a read, the end of a lease, or elsewhere.
LEMMA ProgramStepShape ==
  ASSUME IInv, ProgramOutcomeInv, [Next]_vars
  PROVE  ProgramShape
<1>1. CASE NextIssued /\ UNCHANGED programVars
  BY <1>1, IssuedStepKeepsProgram DEF programVars, ProgramShape, ProgramElsewhere
<1>2. ASSUME NEW application \in Application, MaterialsGoStale(application)
      PROVE  ProgramShape
  BY <1>2 DEF MaterialsGoStale, ProgramShape, ProgramElsewhere
<1>3. CASE NextProgram
  BY <1>2, <1>3, ProgramVisitShape, ProgramExecuteShape, ProgramFinishShape,
     ProgramWorldShape DEF NextProgram
<1>4. CASE UNCHANGED vars
  BY <1>4 DEF vars, programVars, ProgramShape, ProgramElsewhere
<1> QED BY <1>1, <1>3, <1>4 DEF Next

-----------------------------------------------------------------------------
\* A write that is a ProgramMove keeps the outcome invariant.
LEMMA ProgramMovesKeeps ==
  ASSUME IInv, ProgramOutcomeInv, NEW p \in ProgramJob, NEW row \in ProgramRow,
         ProgramMoves(p, row)
  PROVE  ProgramOutcomeInv'
<1>1. /\ programJobs' = [programJobs EXCEPT ![p] = row]
      /\ programCalls' = {c \in programCalls : c.job # p}
      /\ UNCHANGED programChain
      /\ programJobs \in [ProgramJob -> ProgramRow] /\ programCalls \subseteq ProgramCall
  BY DEF ProgramMoves, SaveProgram, IInv, TypeOK, ProgramTypeOK
<1>2. \A q \in ProgramJob : programJobs'[q] = IF q = p THEN row ELSE programJobs[q]
  BY <1>1
<1>3. ProgramOutcome(row, p \in programChain)
  BY DEF ProgramMoves, ProgramMove
<1>4. ProgramOutcomesInv'
  BY <1>1, <1>2, <1>3 DEF ProgramOutcomeInv, ProgramOutcomesInv
<1>5. \A c \in programCalls' : c \in programCalls /\ c.job \in ProgramJob /\ c.job # p
  BY <1>1 DEF ProgramCall
<1>6. ProgramSnapsInv'
  BY <1>1, <1>2, <1>5 DEF ProgramOutcomeInv, ProgramSnapsInv
<1>7. ASSUME NEW x \in ProgramJob, x # p, OpenRow(programJobs[x]), OpenRow(row),
             programJobs[x].application = row.application
      PROVE  FALSE
  <2>1. \/ OpenRow(programJobs[p]) /\ row.application = programJobs[p].application
        \/ OpenProgramJobs(row.application) = {}
    BY <1>7 DEF ProgramMoves, ProgramMove
  <2>2. x \in OpenProgramJobs(row.application)
    BY <1>7 DEF OpenProgramJobs, OpenRow
  <2> QED BY <1>7, <2>1, <2>2 DEF ProgramOutcomeInv, OneOpenPair
<1>8. OneOpenPair'
  <2> SUFFICES ASSUME NEW i \in ProgramJob, NEW k \in ProgramJob, i # k,
                      OpenRow(programJobs'[i]), OpenRow(programJobs'[k]),
                      programJobs'[i].application = programJobs'[k].application
               PROVE  FALSE
    BY DEF OneOpenPair, OpenRow
  <2>1. CASE i # p /\ k # p
    BY <1>2, <2>1 DEF ProgramOutcomeInv, OneOpenPair
  <2>2. CASE i = p
    BY <1>2, <1>7, <2>2
  <2>3. CASE k = p
    BY <1>2, <1>7, <2>3
  <2> QED BY <2>1, <2>2, <2>3
<1> QED BY <1>4, <1>6, <1>8 DEF ProgramOutcomeInv

\* So does a read.
LEMMA ProgramBeginsKeeps ==
  ASSUME IInv, ProgramOutcomeInv, NEW new \in ProgramCall, ProgramBegins(new)
  PROVE  ProgramOutcomeInv'
<1>1. /\ programCalls' = programCalls \cup {new}
      /\ UNCHANGED <<programJobs, programChain>>
      /\ ProgramSnap(new, programJobs[new.job], new.job \in programChain)
  BY DEF ProgramBegins
<1>2. ProgramSnapsInv'
  BY <1>1 DEF ProgramOutcomeInv, ProgramSnapsInv
<1>3. ProgramOutcomesInv' /\ OneOpenPair'
  BY <1>1 DEF ProgramOutcomeInv, ProgramOutcomesInv, OneOpenPair, OpenRow
<1> QED BY <1>2, <1>3 DEF ProgramOutcomeInv

\* So does the end of a lease.
LEMMA ProgramLeaseKeeps ==
  ASSUME IInv, ProgramOutcomeInv, NEW p \in ProgramJob, ProgramLeaseRunsOut(p)
  PROVE  ProgramOutcomeInv'
<1>1. PICK phase \in {"due", "past"} : ProgramLeasePasses(p, phase)
  BY DEF ProgramLeaseRunsOut
<1>2. /\ UNCHANGED programChain
      /\ programJobs \in [ProgramJob -> ProgramRow] /\ programCalls \subseteq ProgramCall
  BY <1>1 DEF ProgramLeasePasses, IInv, TypeOK, ProgramTypeOK
<1> DEFINE passed(c) == IF c.job = p THEN [c EXCEPT !.seen.leasePhase = phase] ELSE c
<1>3. ASSUME NEW q \in ProgramJob
      PROVE  /\ programJobs'[q].status = programJobs[q].status
             /\ programJobs'[q].application = programJobs[q].application
             /\ programJobs'[q].approved = programJobs[q].approved
             /\ programJobs'[q].receipts = programJobs[q].receipts
             /\ programJobs'[q].chainBinding = programJobs[q].chainBinding
  BY <1>1, <1>2 DEF ProgramLeasePasses, ProgramRow
<1>4. ASSUME NEW c \in programCalls
      PROVE  /\ passed(c).job = c.job /\ passed(c).op = c.op /\ c.job \in ProgramJob
             /\ passed(c).seen.application = c.seen.application
             /\ passed(c).seen.receipts = c.seen.receipts
             /\ passed(c).seen.chainBinding = c.seen.chainBinding
  BY <1>2 DEF ProgramCall, ProgramRow
<1>5. programCalls' = {passed(c) : c \in programCalls}
  BY <1>1 DEF ProgramLeasePasses
<1> HIDE DEF passed
<1>6. ProgramOutcomesInv'
  BY <1>2, <1>3 DEF ProgramOutcomeInv, ProgramOutcomesInv, ProgramOutcome
<1>7. ProgramSnapsInv'
  <2> SUFFICES ASSUME NEW c \in programCalls
               PROVE  ProgramSnap(passed(c), programJobs'[passed(c).job],
                                  passed(c).job \in programChain)
    BY <1>2, <1>5 DEF ProgramSnapsInv
  <2>1. ProgramSnap(c, programJobs[c.job], c.job \in programChain)
    BY DEF ProgramOutcomeInv, ProgramSnapsInv
  <2> QED BY <1>3, <1>4, <2>1 DEF ProgramSnap
<1>8. OneOpenPair'
  BY <1>3 DEF ProgramOutcomeInv, OneOpenPair, OpenRow
<1> QED BY <1>6, <1>7, <1>8 DEF ProgramOutcomeInv

\* So does whatever leaves the rows alone.
LEMMA ProgramElsewhereKeeps ==
  ASSUME IInv, ProgramOutcomeInv, ProgramElsewhere
  PROVE  ProgramOutcomeInv'
<1>1. /\ UNCHANGED <<programJobs, programCalls>> /\ programChain \subseteq programChain'
  BY DEF ProgramElsewhere
<1>2. ProgramOutcomesInv'
  BY <1>1 DEF ProgramOutcomeInv, ProgramOutcomesInv, ProgramOutcome
<1>3. ProgramSnapsInv'
  BY <1>1 DEF ProgramOutcomeInv, ProgramSnapsInv, ProgramSnap
<1>4. OneOpenPair'
  BY <1>1 DEF ProgramOutcomeInv, OneOpenPair, OpenRow
<1> QED BY <1>2, <1>3, <1>4 DEF ProgramOutcomeInv

\* What program jobs and their handlers know is so, and one job of an application
\* is open.
THEOREM ProgramOutcomes == Spec => []ProgramOutcomeInv
<1>1. Init => ProgramOutcomeInv
  <2> SUFFICES ASSUME Init PROVE ProgramOutcomeInv
    OBVIOUS
  <2>1. programCalls = {} /\ \A p \in ProgramJob : programJobs[p].status = "absent"
    BY DEF Init, InitProgram, AbsentProgram
  <2> QED BY <2>1 DEF ProgramOutcomeInv, ProgramSnapsInv, ProgramOutcomesInv, ProgramOutcome,
                      OneOpenPair, OpenRow, Engaged
<1>2. IInv /\ ProgramOutcomeInv /\ [Next]_vars => ProgramOutcomeInv'
  BY ProgramStepShape, ProgramMovesKeeps, ProgramBeginsKeeps, ProgramLeaseKeeps,
     ProgramElsewhereKeeps DEF ProgramShape
<1> QED BY <1>1, <1>2, Invariance, PTL DEF Spec

\* Of the jobs for one application one is open, however many requests pass the
\* first look at the table together.
THEOREM OneOpenProgramJob == Spec => []OneOpenJobPerApplication
<1>1. ProgramOutcomeInv => OneOpenJobPerApplication
  <2> SUFFICES ASSUME ProgramOutcomeInv, NEW application \in Application
               PROVE  Cardinality(OpenProgramJobs(application)) <= 1
    BY DEF OneOpenJobPerApplication
  <2>1. CASE OpenProgramJobs(application) = {}
    BY <2>1, FS_EmptySet
  <2>2. ASSUME NEW p \in OpenProgramJobs(application)
        PROVE  Cardinality(OpenProgramJobs(application)) <= 1
    <3>1. OpenProgramJobs(application) = {p}
      BY <2>2 DEF OpenProgramJobs, ProgramOutcomeInv, OneOpenPair, OpenRow
    <3> QED BY <3>1, FS_Singleton
  <2> QED BY <2>1, <2>2
<1> QED BY <1>1, ProgramOutcomes, PTL

\* A confirmed program job was approved, filed its receipts, and its transactions
\* are final on its contract.
THEOREM ProgramConfirmedHolds == Spec => []ProgramConfirmedIsOnChain
<1>1. ProgramOutcomeInv => ProgramConfirmedIsOnChain
  BY DEF ProgramOutcomeInv, ProgramOutcomesInv, ProgramOutcome, ProgramConfirmedIsOnChain
<1> QED BY <1>1, ProgramOutcomes, PTL

\* No late write undoes what a program job recorded, and a closed or confirmed one
\* is not reopened.
THEOREM ProgramRecordsKept == Spec => ProgramRecordsStay
<1>1. IInv /\ ProgramOutcomeInv /\ [Next]_vars =>
        \A k \in ProgramJob : ProgramKept(programJobs[k], programJobs'[k])
  <2> SUFFICES ASSUME IInv, ProgramOutcomeInv, [Next]_vars, NEW k \in ProgramJob
               PROVE  ProgramKept(programJobs[k], programJobs'[k])
    OBVIOUS
  <2>0. programJobs \in [ProgramJob -> ProgramRow]
    BY DEF IInv, TypeOK, ProgramTypeOK
  <2>1. ASSUME NEW p \in ProgramJob, NEW row \in ProgramRow, ProgramMoves(p, row)
        PROVE  ProgramKept(programJobs[k], programJobs'[k])
    <3>1. ProgramKept(programJobs[p], row)
      BY <2>1 DEF ProgramMoves, ProgramMove
    <3>2. programJobs'[k] = IF k = p THEN row ELSE programJobs[k]
      BY <2>0, <2>1 DEF ProgramMoves, SaveProgram
    <3> QED BY <3>1, <3>2 DEF ProgramKept
  <2>2. ASSUME NEW p \in ProgramJob, ProgramLeaseRunsOut(p)
        PROVE  ProgramKept(programJobs[k], programJobs'[k])
    BY <2>0, <2>2 DEF ProgramLeaseRunsOut, ProgramLeasePasses, ProgramRow, ProgramKept
  <2>3. ASSUME UNCHANGED programJobs
        PROVE  ProgramKept(programJobs[k], programJobs'[k])
    BY <2>3 DEF ProgramKept
  <2> QED BY <2>1, <2>2, <2>3, ProgramStepShape
          DEF ProgramShape, ProgramBegins, ProgramElsewhere
<1>2. IInv /\ ProgramOutcomeInv /\ [Next]_vars =>
        [\A p \in ProgramJob :
           /\ programJobs[p].approved => programJobs'[p].approved
           /\ programJobs[p].target # NoProgramValue =>
                programJobs'[p].target = programJobs[p].target
           /\ programJobs[p].chainBinding => programJobs'[p].chainBinding
           /\ programJobs[p].receipts => programJobs'[p].receipts
           /\ programJobs[p].status \in Closed \cup {"confirmed"} =>
                programJobs'[p].status = programJobs[p].status]_programJobs
  BY <1>1 DEF ProgramKept
<1> QED BY <1>2, Invariance, ProgramOutcomes, PTL DEF Spec, ProgramRecordsStay
-----------------------------------------------------------------------------
(***************************************************************************)
(* The rows of program jobs keep their ledger.                             *)
(***************************************************************************)

ProgramStages   == [p \in ProgramJob |-> StageOf(programJobs[p].status)]
ProgramSubjects == [p \in ProgramJob |-> programJobs[p].application]
ProgramSourced  == {p \in ProgramJob : programJobs[p].chainBinding}

\* A write of a handler is one step of the ledger, or none.
LEMMA ProgramMoveServes ==
  ASSUME IInv, ProgramOutcomeInv, NEW p \in ProgramJob, NEW row \in ProgramRow,
         ProgramMoves(p, row)
  PROVE  ProgramLedger!NextLedger \/ UNCHANGED ProgramLedger!ledgerVars
<1> DEFINE from == StageOf(programJobs[p].status)
           to == StageOf(row.status)
<1>0. /\ programJobs \in [ProgramJob -> ProgramRow]
      /\ programJobs' = [programJobs EXCEPT ![p] = row] /\ UNCHANGED programChain
      /\ ProgramKeepsEntry(from, to, programJobs[p], row, p \in programChain,
                           OpenProgramJobs(row.application) = {})
  BY DEF ProgramMoves, ProgramMove, SaveProgram, IInv, TypeOK, ProgramTypeOK
<1>1. ProgramStages' = [ProgramStages EXCEPT ![p] = to]
  BY <1>0 DEF ProgramStages
<1>2. row.application = programJobs[p].application => ProgramSubjects' = ProgramSubjects
  BY <1>0 DEF ProgramSubjects
<1>3. row.chainBinding = programJobs[p].chainBinding => ProgramSourced' = ProgramSourced
  BY <1>0 DEF ProgramSourced
<1>5. /\ ProgramStages[p] = from
      /\ programJobs[p].chainBinding => p \in ProgramSourced
  BY DEF ProgramStages, ProgramSourced
<1> HIDE DEF from, to
<1>6. CASE /\ from = "none" /\ to \in {"asked", "queued"}
           /\ OpenProgramJobs(row.application) = {}
           /\ row.application \in Application
           /\ row.chainBinding = programJobs[p].chainBinding
  <2>1. ProgramSubjects' = [ProgramSubjects EXCEPT ![p] = row.application]
    BY <1>0 DEF ProgramSubjects
  <2>2. ASSUME NEW q \in ProgramJob, ProgramSubjects[q] = row.application
        PROVE  ProgramStages[q] \notin ProgramLedger!Open
    <3>1. programJobs[q].status \in Closed \cup {"absent"}
      BY <1>6, <2>2 DEF ProgramSubjects, OpenProgramJobs
    <3> QED BY <3>1, Stages DEF ProgramStages, ProgramLedger!Open, Closed
  <2>3. ProgramLedger!Request(p, row.application)
    BY <1>0, <1>1, <1>3, <1>5, <1>6, <2>1, <2>2
       DEF ProgramLedger!Request, ProgramLedger!worldVars, ProgramStages,
           ProgramSubjects, ProgramSourced
  <2> QED BY <1>6, <2>3 DEF ProgramLedger!NextLedger, ProgramLedger!Serve
<1>7. CASE /\ from = "running" /\ to = "running" /\ row.chainBinding
           /\ row.application = programJobs[p].application
  <2>1. ProgramSourced' = ProgramSourced \cup {p}
    BY <1>0, <1>7 DEF ProgramSourced
  <2>2. ProgramStages' = ProgramStages
    BY <1>1, <1>5, <1>7 DEF ProgramStages
  <2>3. ProgramLedger!Record(p)
    BY <1>0, <1>2, <1>5, <1>7, <2>1, <2>2
       DEF ProgramLedger!Record, ProgramLedger!worldVars, ProgramStages,
           ProgramSubjects, ProgramSourced
  <2> QED BY <2>3 DEF ProgramLedger!NextLedger, ProgramLedger!Serve
<1>8. CASE /\ row.application = programJobs[p].application
           /\ row.chainBinding = programJobs[p].chainBinding
           /\ to = from
  <2>1. ProgramStages' = ProgramStages
    BY <1>1, <1>5, <1>8 DEF ProgramStages
  <2> QED BY <1>0, <1>2, <1>3, <1>8, <2>1
          DEF ProgramLedger!ledgerVars, ProgramStages, ProgramSubjects, ProgramSourced
<1>9. CASE /\ row.application = programJobs[p].application
           /\ row.chainBinding = programJobs[p].chainBinding
           /\ Advances(from, to, row.chainBinding, p \in programChain, FALSE, FALSE)
  <2>1. ASSUME NEW set, from \in set PROVE ProgramLedger!Goes(p, set, to)
    BY <1>0, <1>1, <1>2, <1>3, <1>5, <1>9, <2>1
       DEF ProgramLedger!Goes, ProgramLedger!worldVars, ProgramStages,
           ProgramSubjects, ProgramSourced
  <2>3. \/ from = "asked" /\ to = "queued" /\ ProgramLedger!Approve(p)
        \/ from \in {"asked", "queued"} /\ to = "closed" /\ ProgramLedger!Close(p)
        \/ from = "queued" /\ to = "running" /\ ProgramLedger!Claim(p)
        \/ from = "running" /\ to = "interrupted" /\ ProgramLedger!Interrupt(p)
        \/ from = "running" /\ to = "submitted" /\ ProgramLedger!Submit(p)
        \/ from = "interrupted" /\ to = "queued" /\ ProgramLedger!Resume(p)
        \/ from = "submitted" /\ to = "confirmed" /\ ProgramLedger!Confirm(p)
    BY <1>5, <1>9, <2>1
       DEF Advances, ProgramLedger!Approve, ProgramLedger!Close, ProgramLedger!Claim,
           ProgramLedger!Interrupt, ProgramLedger!Submit, ProgramLedger!Resume,
           ProgramLedger!Confirm, ProgramSourced
  <2> QED BY <2>3 DEF ProgramLedger!NextLedger, ProgramLedger!Serve
<1> QED BY <1>0, <1>6, <1>7, <1>8, <1>9 DEF ProgramKeepsEntry

\* What happens elsewhere, to the chain or the consents, is a step of the ledger or none.
LEMMA ProgramElsewhereServes ==
  ASSUME IInv, ProgramOutcomeInv, ProgramElsewhere
  PROVE  ProgramLedger!NextLedger \/ UNCHANGED ProgramLedger!ledgerVars
<1>0. UNCHANGED <<ProgramStages, ProgramSubjects, ProgramSourced>>
  BY DEF ProgramElsewhere, ProgramStages, ProgramSubjects, ProgramSourced
<1>1. CASE UNCHANGED programChain
  BY <1>0, <1>1 DEF ProgramLedger!ledgerVars, ProgramStages, ProgramSubjects, ProgramSourced
<1>2. ASSUME NEW p \in ProgramJob, ProgramExecutorSubmits(p)
      PROVE  ProgramLedger!NextLedger
  <2>1. p \in ProgramSourced /\ programChain' = programChain \cup {p}
    BY <1>2 DEF ProgramExecutorSubmits, ProgramSourced
  <2>2. ProgramLedger!Prove(p)
    BY <1>0, <2>1 DEF ProgramLedger!Prove, ProgramStages, ProgramSubjects, ProgramSourced
  <2> QED BY <2>2 DEF ProgramLedger!NextLedger
<1> QED BY <1>1, <1>2 DEF ProgramElsewhere

\* What leaves the rows and the chain alone leaves the ledger as it is.
LEMMA ProgramQuietServes ==
  ASSUME IInv, ProgramOutcomeInv,
         \/ \E new \in ProgramCall : ProgramBegins(new)
         \/ \E p \in ProgramJob : ProgramLeaseRunsOut(p)
  PROVE  UNCHANGED ProgramLedger!ledgerVars
<1>1. UNCHANGED programChain
  BY DEF ProgramBegins, ProgramLeaseRunsOut, ProgramLeasePasses
<1>2. ASSUME NEW q \in ProgramJob
      PROVE  /\ programJobs'[q].status = programJobs[q].status
             /\ programJobs'[q].application = programJobs[q].application
             /\ programJobs'[q].chainBinding = programJobs[q].chainBinding
  <2>0. programJobs \in [ProgramJob -> ProgramRow]
    BY DEF IInv, TypeOK, ProgramTypeOK
  <2> QED BY <2>0 DEF ProgramBegins, ProgramLeaseRunsOut, ProgramLeasePasses, ProgramRow
<1>3. UNCHANGED <<ProgramStages, ProgramSubjects, ProgramSourced>>
  BY <1>2 DEF ProgramStages, ProgramSubjects, ProgramSourced
<1> QED BY <1>1, <1>3
        DEF ProgramLedger!ledgerVars, ProgramStages, ProgramSubjects, ProgramSourced

\* The table of program jobs changes as a ledger as well: its code leaves out no
\* check that the ledger's order of approval, claim, recorded source, submission
\* and verification rests on.
THEOREM ProgramJobsKept == Spec => ProgramJobsKeepLedger
<1>1. Init => ProgramLedger!InitLedger
  BY Stages DEF Init, InitProgram, AbsentProgram, ProgramLedger!InitLedger
<1>2. IInv /\ ProgramOutcomeInv /\ [Next]_vars =>
        [ProgramLedger!NextLedger]_(ProgramLedger!ledgerVars)
  BY ProgramStepShape, ProgramMoveServes, ProgramElsewhereServes, ProgramQuietServes
     DEF ProgramShape
<1> QED BY <1>1, <1>2, Invariance, ProgramOutcomes, PTL
        DEF Spec, ProgramJobsKeepLedger, ProgramLedger!LedgerSpec
=============================================================================
