------------------------- MODULE ProofPlatformProofs -------------------------
(***************************************************************************)
(* What is proved of ProofPlatform for every number of jobs, executors,    *)
(* credentials and contracts.  The safety of the rows rests on one fact    *)
(* about the calls in flight: a snapshot that can still be written equals  *)
(* the row it was taken of (the UPDATE's WHERE revision=?).  With it every *)
(* write is a function of the present row, and RowInv is preserved by each *)
(* of those functions on its own.                                          *)
(***************************************************************************)
EXTENDS ProofPlatform, TLAPS, FiniteSetTheorems

\* What holds of every row between any two handlers.
RowInv(row) ==
  /\ \/ row.status \in Engaged \cup {"queued", "needs_attention", "confirmed"}
     \/ row.target # None
     \/ row.leasePhase # "none"
     => row.approved
  /\ row.leasePhase # "none" => row.status \in {"running", "blocked", "needs_attention"}
  /\ row.leasePhase \in {"live", "due"} => row.status # "needs_attention"
  /\ row.revocation = "pending" =>
       row.target # None
         /\ row.status \notin {"awaiting_approval", "running", "confirmed"}
  /\ row.revocation = "confirmed" => row.status = "blocked" /\ row.leasePhase = "none"
  /\ row.status = "absent" =>
       row.target = None /\ row.revocation = "none" /\ ~row.approved

\* The fields every handler copies from its snapshot.
SameRecord(r, s) ==
  /\ r.status = s.status
  /\ r.approved = s.approved
  /\ r.revocation = s.revocation
  /\ r.target = s.target
  /\ r.chainBinding = s.chainBinding
  /\ r.receipts = s.receipts
  /\ r.leasePhase = s.leasePhase

\* What the first half of a handler established of its snapshot.
Checked(c) ==
  /\ c.op = "request"   => c.seen.status = "absent"
  /\ c.op = "approve"   => c.seen.status = "awaiting_approval"
  /\ c.op = "resume"    => c.seen.status = "needs_attention"
                             /\ c.seen.approved /\ c.seen.revocation = "none"
  /\ c.op = "claim"     => \/ Revoking(c.seen)
                           \/ c.seen.status = "queued" /\ c.seen.revocation = "none"
  /\ c.op = "refuse"    => c.seen.status = "queued" /\ c.seen.revocation = "none"
  /\ c.op = "source"    => c.seen.status = "running"
  /\ c.op = "submitted" => /\ c.seen.target # None
                           /\ c.seen.revocation = "pending" \/ c.seen.status = "running"
                           /\ c.seen.revocation # "confirmed"
  /\ c.op = "complete"  => c.seen.status = "awaiting_verification"

RowsInv == \A j \in Job : RowInv(jobs[j])

CallsInv == \A c \in calls : SameRecord(c.seen, jobs[c.job]) /\ Checked(c)

\* An executor goes on with a blocked job only when the issuer's revocation is
\* what blocked it.
BlockedByIssuer ==
  \A j \in Job :
    /\ jobs[j].status = "blocked" /\ jobs[j].revocation = "none"
    /\ jobs[j].leasePhase \in {"live", "due"}
    => jobs[j].credential \in revoked

\* The same two facts about the snapshots of program jobs.
SameProgramRecord(r, s) ==
  /\ r.status = s.status
  /\ r.approved = s.approved
  /\ r.target = s.target
  /\ r.chainBinding = s.chainBinding
  /\ r.receipts = s.receipts

ProgramChecked(c) ==
  /\ c.op = "request"  => c.seen.status = "absent"
  /\ c.op = "approve"  => c.seen.status = "awaiting_approval"
  /\ c.op = "resume"   => c.seen.status = "needs_attention"
  /\ c.op = "claim"    => c.seen.status = "queued"
  /\ c.op \in {"heartbeat", "source", "submitted"} => c.seen.status = "running"
  /\ c.op = "complete" => c.seen.status = "awaiting_verification"

ProgramCallsInv ==
  \A c \in programCalls :
    SameProgramRecord(c.seen, programJobs[c.job]) /\ ProgramChecked(c)

ProgramRowsInv ==
  \A p \in ProgramJob :
    programJobs[p].status = "absent" =>
      ~programJobs[p].approved /\ programJobs[p].target = NoProgramValue

IssuedInv  == RowsInv /\ CallsInv /\ BlockedByIssuer
ProgramInv == ProgramRowsInv /\ ProgramCallsInv

IInv == TypeOK /\ IssuedInv /\ ProgramInv

-----------------------------------------------------------------------------
(***************************************************************************)
(* The three shapes of a step of an issued-credential job.                 *)
(***************************************************************************)

\* A write keeps the invariant when the new row does: the snapshots that would
\* be left behind are dropped.
LEMMA SaveKeeps ==
  ASSUME IInv, NEW j \in Job, NEW row \in Row, RowInv(row), Save(j, row),
         UNCHANGED programVars,
         /\ row.status = "blocked" /\ row.revocation = "none"
         /\ row.leasePhase \in {"live", "due"}
         => row.credential \in revoked
  PROVE  IInv'
<1>1. TypeOK'
  BY DEF IInv, TypeOK, IssuedTypeOK, ProgramTypeOK, Save, worldVars, programVars
<1>2. RowsInv'
  BY DEF IInv, IssuedInv, TypeOK, IssuedTypeOK, RowsInv, RowInv, Save
<1>3. CallsInv'
  BY DEF IInv, IssuedInv, TypeOK, IssuedTypeOK, CallsInv, SameRecord, Checked, Save, Revoking, Call
<1>4. BlockedByIssuer'
  BY DEF IInv, IssuedInv, TypeOK, IssuedTypeOK, BlockedByIssuer, Save, worldVars
<1>5. ProgramInv'
  BY DEF IInv, ProgramInv, ProgramRowsInv, ProgramCallsInv, SameProgramRecord,
         ProgramChecked, Save, programVars
<1> QED BY <1>1, <1>2, <1>3, <1>4, <1>5 DEF IInv, IssuedInv

\* The first half of a handler keeps it when its snapshot is of the row.
LEMMA AwaitsKeeps ==
  ASSUME IInv, NEW j \in Job, NEW op, NEW w, NEW row,
         [op |-> op, job |-> j, by |-> w, seen |-> row] \in Call,
         SameRecord(row, jobs[j]),
         Checked([op |-> op, job |-> j, by |-> w, seen |-> row]),
         Awaits(op, j, w, row), IssuerAnswers \/ IssuerSilent,
         UNCHANGED programVars
  PROVE  IInv'
<1> DEFINE new == [op |-> op, job |-> j, by |-> w, seen |-> row]
<1>1. /\ calls' = calls \cup {new}
      /\ UNCHANGED <<jobs, worldVars, programJobs, expired>>
  BY DEF Awaits
<1>2. new.job = j /\ new.seen = row
  OBVIOUS
<1>3. outages' \in 0..MaxOutages
  BY ProofJobsAssumption
     DEF IssuerAnswers, IssuerSilent, IInv, TypeOK, IssuedTypeOK
<1>4. TypeOK'
  BY <1>1, <1>3 DEF IInv, TypeOK, IssuedTypeOK, ProgramTypeOK, worldVars, programVars
<1>5. RowsInv' /\ BlockedByIssuer'
  BY <1>1 DEF IInv, IssuedInv, RowsInv, RowInv, BlockedByIssuer, worldVars
<1>6. CallsInv'
  <2> SUFFICES ASSUME NEW c \in calls \cup {new}
               PROVE  SameRecord(c.seen, jobs[c.job]) /\ Checked(c)
    BY <1>1 DEF CallsInv, SameRecord, Checked, Revoking
  <2>1. CASE c \in calls
    BY <2>1 DEF IInv, IssuedInv, CallsInv
  <2>2. CASE c = new
    BY <2>2, <1>2
  <2> QED BY <2>1, <2>2
<1>7. ProgramInv'
  BY <1>1 DEF IInv, ProgramInv, ProgramRowsInv, ProgramCallsInv, SameProgramRecord,
              ProgramChecked, programVars
<1> QED BY <1>4, <1>5, <1>6, <1>7 DEF IInv, IssuedInv

\* The snapshots and the rows of a state of the invariant.
LEMMA RowsAreTyped ==
  ASSUME IInv, NEW j \in Job
  PROVE  jobs[j] \in Row /\ RowInv(jobs[j])
BY DEF IInv, IssuedInv, TypeOK, IssuedTypeOK, RowsInv

\* What a handler has read of an issued job is a row.
LEMMA SnapshotsAreTyped ==
  ASSUME IInv, NEW c \in calls
  PROVE  /\ c.job \in Job /\ c.seen \in Row /\ c.by \in Worker \cup {None}
         /\ RowInv(c.seen) /\ SameRecord(c.seen, jobs[c.job]) /\ Checked(c)
<1>1. c.job \in Job /\ c.seen \in Row /\ c.by \in Worker \cup {None}
  BY DEF IInv, TypeOK, IssuedTypeOK, Call
<1>2. SameRecord(c.seen, jobs[c.job]) /\ Checked(c)
  BY DEF IInv, IssuedInv, CallsInv
<1>3. RowInv(c.seen)
  BY <1>1, <1>2, RowsAreTyped DEF RowInv, SameRecord
<1> QED BY <1>1, <1>2, <1>3

-----------------------------------------------------------------------------
(***************************************************************************)
(* The handlers.                                                           *)
(***************************************************************************)

\* The visitor's handlers keep the invariant.
LEMMA VisitKeeps ==
  ASSUME IInv, NEW j \in Job, Visit(j), UNCHANGED programVars
  PROVE  IInv'
<1> USE RowsAreTyped DEF Row, Status, Waiting, Engaged, Closed, LeasePhase
<1>1. ASSUME NEW credential \in Credential, BeginRequest(j, credential)
      PROVE  IInv'
  <2> DEFINE row == [jobs[j] EXCEPT !.credential = credential]
  <2>1. row \in Row /\ SameRecord(row, jobs[j])
    BY DEF SameRecord
  <2>2. Checked([op |-> "request", job |-> j, by |-> None, seen |-> row])
    BY <1>1 DEF BeginRequest, Checked
  <2> QED BY <1>1, <2>1, <2>2, AwaitsKeeps DEF BeginRequest, Begin, Call
<1>2. ASSUME CancelProofJob(j)
      PROVE  IInv'
  <2> DEFINE row == [jobs[j] EXCEPT !.status = "cancelled"]
  <2>1. row \in Row /\ RowInv(row)
    BY <1>2 DEF CancelProofJob, RowInv
  <2> QED BY <1>2, <2>1, SaveKeeps DEF CancelProofJob
<1> QED BY <1>1, <1>2 DEF Visit

\* The administrator's handlers keep it.
LEMMA AdministerKeeps ==
  ASSUME IInv, NEW j \in Job, Administer(j), UNCHANGED programVars
  PROVE  IInv'
<1> USE RowsAreTyped DEF Row, Status, Waiting, Engaged, Closed, LeasePhase
<1>1. CASE BeginApprove(j)
  <2>1. Checked([op |-> "approve", job |-> j, by |-> None, seen |-> jobs[j]])
    BY <1>1 DEF BeginApprove, Checked
  <2> QED BY <1>1, <2>1, AwaitsKeeps DEF BeginApprove, Begin, Call, SameRecord
<1>2. CASE BeginResume(j)
  <2>1. Checked([op |-> "resume", job |-> j, by |-> None, seen |-> jobs[j]])
    BY <1>2 DEF BeginResume, Checked
  <2> QED BY <1>2, <2>1, AwaitsKeeps DEF BeginResume, Begin, Call, SameRecord
<1>3. CASE ResumeRevocation(j)
  <2>1. Resumed(jobs[j]) \in Row /\ RowInv(Resumed(jobs[j]))
    BY <1>3 DEF ResumeRevocation, Resumed, RowInv
  <2> QED BY <1>3, <2>1, SaveKeeps DEF ResumeRevocation, Resumed
<1> QED BY <1>1, <1>2, <1>3 DEF Administer

\* The executor asks for a job.
LEMMA PollKeeps ==
  ASSUME IInv, NEW j \in Job, Poll(j), UNCHANGED programVars
  PROVE  IInv'
<1> USE RowsAreTyped DEF Row, Status, Waiting, Engaged, Closed, LeasePhase
<1>1. CASE NoteCredentialRevoked(j)
  <2>1. Noted(jobs[j]) \in Row /\ RowInv(Noted(jobs[j]))
    <3> DEFINE revocation == IF jobs[j].target = None THEN "none" ELSE "pending"
               status == IF jobs[j].status = "cancelled" THEN "cancelled" ELSE "blocked"
               row == [jobs[j] EXCEPT !.revocation = revocation, !.status = status]
    <3>1. revocation \in {"none", "pending"} /\ status \in Closed
            /\ (revocation = "pending" => jobs[j].target # None)
            /\ (status = "cancelled" => jobs[j].status = "cancelled")
      OBVIOUS
    <3>2. Noted(jobs[j]) = row
      BY DEF Noted
    <3> HIDE DEF revocation, status
    <3>3. row \in Row
      BY <3>1
    <3>4. RowInv(row)
      BY <3>1 DEF RowInv
    <3> QED BY <3>2, <3>3, <3>4
  <2>2. Noted(jobs[j]).credential \in revoked
    BY <1>1 DEF NoteCredentialRevoked, Noted
  <2> QED BY <1>1, <2>1, <2>2, SaveKeeps DEF NoteCredentialRevoked
<1>2. CASE RefreshProofJob(j)
  <2>1. CASE LeaseEnded(jobs[j]) /\ Save(j, [jobs[j] EXCEPT !.status = "needs_attention"])
    <3> DEFINE row == [jobs[j] EXCEPT !.status = "needs_attention"]
    <3>1. row \in Row /\ RowInv(row)
      BY <2>1 DEF LeaseEnded, RowInv
    <3> QED BY <2>1, <3>1, SaveKeeps
  <2>2. CASE ConsentEnded(j, jobs[j]) /\ Save(j, [jobs[j] EXCEPT !.status = "blocked"])
    <3> DEFINE row == [jobs[j] EXCEPT !.status = "blocked"]
    <3>1. row \in Row /\ RowInv(row) /\ row.leasePhase = "none"
      BY <2>2 DEF ConsentEnded, RowInv
    <3> QED BY <2>2, <3>1, SaveKeeps
  <2> QED BY <1>2, <2>1, <2>2 DEF RefreshProofJob
<1>3. CASE BeginRefuse(j)
  <2> SUFFICES ASSUME NEW row \in {jobs[j], Unknown(jobs[j])},
                      Awaits("refuse", j, None, row),
                      IssuerAnswers \/ IssuerSilent
               PROVE  IInv'
    BY <1>3 DEF BeginRefuse
  <2>1. row \in Row /\ SameRecord(row, jobs[j])
    BY DEF Unknown, SameRecord
  <2>2. jobs[j].status = "queued" /\ jobs[j].revocation = "none"
    BY <1>3 DEF BeginRefuse, Claimable, Revoking, RowInv
  <2>3. Checked([op |-> "refuse", job |-> j, by |-> None, seen |-> row])
    BY <2>1, <2>2 DEF Checked, SameRecord
  <2> QED BY <2>1, <2>3, AwaitsKeeps DEF Call
<1>4. CASE BeginComplete(j)
  <2>1. Checked([op |-> "complete", job |-> j, by |-> None, seen |-> jobs[j]])
    BY <1>4 DEF BeginComplete, Checked
  <2> QED BY <1>4, <2>1, AwaitsKeeps DEF BeginComplete, Begin, Call, SameRecord
<1> QED BY <1>1, <1>2, <1>3, <1>4 DEF Poll

\* The commands of an executor keep it.
LEMMA ExecuteKeeps ==
  ASSUME IInv, NEW w \in Worker, NEW j \in Job, Execute(w, j), UNCHANGED programVars
  PROVE  IInv'
<1> USE RowsAreTyped DEF Row, Status, Waiting, Engaged, Closed, LeasePhase
<1>0. BlockedByIssuer
  BY DEF IInv, IssuedInv
<1>1. CASE BeginClaim(w, j)
  <2> SUFFICES ASSUME NEW row \in {jobs[j], Unknown(jobs[j])},
                      Awaits("claim", j, w, row),
                      IssuerAnswers \/ IssuerSilent
               PROVE  IInv'
    BY <1>1 DEF BeginClaim
  <2>1. row \in Row /\ SameRecord(row, jobs[j])
    BY DEF Unknown, SameRecord
  <2>2. \/ Revoking(jobs[j])
        \/ jobs[j].status = "queued" /\ jobs[j].revocation = "none"
    BY <1>1 DEF BeginClaim, Claimable, Revoking, RowInv
  <2>3. Checked([op |-> "claim", job |-> j, by |-> w, seen |-> row])
    BY <2>1, <2>2 DEF Checked, SameRecord, Revoking
  <2> QED BY <2>1, <2>3, AwaitsKeeps DEF Call
<1>2. CASE Heartbeat(w, j)
  <2> DEFINE row == [jobs[j] EXCEPT !.leasePhase = "live"]
  <2>1. row \in Row /\ RowInv(row)
    BY <1>2 DEF Heartbeat, RequireLease, RowInv
  <2> QED BY <1>0, <1>2, <2>1, SaveKeeps
          DEF Heartbeat, RequireLease, BlockedByIssuer
<1>3. ASSUME NEW target \in Target, Bind(w, j, target)
      PROVE  IInv'
  <2> DEFINE row == [jobs[j] EXCEPT !.target = target]
  <2>1. row \in Row /\ RowInv(row)
    BY <1>3, ProofJobsAssumption DEF Bind, RequireLease, RowInv
  <2> QED BY <1>0, <1>3, <2>1, SaveKeeps DEF Bind, BlockedByIssuer
<1>4. CASE BeginSource(w, j)
  <2>1. Checked([op |-> "source", job |-> j, by |-> w, seen |-> jobs[j]])
    BY <1>4 DEF BeginSource, Checked
  <2> QED BY <1>4, <2>1, AwaitsKeeps DEF BeginSource, Begin, Call, SameRecord
<1>5. ASSUME NEW op \in ChainOp, Receipt(w, j, op)
      PROVE  IInv'
  <2> DEFINE row == [jobs[j] EXCEPT !.receipts = @ \cup {op}]
  <2>1. row \in Row /\ RowInv(row)
    BY <1>5 DEF RowInv
  <2> QED BY <1>0, <1>5, <2>1, SaveKeeps DEF Receipt, BlockedByIssuer
<1>6. CASE BeginSubmitted(w, j)
  <2>1. jobs[j].revocation = "pending" \/ jobs[j].status = "running"
    BY <1>0, <1>6 DEF BeginSubmitted, RequireLease, Current, BlockedByIssuer, RowInv
  <2>2. Checked([op |-> "submitted", job |-> j, by |-> w, seen |-> jobs[j]])
    BY <1>6, <2>1 DEF BeginSubmitted, RequireLease, Checked, RowInv
  <2> QED BY <1>6, <2>2, AwaitsKeeps DEF BeginSubmitted, Begin, Call, SameRecord
<1>7. CASE Failed(w, j)
  <2> DEFINE row == [jobs[j] EXCEPT !.status = "needs_attention", !.leasePhase = "none"]
  <2>1. row \in Row /\ RowInv(row)
    BY <1>7 DEF Failed, RequireLease, RowInv
  <2> QED BY <1>7, <2>1, SaveKeeps DEF Failed
<1> QED BY <1>1, <1>2, <1>3, <1>4, <1>5, <1>6, <1>7 DEF Execute

\* The writes keep it.
LEMMA FinishKeeps ==
  ASSUME IInv, NEW c \in calls, Finish(c), UNCHANGED programVars
  PROVE  IInv'
<1> USE SnapshotsAreTyped DEF Row, Status, Waiting, Engaged, Closed, LeasePhase
<1>1. ASSUME NEW mode \in Mode, RequestProofJob(c, mode)
      PROVE  IInv'
  <2> DEFINE auto == mode = "automatic"
             row  == [c.seen EXCEPT
                        !.status = IF auto THEN "queued" ELSE "awaiting_approval",
                        !.approved = auto]
  <2>1. auto \in BOOLEAN
    OBVIOUS
  <2>2. Save(c.job, row)
    BY <1>1 DEF RequestProofJob
  <2> HIDE DEF auto
  <2>3. row \in Row /\ RowInv(row) /\ row.status # "blocked"
    BY <1>1, <2>1 DEF RequestProofJob, Checked, RowInv
  <2> HIDE DEF row
  <2> QED BY <2>2, <2>3, SaveKeeps
<1>2. CASE ApproveProofJob(c)
  <2> DEFINE row == [c.seen EXCEPT !.status = "queued", !.approved = TRUE]
  <2>1. row \in Row /\ RowInv(row)
    BY <1>2 DEF ApproveProofJob, Checked, RowInv
  <2> QED BY <1>2, <2>1, SaveKeeps DEF ApproveProofJob
<1>3. CASE ResumeProofJob(c)
  <2>1. Resumed(c.seen) \in Row /\ RowInv(Resumed(c.seen))
    BY <1>3 DEF ResumeProofJob, Resumed, Checked, RowInv
  <2> QED BY <1>3, <2>1, SaveKeeps DEF ResumeProofJob, Resumed
<1>4. CASE ClaimProofJob(c)
  <2> DEFINE status == IF Revoking(c.seen) THEN "blocked" ELSE "running"
             row    == [c.seen EXCEPT !.status = status, !.lease = c.by,
                                      !.leasePhase = "live"]
  <2>1. Save(c.job, row)
    BY <1>4 DEF ClaimProofJob
  <2>2. \/ status = "blocked" /\ c.seen.revocation = "pending" /\ c.seen.approved
        \/ status = "running" /\ c.seen.revocation = "none" /\ c.seen.approved
    BY <1>4 DEF ClaimProofJob, Checked, RowInv, Revoking
  <2> HIDE DEF status
  <2>3. row \in Row
    BY <2>2
  <2>4. RowInv(row) /\ (row.status = "blocked" => row.revocation # "none")
    BY <2>2 DEF RowInv
  <2> HIDE DEF row
  <2> QED BY <2>1, <2>3, <2>4, SaveKeeps
<1>5. CASE RefuseClaim(c)
  <2> DEFINE row == [c.seen EXCEPT !.status = "blocked"]
  <2>1. row \in Row /\ RowInv(row) /\ row.leasePhase = "none"
    BY <1>5 DEF RefuseClaim, Checked, RowInv
  <2> QED BY <1>5, <2>1, SaveKeeps DEF RefuseClaim
<1>6. CASE Source(c)
  <2> DEFINE row == [c.seen EXCEPT !.chainBinding = TRUE]
  <2>1. row \in Row /\ RowInv(row) /\ row.status # "blocked"
    BY <1>6 DEF Source, Checked, RowInv
  <2> QED BY <1>6, <2>1, SaveKeeps DEF Source
<1>7. CASE Submitted(c)
  <2> DEFINE row == [c.seen EXCEPT !.status = "awaiting_verification",
                                   !.leasePhase = "none"]
  <2>1. row \in Row /\ RowInv(row)
    BY <1>7 DEF Submitted, Checked, RowInv
  <2> QED BY <1>7, <2>1, SaveKeeps DEF Submitted
<1>8. CASE CompleteProofVerification(c)
  <2>1. CASE c.seen.revocation = "pending"
    <3> DEFINE row == [c.seen EXCEPT !.status = "blocked", !.revocation = "confirmed"]
    <3>1. row \in Row /\ RowInv(row)
      BY <1>8 DEF CompleteProofVerification, Checked, RowInv
    <3> QED BY <1>8, <2>1, <3>1, SaveKeeps DEF CompleteProofVerification
  <2>2. CASE c.seen.revocation # "pending"
    <3> DEFINE row == [c.seen EXCEPT !.status = "confirmed"]
    <3>1. row \in Row /\ RowInv(row)
      BY <1>8, <2>2 DEF CompleteProofVerification, Checked, RowInv
    <3> QED BY <1>8, <2>2, <3>1, SaveKeeps DEF CompleteProofVerification
  <2> QED BY <2>1, <2>2
<1> QED BY <1>1, <1>2, <1>3, <1>4, <1>5, <1>6, <1>7, <1>8 DEF Finish

\* Time, the chain, the issuer and the workspace leave the checks of the calls in
\* flight alone.
LEMMA WorldKeeps ==
  ASSUME IInv, NEW j \in Job, World(j), UNCHANGED programVars
  PROVE  IInv'
<1> USE RowsAreTyped, SnapshotsAreTyped
<1>0. TypeOK /\ IssuedInv /\ ProgramInv
  BY DEF IInv
<1>1. CASE ExecutorSubmits(j) \/ ExecutorRevokes(j) \/ ConsentEnds(j)
  <2>1. UNCHANGED <<jobs, calls, outages, revoked, requestsStale, programJobs>>
    BY <1>1 DEF ExecutorSubmits, ExecutorRevokes, ConsentEnds, Finalise, issuedVars
  <2>2. chain' \in [Job -> SUBSET ChainOp] /\ expired' \subseteq Job \cup ProgramJob
    BY <1>0, <1>1 DEF ExecutorSubmits, ExecutorRevokes, ConsentEnds, Finalise,
                      issuedVars, TypeOK, IssuedTypeOK, ChainOp
  <2>3. TypeOK'
    BY <1>0, <2>1, <2>2 DEF TypeOK, IssuedTypeOK, ProgramTypeOK, programVars
  <2>4. IssuedInv'
    BY <1>0, <2>1 DEF IssuedInv, RowsInv, RowInv, CallsInv, SameRecord, Checked,
                      Revoking, BlockedByIssuer
  <2>5. ProgramInv'
    BY <1>0, <2>1 DEF ProgramInv, ProgramRowsInv, ProgramCallsInv,
                      SameProgramRecord, ProgramChecked, programVars
  <2> QED BY <2>3, <2>4, <2>5 DEF IInv
<1>2. CASE LeaseRunsOut(j)
  <2>1. PICK phase \in {"due", "past"} :
          LeasePasses(j, phase) /\ jobs[j].leasePhase \in {"live", "due"}
               /\ (phase = "due" => jobs[j].leasePhase = "live")
    BY <1>2 DEF LeaseRunsOut
  <2>2. UNCHANGED <<revoked, requestsStale, chain, outages, programJobs, expired>>
    BY <1>2 DEF LeaseRunsOut, worldVars
  <2> DEFINE row == [jobs[j] EXCEPT !.leasePhase = phase]
             passed(c) == IF c.job = j THEN [c EXCEPT !.seen.leasePhase = phase] ELSE c
  <2>3. row \in Row /\ RowInv(row)
    BY <2>1 DEF Row, LeasePhase, RowInv
  <2>4. jobs' = [jobs EXCEPT ![j] = row]
    BY <2>1, <1>0 DEF LeasePasses, TypeOK, IssuedTypeOK
  <2>5. calls' = {passed(c) : c \in calls}
    BY <2>1 DEF LeasePasses
  <2>6. ASSUME NEW c \in calls
        PROVE  /\ passed(c) \in Call
               /\ passed(c).job = c.job /\ passed(c).op = c.op
               /\ passed(c).seen = IF c.job = j THEN [c.seen EXCEPT !.leasePhase = phase]
                                                ELSE c.seen
    BY <1>0 DEF TypeOK, IssuedTypeOK, Call, Row, LeasePhase
  <2>7. jobs' \in [Job -> Row] /\ calls' \subseteq Call
    <3> HIDE DEF passed, row
    <3> QED BY <1>0, <2>3, <2>4, <2>5, <2>6 DEF TypeOK, IssuedTypeOK
  <2>8. TypeOK'
    BY <1>0, <2>2, <2>7 DEF TypeOK, IssuedTypeOK, ProgramTypeOK, programVars
  <2>9. RowsInv'
    BY <1>0, <2>3, <2>4 DEF TypeOK, IssuedTypeOK, IssuedInv, RowsInv, RowInv
  <2>10. BlockedByIssuer'
    BY <1>0, <2>1, <2>2, <2>4
       DEF TypeOK, IssuedTypeOK, Row, IssuedInv, BlockedByIssuer
  <2>11. CallsInv'
    <3> SUFFICES ASSUME NEW c \in calls
                 PROVE  /\ SameRecord(passed(c).seen, jobs'[passed(c).job])
                        /\ Checked(passed(c))
      <4> HIDE DEF passed, row
      <4> QED BY <2>5 DEF CallsInv, SameRecord, Checked, Revoking
    <3>0. /\ c.job \in Job /\ c.seen \in Row
          /\ SameRecord(c.seen, jobs[c.job]) /\ Checked(c)
      BY SnapshotsAreTyped
    <3>1. SameRecord(passed(c).seen, jobs'[passed(c).job])
      <4> HIDE DEF passed
      <4>1. CASE c.job = j
        BY <1>0, <2>4, <2>6, <3>0, <4>1 DEF TypeOK, IssuedTypeOK, SameRecord, Row
      <4>2. CASE c.job # j
        BY <1>0, <2>4, <2>6, <3>0, <4>2 DEF TypeOK, IssuedTypeOK, SameRecord, Row
      <4> QED BY <4>1, <4>2
    <3>2. Checked(passed(c))
      <4> HIDE DEF passed
      <4>1. CASE c.job = j
        <5>1. /\ passed(c).op = c.op
              /\ passed(c).seen.status = c.seen.status
              /\ passed(c).seen.approved = c.seen.approved
              /\ passed(c).seen.revocation = c.seen.revocation
              /\ passed(c).seen.target = c.seen.target
          BY <2>6, <3>0, <4>1 DEF Row
        <5> QED BY <3>0, <5>1 DEF Checked, Revoking
      <4>2. CASE c.job # j
        BY <2>6, <3>0, <4>2 DEF Checked, Revoking
      <4> QED BY <4>1, <4>2
    <3> QED BY <3>1, <3>2
  <2>12. ProgramInv'
    BY <1>0, <2>2 DEF ProgramInv, ProgramRowsInv, ProgramCallsInv,
                      SameProgramRecord, ProgramChecked, programVars
  <2> QED BY <2>8, <2>9, <2>10, <2>11, <2>12 DEF IInv, IssuedInv
<1> QED BY <1>1, <1>2 DEF World

\* The issuer's revocation keeps it.
LEMMA IssuerKeeps ==
  ASSUME IInv, NEW credential \in Credential,
         IssuerRevokes(credential) \/ RequestsGoStale(credential),
         UNCHANGED programVars
  PROVE  IInv'
<1>1. /\ UNCHANGED <<jobs, calls, outages, chain, programJobs, expired>>
      /\ revoked \subseteq revoked' /\ revoked' \subseteq Credential
      /\ requestsStale' \subseteq Credential
  BY DEF IssuerRevokes, RequestsGoStale, IInv, TypeOK, IssuedTypeOK
<1>2. TypeOK'
  BY <1>1 DEF IInv, TypeOK, IssuedTypeOK, ProgramTypeOK, programVars
<1>3. IssuedInv'
  BY <1>1 DEF IInv, IssuedInv, RowsInv, RowInv, CallsInv, SameRecord, Checked,
              Revoking, BlockedByIssuer
<1>4. ProgramInv'
  BY <1>1 DEF IInv, ProgramInv, ProgramRowsInv, ProgramCallsInv,
              SameProgramRecord, ProgramChecked, programVars
<1> QED BY <1>2, <1>3, <1>4 DEF IInv

-----------------------------------------------------------------------------
(***************************************************************************)
(* Program jobs.                                                           *)
(***************************************************************************)

LEMMA IssuedInvStays ==
  ASSUME IInv, UNCHANGED <<jobs, issuedVars>>
  PROVE  IssuedTypeOK' /\ IssuedInv'
BY DEF IInv, TypeOK, IssuedTypeOK, IssuedInv, RowsInv, RowInv, CallsInv,
       SameRecord, Checked, Revoking, BlockedByIssuer, issuedVars

LEMMA SaveProgramKeeps ==
  ASSUME IInv, NEW p \in ProgramJob, NEW row \in ProgramRow,
         row.status # "absent", SaveProgram(p, row), UNCHANGED issuedVars
  PROVE  IInv'
<1>1. IssuedTypeOK' /\ IssuedInv'
  BY IssuedInvStays DEF SaveProgram
<1>2. ProgramTypeOK' /\ (expired \subseteq Job \cup ProgramJob)'
  BY DEF IInv, TypeOK, ProgramTypeOK, SaveProgram
<1>3. ProgramInv'
  BY DEF IInv, TypeOK, ProgramTypeOK, ProgramInv, ProgramRowsInv, ProgramCallsInv,
         SameProgramRecord, ProgramChecked, SaveProgram, ProgramCall
<1> QED BY <1>1, <1>2, <1>3 DEF IInv, TypeOK

LEMMA BeginProgramKeeps ==
  ASSUME IInv, NEW p \in ProgramJob, NEW op, NEW w, NEW row,
         [op |-> op, job |-> p, by |-> w, seen |-> row] \in ProgramCall,
         SameProgramRecord(row, programJobs[p]),
         ProgramChecked([op |-> op, job |-> p, by |-> w, seen |-> row]),
         BeginProgram(op, p, w, row), UNCHANGED issuedVars
  PROVE  IInv'
<1> DEFINE new == [op |-> op, job |-> p, by |-> w, seen |-> row]
<1>1. /\ programCalls' = programCalls \cup {new}
      /\ UNCHANGED <<programJobs, materialsStale, programChain, jobs, expired>>
      /\ new.job = p /\ new.seen = row
  BY DEF BeginProgram
<1>2. IssuedTypeOK' /\ IssuedInv'
  BY <1>1, IssuedInvStays
<1>3. ProgramTypeOK' /\ (expired \subseteq Job \cup ProgramJob)' /\ ProgramRowsInv'
  BY <1>1 DEF IInv, TypeOK, ProgramTypeOK, ProgramInv, ProgramRowsInv
<1>4. ProgramCallsInv'
  <2> SUFFICES ASSUME NEW c \in programCalls \cup {new}
               PROVE  SameProgramRecord(c.seen, programJobs[c.job]) /\ ProgramChecked(c)
    BY <1>1 DEF ProgramCallsInv, SameProgramRecord, ProgramChecked
  <2>1. CASE c \in programCalls
    BY <2>1 DEF IInv, ProgramInv, ProgramCallsInv
  <2>2. CASE c = new
    BY <1>1, <2>2
  <2> QED BY <2>1, <2>2
<1> QED BY <1>2, <1>3, <1>4 DEF IInv, TypeOK, ProgramInv

LEMMA ProgramSnapshotsAreTyped ==
  ASSUME IInv, NEW c \in programCalls
  PROVE  /\ c.job \in ProgramJob /\ c.seen \in ProgramRow
         /\ c.by \in ProgramWorker \cup {NoProgramValue}
         /\ SameProgramRecord(c.seen, programJobs[c.job]) /\ ProgramChecked(c)
BY DEF IInv, TypeOK, ProgramTypeOK, ProgramCall, ProgramInv, ProgramCallsInv

LEMMA ProgramRowsAreTyped ==
  ASSUME IInv, NEW p \in ProgramJob
  PROVE  programJobs[p] \in ProgramRow
BY DEF IInv, TypeOK, ProgramTypeOK

LEMMA ProgramVisitKeeps ==
  ASSUME IInv, NEW p \in ProgramJob, ProgramVisit(p), UNCHANGED issuedVars
  PROVE  IInv'
<1> USE ProgramRowsAreTyped DEF ProgramRow, Status, Waiting, Engaged, Closed, LeasePhase
<1>1. ASSUME NEW application \in Application, BeginProgramRequest(p, application)
      PROVE  IInv'
  <2> DEFINE row == [programJobs[p] EXCEPT !.application = application]
  <2>1. row \in ProgramRow /\ SameProgramRecord(row, programJobs[p])
    BY DEF SameProgramRecord
  <2>2. ProgramChecked([op |-> "request", job |-> p, by |-> NoProgramValue, seen |-> row])
    BY <1>1 DEF BeginProgramRequest, ProgramChecked
  <2> QED BY <1>1, <2>1, <2>2, BeginProgramKeeps DEF BeginProgramRequest, ProgramCall
<1>2. CASE CancelProgramJob(p)
  <2> DEFINE row == [programJobs[p] EXCEPT !.status = "cancelled"]
  <2>1. row \in ProgramRow /\ row.status # "absent"
    OBVIOUS
  <2> QED BY <1>2, <2>1, SaveProgramKeeps DEF CancelProgramJob
<1>3. ASSUME NEW action \in {"approve", "resume"}, BeginControl(p, action)
      PROVE  IInv'
  <2>1. ProgramChecked([op |-> action, job |-> p, by |-> NoProgramValue,
                        seen |-> programJobs[p]])
    BY <1>3 DEF BeginControl, ProgramChecked
  <2> QED BY <1>3, <2>1, BeginProgramKeeps
          DEF BeginControl, ProgramCall, SameProgramRecord
<1> QED BY <1>1, <1>2, <1>3 DEF ProgramVisit

LEMMA ProgramExecuteKeeps ==
  ASSUME IInv, NEW w \in ProgramWorker, NEW p \in ProgramJob,
         ProgramExecute(w, p), UNCHANGED issuedVars
  PROVE  IInv'
<1> USE ProgramRowsAreTyped DEF ProgramRow, Status, Waiting, Engaged, Closed, LeasePhase
<1>1. ASSUME NEW op \in {"claim", "heartbeat", "source", "submitted"},
             BeginProgram(op, p, w, programJobs[p]),
             IF op = "claim" THEN programJobs[p].status = "queued"
                             ELSE programJobs[p].status = "running"
      PROVE  IInv'
  <2>1. ProgramChecked([op |-> op, job |-> p, by |-> w, seen |-> programJobs[p]])
    BY <1>1 DEF ProgramChecked
  <2> QED BY <1>1, <2>1, BeginProgramKeeps DEF ProgramCall, SameProgramRecord
<1>2. CASE BeginProgramClaim(w, p) \/ BeginProgramHeartbeat(w, p)
             \/ BeginProgramSource(w, p) \/ BeginProgramSubmitted(w, p)
  BY <1>1, <1>2 DEF BeginProgramClaim, BeginProgramHeartbeat, BeginProgramSource,
                    BeginProgramSubmitted, HoldsProgramLease
<1>3. ASSUME NEW target \in ProgramTarget, BindProgram(w, p, target)
      PROVE  IInv'
  <2> DEFINE row == [programJobs[p] EXCEPT !.target = target]
  <2>1. row \in ProgramRow /\ row.status # "absent"
    BY <1>3 DEF BindProgram, HoldsProgramLease
  <2> QED BY <1>3, <2>1, SaveProgramKeeps DEF BindProgram
<1>4. CASE ProgramReceipt(w, p)
  <2> DEFINE row == [programJobs[p] EXCEPT !.receipts = TRUE]
  <2>1. row \in ProgramRow /\ row.status # "absent"
    BY <1>4 DEF ProgramReceipt, HoldsProgramLease
  <2> QED BY <1>4, <2>1, SaveProgramKeeps DEF ProgramReceipt
<1>5. CASE ProgramFailed(w, p)
  <2> DEFINE row == [programJobs[p] EXCEPT !.status = "needs_attention",
                                           !.leasePhase = "none"]
  <2>1. row \in ProgramRow /\ row.status # "absent"
    OBVIOUS
  <2> QED BY <1>5, <2>1, SaveProgramKeeps DEF ProgramFailed
<1> QED BY <1>2, <1>3, <1>4, <1>5 DEF ProgramExecute

LEMMA ProgramFinishKeeps ==
  ASSUME IInv, NEW c \in programCalls, ProgramFinish(c), UNCHANGED issuedVars
  PROVE  IInv'
<1> USE ProgramSnapshotsAreTyped
    DEF ProgramRow, Status, Waiting, Engaged, Closed, LeasePhase
<1>1. ASSUME NEW mode \in ProgramMode, RequestProgramJob(c, mode)
      PROVE  IInv'
  <2> DEFINE auto == mode = "automatic"
             row  == [c.seen EXCEPT
                        !.status = IF auto THEN "queued" ELSE "awaiting_approval",
                        !.approved = auto]
  <2>1. auto \in BOOLEAN
    OBVIOUS
  <2>2. SaveProgram(c.job, row)
    BY <1>1 DEF RequestProgramJob
  <2> HIDE DEF auto
  <2>3. row \in ProgramRow /\ row.status # "absent"
    BY <2>1
  <2> HIDE DEF row
  <2> QED BY <2>2, <2>3, SaveProgramKeeps
<1>2. CASE ControlProgramJob(c)
  <2> DEFINE row == [c.seen EXCEPT !.status = "queued", !.approved = TRUE,
                                   !.leasePhase = "none"]
  <2>1. row \in ProgramRow /\ row.status # "absent"
    OBVIOUS
  <2> QED BY <1>2, <2>1, SaveProgramKeeps DEF ControlProgramJob
<1>3. CASE ClaimProgramJob(c)
  <2> DEFINE row == [c.seen EXCEPT !.status = "running", !.lease = c.by,
                                   !.leasePhase = "live"]
  <2>1. row \in ProgramRow /\ row.status # "absent"
    OBVIOUS
  <2> QED BY <1>3, <2>1, SaveProgramKeeps DEF ClaimProgramJob
<1>4. CASE ProgramHeartbeat(c)
  <2> DEFINE row == [c.seen EXCEPT !.leasePhase = "live"]
  <2>1. row \in ProgramRow /\ row.status # "absent"
    BY <1>4 DEF ProgramHeartbeat, ProgramChecked
  <2> QED BY <1>4, <2>1, SaveProgramKeeps DEF ProgramHeartbeat
<1>5. CASE ProgramSource(c)
  <2> DEFINE row == [c.seen EXCEPT !.chainBinding = TRUE]
  <2>1. row \in ProgramRow /\ row.status # "absent"
    BY <1>5 DEF ProgramSource, ProgramChecked
  <2> QED BY <1>5, <2>1, SaveProgramKeeps DEF ProgramSource
<1>6. CASE ProgramSubmitted(c)
  <2> DEFINE row == [c.seen EXCEPT !.status = "awaiting_verification",
                                   !.leasePhase = "none"]
  <2>1. row \in ProgramRow /\ row.status # "absent"
    OBVIOUS
  <2> QED BY <1>6, <2>1, SaveProgramKeeps DEF ProgramSubmitted
<1>7. CASE CompleteProgramVerification(c)
  <2> DEFINE row == [c.seen EXCEPT !.status = "confirmed"]
  <2>1. row \in ProgramRow /\ row.status # "absent"
    OBVIOUS
  <2> QED BY <1>7, <2>1, SaveProgramKeeps DEF CompleteProgramVerification
<1> QED BY <1>1, <1>2, <1>3, <1>4, <1>5, <1>6, <1>7 DEF ProgramFinish

LEMMA ProgramWorldKeeps ==
  ASSUME IInv, NEW p \in ProgramJob, ProgramWorld(p), UNCHANGED issuedVars
  PROVE  IInv'
<1> USE ProgramRowsAreTyped DEF ProgramRow, Status, Waiting, Engaged, Closed, LeasePhase
<1>1. CASE RefreshProgramJob(p)
  <2>1. PICK status \in {"blocked", "needs_attention"} :
          SaveProgram(p, [programJobs[p] EXCEPT !.status = status])
    BY <1>1 DEF RefreshProgramJob
  <2> DEFINE row == [programJobs[p] EXCEPT !.status = status]
  <2>2. row \in ProgramRow /\ row.status # "absent"
    OBVIOUS
  <2> QED BY <2>1, <2>2, SaveProgramKeeps
<1>2. CASE BeginProgramComplete(p)
  <2>1. ProgramChecked([op |-> "complete", job |-> p, by |-> NoProgramValue,
                        seen |-> programJobs[p]])
    BY <1>2 DEF BeginProgramComplete, ProgramChecked
  <2> QED BY <1>2, <2>1, BeginProgramKeeps
          DEF BeginProgramComplete, ProgramCall, SameProgramRecord
<1>3. CASE ProgramExecutorSubmits(p) \/ ProgramConsentEnds(p)
  <2>1. UNCHANGED <<programJobs, programCalls, materialsStale, jobs>>
          /\ programChain' \subseteq ProgramJob
          /\ expired' \subseteq Job \cup ProgramJob
    BY <1>3 DEF ProgramExecutorSubmits, ProgramConsentEnds, programVars, IInv, TypeOK,
                ProgramTypeOK
  <2>2. IssuedTypeOK' /\ IssuedInv'
    BY <2>1, IssuedInvStays
  <2>3. TypeOK'
    BY <2>1, <2>2 DEF IInv, TypeOK, ProgramTypeOK
  <2>4. ProgramInv'
    BY <2>1 DEF IInv, ProgramInv, ProgramRowsInv, ProgramCallsInv, SameProgramRecord,
                ProgramChecked
  <2> QED BY <2>2, <2>3, <2>4 DEF IInv
<1>4. ASSUME NEW phase \in {"due", "past"}, ProgramLeasePasses(p, phase)
      PROVE  IInv'
  <2> DEFINE passed(c) == IF c.job = p THEN [c EXCEPT !.seen.leasePhase = phase] ELSE c
  <2>1. programJobs' = [programJobs EXCEPT ![p].leasePhase = phase]
          /\ programCalls' = {passed(c) : c \in programCalls}
          /\ UNCHANGED <<materialsStale, programChain, jobs, expired>>
    BY <1>4 DEF ProgramLeasePasses
  <2>2. IssuedTypeOK' /\ IssuedInv'
    BY <2>1, IssuedInvStays
  <2>3. ASSUME NEW c \in programCalls
        PROVE  /\ passed(c) \in ProgramCall
               /\ passed(c).job = c.job /\ passed(c).op = c.op
               /\ SameProgramRecord(passed(c).seen, c.seen)
    BY DEF IInv, TypeOK, ProgramTypeOK, ProgramCall, SameProgramRecord
  <2>4. \A q \in ProgramJob : programJobs'[q] \in ProgramRow
                               /\ SameProgramRecord(programJobs'[q], programJobs[q])
    BY <2>1 DEF IInv, TypeOK, ProgramTypeOK, SameProgramRecord
  <2> HIDE DEF passed
  <2>5. ProgramTypeOK'
    BY <2>1, <2>3, <2>4 DEF IInv, TypeOK, ProgramTypeOK
  <2>6. ProgramRowsInv'
    BY <2>4 DEF IInv, ProgramInv, ProgramRowsInv, SameProgramRecord
  <2>7. ProgramCallsInv'
    <3> SUFFICES ASSUME NEW c \in programCalls
                 PROVE  /\ SameProgramRecord(passed(c).seen, programJobs'[passed(c).job])
                        /\ ProgramChecked(passed(c))
      BY <2>1 DEF ProgramCallsInv, SameProgramRecord, ProgramChecked
    <3>1. c.job \in ProgramJob /\ SameProgramRecord(c.seen, programJobs[c.job])
            /\ ProgramChecked(c)
      BY ProgramSnapshotsAreTyped
    <3> QED BY <2>3, <2>4, <3>1 DEF SameProgramRecord, ProgramChecked
  <2> QED BY <2>1, <2>2, <2>5, <2>6, <2>7 DEF IInv, TypeOK, ProgramInv
<1> QED BY <1>1, <1>2, <1>3, <1>4 DEF ProgramWorld, ProgramLeaseRunsOut

-----------------------------------------------------------------------------
(***************************************************************************)
(* The invariant and what follows from it.                                 *)
(***************************************************************************)

\* It holds of an empty table.
LEMMA InitEstablishes == Init => IInv
<1> SUFFICES ASSUME Init PROVE IInv
  OBVIOUS
<1>1. Absent \in Row /\ RowInv(Absent)
  BY DEF Absent, Row, RowInv, Status, Waiting, Engaged, Closed, LeasePhase
<1>2. AbsentProgram \in ProgramRow
  BY DEF AbsentProgram, ProgramRow, Status, LeasePhase
<1>3. TypeOK
  BY <1>1, <1>2, ProofJobsAssumption
     DEF Init, InitIssued, InitProgram, TypeOK, IssuedTypeOK, ProgramTypeOK
<1>4. IssuedInv
  BY <1>1 DEF Init, InitIssued, IssuedInv, RowsInv, CallsInv, BlockedByIssuer, Absent
<1>5. ProgramInv
  BY DEF Init, InitProgram, ProgramInv, ProgramRowsInv, ProgramCallsInv, AbsentProgram
<1> QED BY <1>3, <1>4, <1>5 DEF IInv

\* Every step keeps it.
LEMMA NextKeeps == IInv /\ [Next]_vars => IInv'
<1> SUFFICES ASSUME IInv, [Next]_vars PROVE IInv'
  OBVIOUS
<1>1. CASE NextIssued /\ UNCHANGED programVars
  BY <1>1, VisitKeeps, AdministerKeeps, PollKeeps, WorldKeeps, ExecuteKeeps,
     FinishKeeps, IssuerKeeps DEF NextIssued
<1>2. CASE NextProgram /\ UNCHANGED issuedVars
  <2>1. ASSUME NEW application \in Application, MaterialsGoStale(application)
        PROVE  IInv'
    <3>1. UNCHANGED <<programJobs, programCalls, programChain, jobs, expired>>
            /\ materialsStale' \subseteq Application
      BY <2>1 DEF MaterialsGoStale, IInv, TypeOK, ProgramTypeOK
    <3>2. IssuedTypeOK' /\ IssuedInv'
      BY <1>2, <3>1, IssuedInvStays
    <3> QED BY <3>1, <3>2 DEF IInv, TypeOK, ProgramTypeOK, ProgramInv, ProgramRowsInv,
                             ProgramCallsInv, SameProgramRecord, ProgramChecked
  <2> QED BY <1>2, <2>1, ProgramVisitKeeps, ProgramWorldKeeps, ProgramExecuteKeeps,
             ProgramFinishKeeps DEF NextProgram
<1>3. CASE UNCHANGED vars
  BY <1>3 DEF vars, issuedVars, programVars, IInv, TypeOK, IssuedTypeOK, ProgramTypeOK,
              IssuedInv, RowsInv, RowInv, CallsInv, SameRecord, Checked, Revoking,
              BlockedByIssuer, ProgramInv, ProgramRowsInv, ProgramCallsInv,
              SameProgramRecord, ProgramChecked
<1> QED BY <1>1, <1>2, <1>3 DEF Next

\* The strengthening of the invariants below is one: it holds of the initial state
\* and every handler, poll, executor command and passage of time keeps it.
THEOREM Invariance == Spec => []IInv
<1>1. Init => IInv
  BY InitEstablishes
<1>2. IInv /\ [Next]_vars => IInv'
  BY NextKeeps
<1> QED BY <1>1, <1>2, PTL DEF Spec

\* Rows of both tables, snapshots in flight and consents keep their types.
THEOREM TypeCorrect == Spec => []TypeOK
<1>1. IInv => TypeOK
  BY DEF IInv
<1> QED BY <1>1, Invariance, PTL

\* No row is queued, run, verified, interrupted, confirmed or bound to a contract
\* unless it was approved, however claims and approvals interleave.
THEOREM ApprovalComesFirst == Spec => []OnlyApprovedJobsRun
<1>1. IInv => OnlyApprovedJobsRun
  BY DEF IInv, IssuedInv, RowsInv, RowInv, OnlyApprovedJobsRun
<1> QED BY <1>1, Invariance, PTL

\* A row whose revocation is recorded never runs, never asks for approval and is
\* never confirmed again, whatever was in flight when it was recorded.
THEOREM RevocationSticks == Spec => []RevokedJobStaysBlocked
<1>1. TypeOK /\ RowsInv => RevokedJobStaysBlocked
  BY DEF TypeOK, IssuedTypeOK, Row, RowsInv, RowInv, RevokedJobStaysBlocked
<1>2. IInv => RevokedJobStaysBlocked
  BY <1>1 DEF IInv, IssuedInv
<1> QED BY <1>2, Invariance, PTL

-----------------------------------------------------------------------------
(***************************************************************************)
(* No write undoes what was recorded.  The conjunction below is            *)
(* NothingRecordedIsLost for one row.                                      *)
(***************************************************************************)

Kept(old, new) ==
  /\ old.approved => new.approved
  /\ old.target # None => new.target = old.target
  /\ old.chainBinding => new.chainBinding
  /\ old.receipts \subseteq new.receipts
  /\ old.revocation = "pending" => new.revocation # "none"
  /\ old.revocation = "confirmed" => new.revocation = "confirmed"

\* A save of a row that has what was recorded loses nothing.
LEMMA SaveKeepsRecords ==
  ASSUME IInv, NEW j \in Job, NEW row, Save(j, row), Kept(jobs[j], row)
  PROVE  \A k \in Job : Kept(jobs[k], jobs'[k])
BY DEF IInv, TypeOK, IssuedTypeOK, Save, Kept

\* No write loses a record.
LEMMA FinishKeepsRecords ==
  ASSUME IInv, NEW c \in calls, Finish(c)
  PROVE  \A k \in Job : Kept(jobs[k], jobs'[k])
<1> USE SnapshotsAreTyped DEF Row
<1>0. c.job \in Job /\ SameRecord(c.seen, jobs[c.job]) /\ Checked(c)
  OBVIOUS
<1>1. ASSUME NEW row, Save(c.job, row), Kept(c.seen, row)
      PROVE  \A k \in Job : Kept(jobs[k], jobs'[k])
  <2>1. Kept(jobs[c.job], row)
    BY <1>0, <1>1 DEF Kept, SameRecord
  <2> QED BY <1>0, <1>1, <2>1, SaveKeepsRecords
<1>2. ASSUME NEW mode \in Mode, RequestProofJob(c, mode)
      PROVE  \A k \in Job : Kept(jobs[k], jobs'[k])
  <2>1. ~c.seen.approved /\ c.seen.target = None /\ c.seen.revocation = "none"
    BY <1>2, <1>0 DEF RequestProofJob, Checked, RowInv
  <2> QED BY <1>1, <1>2, <2>1 DEF RequestProofJob, Kept
<1>3. CASE ApproveProofJob(c)
  BY <1>1, <1>3 DEF ApproveProofJob, Kept
<1>4. CASE ResumeProofJob(c)
  BY <1>1, <1>4 DEF ResumeProofJob, Resumed, Kept
<1>5. CASE ClaimProofJob(c)
  BY <1>1, <1>5 DEF ClaimProofJob, Kept
<1>6. CASE RefuseClaim(c)
  BY <1>1, <1>6 DEF RefuseClaim, Kept
<1>7. CASE Source(c)
  BY <1>1, <1>7 DEF Source, Kept
<1>8. CASE Submitted(c)
  BY <1>1, <1>8 DEF Submitted, Kept
<1>9. CASE CompleteProofVerification(c)
  <2>1. c.seen.revocation # "confirmed"
    BY <1>0, <1>9 DEF CompleteProofVerification, Checked, RowInv
  <2> QED BY <1>1, <1>9, <2>1 DEF CompleteProofVerification, Kept
<1> QED BY <1>2, <1>3, <1>4, <1>5, <1>6, <1>7, <1>8, <1>9 DEF Finish

\* No step of an issued job loses a record.
LEMMA IssuedStepKeepsRecords ==
  ASSUME IInv, NextIssued
  PROVE  \A k \in Job : Kept(jobs[k], jobs'[k])
<1> USE RowsAreTyped DEF Row
<1>1. ASSUME UNCHANGED jobs
      PROVE  \A k \in Job : Kept(jobs[k], jobs'[k])
  BY <1>1 DEF Kept
<1>2. ASSUME NEW j \in Job, Visit(j) \/ Administer(j)
      PROVE  \A k \in Job : Kept(jobs[k], jobs'[k])
  <2>1. CASE UNCHANGED jobs
    BY <1>1, <2>1
  <2>2. CASE CancelProofJob(j)
    BY <2>2, SaveKeepsRecords DEF CancelProofJob, Kept
  <2>3. CASE ResumeRevocation(j)
    BY <2>3, SaveKeepsRecords DEF ResumeRevocation, Resumed, Kept
  <2> QED BY <1>2, <2>1, <2>2, <2>3
          DEF Visit, Administer, BeginRequest, BeginApprove, BeginResume, Begin, Awaits
<1>3. ASSUME NEW j \in Job, Poll(j)
      PROVE  \A k \in Job : Kept(jobs[k], jobs'[k])
  <2>1. CASE UNCHANGED jobs
    BY <1>1, <2>1
  <2>2. CASE NoteCredentialRevoked(j)
    <3>1. Kept(jobs[j], Noted(jobs[j]))
      BY <2>2 DEF NoteCredentialRevoked, Noted, Kept
    <3> QED BY <2>2, <3>1, SaveKeepsRecords DEF NoteCredentialRevoked
  <2>3. CASE RefreshProofJob(j)
    BY <2>3, SaveKeepsRecords DEF RefreshProofJob, Kept
  <2> QED BY <1>3, <2>1, <2>2, <2>3 DEF Poll, BeginRefuse, BeginComplete, Begin, Awaits
<1>4. ASSUME NEW j \in Job, NEW w \in Worker, Execute(w, j)
      PROVE  \A k \in Job : Kept(jobs[k], jobs'[k])
  <2>1. CASE UNCHANGED jobs
    BY <1>1, <2>1
  <2>2. CASE Heartbeat(w, j)
    BY <2>2, SaveKeepsRecords DEF Heartbeat, Kept
  <2>3. ASSUME NEW target \in Target, Bind(w, j, target)
        PROVE  \A k \in Job : Kept(jobs[k], jobs'[k])
    BY <2>3, SaveKeepsRecords DEF Bind, Kept
  <2>4. ASSUME NEW op \in ChainOp, Receipt(w, j, op)
        PROVE  \A k \in Job : Kept(jobs[k], jobs'[k])
    BY <2>4, SaveKeepsRecords DEF Receipt, Kept
  <2>5. CASE Failed(w, j)
    BY <2>5, SaveKeepsRecords DEF Failed, Kept
  <2> QED BY <1>4, <2>1, <2>2, <2>3, <2>4, <2>5
          DEF Execute, BeginClaim, BeginSource, BeginSubmitted, Begin, Awaits
<1>5. ASSUME NEW j \in Job, World(j)
      PROVE  \A k \in Job : Kept(jobs[k], jobs'[k])
  <2>1. CASE UNCHANGED jobs
    BY <1>1, <2>1
  <2>2. CASE LeaseRunsOut(j)
    BY <2>2 DEF LeaseRunsOut, LeasePasses, Kept, IInv, TypeOK, IssuedTypeOK
  <2> QED BY <1>5, <2>1, <2>2
          DEF World, ExecutorSubmits, ExecutorRevokes, ConsentEnds, Finalise
<1>6. ASSUME NEW credential \in Credential,
             IssuerRevokes(credential) \/ RequestsGoStale(credential)
      PROVE  \A k \in Job : Kept(jobs[k], jobs'[k])
  BY <1>1, <1>6 DEF IssuerRevokes, RequestsGoStale
<1> QED BY <1>2, <1>3, <1>4, <1>5, <1>6, FinishKeepsRecords DEF NextIssued

\* A step of a program job leaves the issued rows as they are.
LEMMA ProgramStepKeepsIssued ==
  ASSUME NextProgram
  PROVE  UNCHANGED jobs
BY DEF NextProgram, ProgramVisit, ProgramWorld, ProgramExecute, ProgramFinish,
       BeginProgramRequest, CancelProgramJob, BeginControl, RefreshProgramJob,
       BeginProgramComplete, ProgramExecutorSubmits, ProgramConsentEnds,
       ProgramLeaseRunsOut, ProgramLeasePasses, BeginProgramClaim,
       BeginProgramHeartbeat, BindProgram, BeginProgramSource, ProgramReceipt,
       BeginProgramSubmitted, ProgramFailed, RequestProgramJob, ControlProgramJob,
       ClaimProgramJob, ProgramHeartbeat, ProgramSource, ProgramSubmitted,
       CompleteProgramVerification, MaterialsGoStale, SaveProgram, BeginProgram

\* No handler, however long it awaited the issuer before its UPDATE, undoes an
\* approval, a contract binding, a filed receipt or a revocation.
THEOREM RecordsStay == Spec => NothingRecordedIsLost
<1>1. IInv /\ [Next]_vars => \A k \in Job : Kept(jobs[k], jobs'[k])
  <2> SUFFICES ASSUME IInv, [Next]_vars, NEW k \in Job
               PROVE  Kept(jobs[k], jobs'[k])
    OBVIOUS
  <2>1. CASE NextIssued
    BY <2>1, IssuedStepKeepsRecords
  <2>2. CASE NextProgram \/ UNCHANGED vars
    BY <2>2, ProgramStepKeepsIssued DEF vars, Kept
  <2> QED BY <2>1, <2>2 DEF Next
<1>2. IInv /\ [Next]_vars =>
        [\A j \in Job :
           /\ jobs[j].approved => jobs'[j].approved
           /\ jobs[j].target # None => jobs'[j].target = jobs[j].target
           /\ jobs[j].chainBinding => jobs'[j].chainBinding
           /\ jobs[j].receipts \subseteq jobs'[j].receipts
           /\ jobs[j].revocation = "pending" => jobs'[j].revocation # "none"
           /\ jobs[j].revocation = "confirmed" =>
                jobs'[j].revocation = "confirmed"]_jobs
  BY <1>1 DEF Kept
<1> QED BY <1>2, Invariance, PTL DEF Spec, NothingRecordedIsLost

-----------------------------------------------------------------------------
(***************************************************************************)
(* The capacity.  Only the INSERT of a request and the UPDATE of a resume  *)
(* let a job with a running consent into the queue, and both carry Admits; *)
(* every other write keeps a row in the queue or takes it out.             *)
(***************************************************************************)

InQueue(row) == row.status \in Waiting \cup Engaged /\ row.revocation # "pending"
ProgramInQueue(row) == row.status \in Waiting \cup Engaged

Consented ==
  ({j \in Job : InQueue(jobs[j])} \cup {p \in ProgramJob : ProgramInQueue(programJobs[p])})
    \ expired

\* The jobs that count are the slots whose consent lasts.
LEMMA ConsentedIsProofSlots == Consented = ProofSlots \ expired
BY DEF Consented, InQueue, ProgramInQueue, ProofSlots, HoldsProofSlot

\* They are finitely many.
LEMMA ConsentedIsFinite ==
  /\ IsFiniteSet(Consented) /\ IsFiniteSet(Slots)
  /\ Cardinality(Consented) \in Nat /\ Cardinality(Slots) \in Nat
<1>1. IsFiniteSet(Job \cup ProgramJob)
  BY JobsAssumption, FS_Union
<1>2. Consented \subseteq Job \cup ProgramJob /\ Slots \subseteq Job \cup ProgramJob
  BY DEF Consented, Slots
<1> QED BY <1>1, <1>2, FS_Subset, FS_CardinalityType

\* What the predicate counts is at least what it is to bound.
LEMMA AdmissionLeavesRoom ==
  ASSUME Admits
  PROVE  Cardinality(Consented) + 1 <= Capacity
<1>1. Consented \subseteq Slots
  BY DEF Consented, InQueue, ProgramInQueue, Slots, HoldsSlot, HoldsProofSlot
<1>2. Cardinality(Consented) <= Cardinality(Slots)
  BY <1>1, ConsentedIsFinite, FS_Subset
<1> QED BY <1>2, ConsentedIsFinite, CapacityAssumption DEF Admits, ProofQueueCount

\* A step either lets nobody in or admits one job.
LetsNobodyIn == Consented' \subseteq Consented
AdmitsOne == Admits /\ \E x \in Job \cup ProgramJob : Consented' \subseteq Consented \cup {x}

\* A save of a job that is not let in lets nobody in.
LEMMA SaveLetsNobodyIn ==
  ASSUME IInv, NEW j \in Job, NEW row, Save(j, row), InQueue(row) => InQueue(jobs[j])
  PROVE  LetsNobodyIn
BY DEF IInv, TypeOK, IssuedTypeOK, Save, LetsNobodyIn, Consented, InQueue, ProgramInQueue

\* A save lets in one job at most.
LEMMA SaveAdmitsOne ==
  ASSUME IInv, NEW j \in Job, NEW row, Save(j, row), Admits
  PROVE  AdmitsOne
<1>1. Consented' \subseteq Consented \cup {j}
  BY DEF IInv, TypeOK, IssuedTypeOK, Save, Consented, InQueue, ProgramInQueue
<1> QED BY <1>1 DEF AdmitsOne

\* A write that lets a job in has counted the others.
LEMMA FinishIsAdmitted ==
  ASSUME IInv, NEW c \in calls, Finish(c)
  PROVE  LetsNobodyIn \/ AdmitsOne
<1> USE SnapshotsAreTyped DEF Row, Waiting, Engaged
<1>0. c.job \in Job /\ SameRecord(c.seen, jobs[c.job]) /\ Checked(c) /\ RowInv(c.seen)
  OBVIOUS
<1>1. ASSUME NEW row, Save(c.job, row), InQueue(row) => InQueue(c.seen)
      PROVE  LetsNobodyIn
  <2>1. InQueue(row) => InQueue(jobs[c.job])
    BY <1>0, <1>1 DEF InQueue, SameRecord
  <2> QED BY <1>0, <1>1, <2>1, SaveLetsNobodyIn
<1>2. ASSUME NEW mode \in Mode, RequestProofJob(c, mode)
      PROVE  AdmitsOne
  BY <1>0, <1>2, SaveAdmitsOne DEF RequestProofJob, Inserts
<1>3. CASE ResumeProofJob(c)
  BY <1>0, <1>3, SaveAdmitsOne DEF ResumeProofJob
<1>4. CASE ApproveProofJob(c)
  BY <1>0, <1>1, <1>4 DEF ApproveProofJob, InQueue, Checked
<1>5. CASE ClaimProofJob(c)
  BY <1>0, <1>1, <1>5 DEF ClaimProofJob, InQueue, Checked, Revoking
<1>6. CASE RefuseClaim(c)
  BY <1>1, <1>6 DEF RefuseClaim, InQueue
<1>7. CASE Source(c)
  BY <1>1, <1>7 DEF Source, InQueue
<1>8. CASE Submitted(c)
  BY <1>0, <1>1, <1>8 DEF Submitted, InQueue, Checked
<1>9. CASE CompleteProofVerification(c)
  BY <1>1, <1>9 DEF CompleteProofVerification, InQueue
<1> QED BY <1>2, <1>3, <1>4, <1>5, <1>6, <1>7, <1>8, <1>9 DEF Finish

\* So has every step of an issued job.
LEMMA IssuedStepIsAdmitted ==
  ASSUME IInv, NextIssued, UNCHANGED programVars
  PROVE  LetsNobodyIn \/ AdmitsOne
<1> USE RowsAreTyped DEF Row, Waiting, Engaged
<1>1. ASSUME UNCHANGED <<jobs, programJobs>>, expired \subseteq expired'
      PROVE  LetsNobodyIn
  BY <1>1 DEF LetsNobodyIn, Consented, InQueue, ProgramInQueue
<1>2. ASSUME NEW j \in Job, Visit(j) \/ Administer(j)
      PROVE  LetsNobodyIn
  <2>1. CASE UNCHANGED <<jobs, programJobs, expired>>
    BY <1>1, <2>1
  <2>2. CASE CancelProofJob(j)
    BY <2>2, SaveLetsNobodyIn DEF CancelProofJob, InQueue
  <2>3. CASE ResumeRevocation(j)
    <3>1. jobs[j].revocation = "pending"
      BY <2>3 DEF ResumeRevocation, RowInv
    <3> QED BY <2>3, <3>1, SaveLetsNobodyIn DEF ResumeRevocation, Resumed, InQueue
  <2> QED BY <1>2, <2>1, <2>2, <2>3
          DEF Visit, Administer, BeginRequest, BeginApprove, BeginResume, Begin, Awaits
<1>3. ASSUME NEW j \in Job, Poll(j)
      PROVE  LetsNobodyIn
  <2>1. CASE UNCHANGED <<jobs, programJobs, expired>>
    BY <1>1, <2>1
  <2>2. CASE NoteCredentialRevoked(j)
    <3>1. ~InQueue(Noted(jobs[j]))
      BY DEF Noted, InQueue
    <3> QED BY <2>2, <3>1, SaveLetsNobodyIn DEF NoteCredentialRevoked
  <2>3. CASE RefreshProofJob(j)
    BY <2>3, SaveLetsNobodyIn DEF RefreshProofJob, InQueue
  <2> QED BY <1>3, <2>1, <2>2, <2>3 DEF Poll, BeginRefuse, BeginComplete, Begin, Awaits
<1>4. ASSUME NEW j \in Job, NEW w \in Worker, Execute(w, j)
      PROVE  LetsNobodyIn
  <2>1. CASE UNCHANGED <<jobs, programJobs, expired>>
    BY <1>1, <2>1
  <2>2. ASSUME NEW row, Save(j, row), row.status = jobs[j].status,
               row.revocation = jobs[j].revocation
        PROVE  LetsNobodyIn
    BY <2>2, SaveLetsNobodyIn DEF InQueue
  <2>3. CASE Heartbeat(w, j)
    BY <2>2, <2>3 DEF Heartbeat
  <2>4. ASSUME NEW target \in Target, Bind(w, j, target)
        PROVE  LetsNobodyIn
    BY <2>2, <2>4 DEF Bind
  <2>5. ASSUME NEW op \in ChainOp, Receipt(w, j, op)
        PROVE  LetsNobodyIn
    BY <2>2, <2>5 DEF Receipt
  <2>6. CASE Failed(w, j)
    BY <2>6, SaveLetsNobodyIn DEF Failed, InQueue
  <2> QED BY <1>4, <2>1, <2>3, <2>4, <2>5, <2>6
          DEF Execute, BeginClaim, BeginSource, BeginSubmitted, Begin, Awaits
<1>5. ASSUME NEW j \in Job, World(j)
      PROVE  LetsNobodyIn
  <2>1. CASE UNCHANGED <<jobs, programJobs>> /\ expired \subseteq expired'
    BY <1>1, <2>1
  <2>2. CASE LeaseRunsOut(j)
    BY <2>2 DEF LeaseRunsOut, LeasePasses, IInv, TypeOK, IssuedTypeOK, LetsNobodyIn,
                Consented, InQueue, ProgramInQueue
  <2> QED BY <1>5, <2>1, <2>2
          DEF World, ExecutorSubmits, ExecutorRevokes, ConsentEnds, Finalise
<1>6. ASSUME NEW credential \in Credential,
             IssuerRevokes(credential) \/ RequestsGoStale(credential)
      PROVE  LetsNobodyIn
  BY <1>1, <1>6 DEF IssuerRevokes, RequestsGoStale
<1> QED BY <1>2, <1>3, <1>4, <1>5, <1>6, FinishIsAdmitted DEF NextIssued

\* Program jobs: a save of a job that is not let in lets nobody in.
LEMMA SaveProgramLetsNobodyIn ==
  ASSUME IInv, NEW p \in ProgramJob, NEW row, SaveProgram(p, row),
         ProgramInQueue(row) => ProgramInQueue(programJobs[p])
  PROVE  LetsNobodyIn
BY DEF IInv, TypeOK, ProgramTypeOK, SaveProgram, LetsNobodyIn, Consented, InQueue,
       ProgramInQueue

\* Program jobs: a save lets in one job at most.
LEMMA SaveProgramAdmitsOne ==
  ASSUME IInv, NEW p \in ProgramJob, NEW row, SaveProgram(p, row), Admits
  PROVE  AdmitsOne
<1>1. Consented' \subseteq Consented \cup {p}
  BY DEF IInv, TypeOK, ProgramTypeOK, SaveProgram, Consented, InQueue, ProgramInQueue
<1> QED BY <1>1 DEF AdmitsOne

\* Program jobs: a write that lets a job in has counted the others.
LEMMA ProgramFinishIsAdmitted ==
  ASSUME IInv, NEW c \in programCalls, ProgramFinish(c)
  PROVE  LetsNobodyIn \/ AdmitsOne
<1> USE ProgramSnapshotsAreTyped DEF ProgramRow, Waiting, Engaged
<1>0. c.job \in ProgramJob /\ SameProgramRecord(c.seen, programJobs[c.job])
        /\ ProgramChecked(c)
  OBVIOUS
<1>1. ASSUME NEW row, SaveProgram(c.job, row), ProgramInQueue(row) => ProgramInQueue(c.seen)
      PROVE  LetsNobodyIn
  <2>1. ProgramInQueue(row) => ProgramInQueue(programJobs[c.job])
    BY <1>0, <1>1 DEF ProgramInQueue, SameProgramRecord
  <2> QED BY <1>0, <1>1, <2>1, SaveProgramLetsNobodyIn
<1>2. ASSUME NEW mode \in ProgramMode, RequestProgramJob(c, mode)
      PROVE  AdmitsOne
  BY <1>0, <1>2, SaveProgramAdmitsOne DEF RequestProgramJob, ProgramInserts
<1>3. CASE ControlProgramJob(c)
  <2>1. CASE c.op = "resume"
    BY <1>0, <1>3, <2>1, SaveProgramAdmitsOne DEF ControlProgramJob
  <2>2. CASE c.op = "approve"
    BY <1>0, <1>1, <1>3, <2>2 DEF ControlProgramJob, ProgramInQueue, ProgramChecked
  <2> QED BY <1>3, <2>1, <2>2 DEF ControlProgramJob
<1>4. CASE ClaimProgramJob(c)
  BY <1>0, <1>1, <1>4 DEF ClaimProgramJob, ProgramInQueue, ProgramChecked
<1>5. CASE ProgramHeartbeat(c)
  BY <1>1, <1>5 DEF ProgramHeartbeat, ProgramInQueue
<1>6. CASE ProgramSource(c)
  BY <1>1, <1>6 DEF ProgramSource, ProgramInQueue
<1>7. CASE ProgramSubmitted(c)
  BY <1>0, <1>1, <1>7 DEF ProgramSubmitted, ProgramInQueue, ProgramChecked
<1>8. CASE CompleteProgramVerification(c)
  BY <1>1, <1>8 DEF CompleteProgramVerification, ProgramInQueue
<1> QED BY <1>2, <1>3, <1>4, <1>5, <1>6, <1>7, <1>8 DEF ProgramFinish

\* Program jobs: so has every step.
LEMMA ProgramStepIsAdmitted ==
  ASSUME IInv, NextProgram, UNCHANGED issuedVars
  PROVE  LetsNobodyIn \/ AdmitsOne
<1> USE ProgramRowsAreTyped DEF ProgramRow, Waiting, Engaged
<1>1. ASSUME UNCHANGED <<jobs, programJobs>>, expired \subseteq expired'
      PROVE  LetsNobodyIn
  BY <1>1 DEF LetsNobodyIn, Consented, InQueue, ProgramInQueue
<1>2. ASSUME NEW p \in ProgramJob, ProgramVisit(p)
      PROVE  LetsNobodyIn
  <2>1. CASE UNCHANGED <<jobs, programJobs, expired>>
    BY <1>1, <2>1
  <2>2. CASE CancelProgramJob(p)
    BY <2>2, SaveProgramLetsNobodyIn DEF CancelProgramJob, ProgramInQueue
  <2> QED BY <1>2, <2>1, <2>2
          DEF ProgramVisit, BeginProgramRequest, BeginControl, BeginProgram
<1>3. ASSUME NEW p \in ProgramJob, ProgramWorld(p)
      PROVE  LetsNobodyIn
  <2>1. CASE UNCHANGED <<jobs, programJobs>> /\ expired \subseteq expired'
    BY <1>1, <2>1
  <2>2. CASE RefreshProgramJob(p)
    BY <2>2, SaveProgramLetsNobodyIn DEF RefreshProgramJob, ProgramInQueue
  <2>3. CASE ProgramLeaseRunsOut(p)
    BY <2>3 DEF ProgramLeaseRunsOut, ProgramLeasePasses, IInv, TypeOK, ProgramTypeOK,
                LetsNobodyIn, Consented, InQueue, ProgramInQueue
  <2> QED BY <1>3, <2>1, <2>2, <2>3
          DEF ProgramWorld, BeginProgramComplete, BeginProgram, ProgramExecutorSubmits,
              ProgramConsentEnds
<1>4. ASSUME NEW w \in ProgramWorker, NEW p \in ProgramJob, ProgramExecute(w, p)
      PROVE  LetsNobodyIn
  <2>1. CASE UNCHANGED <<jobs, programJobs, expired>>
    BY <1>1, <2>1
  <2>2. ASSUME NEW target \in ProgramTarget, BindProgram(w, p, target)
        PROVE  LetsNobodyIn
    BY <2>2, SaveProgramLetsNobodyIn DEF BindProgram, ProgramInQueue
  <2>3. CASE ProgramReceipt(w, p)
    BY <2>3, SaveProgramLetsNobodyIn DEF ProgramReceipt, ProgramInQueue
  <2>4. CASE ProgramFailed(w, p)
    BY <2>4, SaveProgramLetsNobodyIn DEF ProgramFailed, ProgramInQueue
  <2> QED BY <1>4, <2>1, <2>2, <2>3, <2>4
          DEF ProgramExecute, BeginProgramClaim, BeginProgramHeartbeat,
              BeginProgramSource, BeginProgramSubmitted, BeginProgram
<1>5. ASSUME NEW application \in Application, MaterialsGoStale(application)
      PROVE  LetsNobodyIn
  BY <1>1, <1>5 DEF MaterialsGoStale
<1> QED BY <1>2, <1>3, <1>4, <1>5, ProgramFinishIsAdmitted DEF NextProgram

\* Requests and resumes of both families never let more jobs with a running consent
\* into the queue than its capacity, for any number of jobs and any interleaving of
\* the predicates with claims, verifications and revocations.
THEOREM CapacityHolds == Spec => []ConsentedJobsWithinCapacity
<1> DEFINE Room == Cardinality(Consented) <= Capacity
<1>1. Init => Room
  <2> SUFFICES ASSUME Init PROVE Room
    OBVIOUS
  <2>1. Consented = {}
    BY DEF Init, InitIssued, InitProgram, Consented, InQueue, ProgramInQueue, Absent,
           AbsentProgram, Waiting, Engaged
  <2>2. Cardinality(Consented) = 0
    BY <2>1, FS_EmptySet
  <2> QED BY <2>2, CapacityAssumption
<1>2. IInv /\ Room /\ [Next]_vars => Room'
  <2> SUFFICES ASSUME IInv, Room, [Next]_vars PROVE Room'
    OBVIOUS
  <2>1. Cardinality(Consented) \in Nat /\ IsFiniteSet(Consented) /\ Capacity \in Nat
    BY ConsentedIsFinite, CapacityAssumption
  <2>2. CASE LetsNobodyIn
    <3>1. Cardinality(Consented') <= Cardinality(Consented)
            /\ Cardinality(Consented') \in Nat
      BY <2>1, <2>2, FS_Subset, FS_CardinalityType DEF LetsNobodyIn
    <3> QED BY <2>1, <3>1
  <2>3. CASE AdmitsOne
    <3>1. PICK x \in Job \cup ProgramJob : Consented' \subseteq Consented \cup {x}
      BY <2>3 DEF AdmitsOne
    <3>2. /\ IsFiniteSet(Consented \cup {x})
          /\ Cardinality(Consented \cup {x}) \in Nat
          /\ Cardinality(Consented \cup {x}) <= Cardinality(Consented) + 1
      <4>1. /\ IsFiniteSet(Consented \cup {x})
            /\ Cardinality(Consented \cup {x}) =
                 IF x \in Consented THEN Cardinality(Consented)
                                    ELSE Cardinality(Consented) + 1
        BY <2>1, FS_AddElement
      <4> QED BY <2>1, <4>1
    <3>3. Cardinality(Consented') \in Nat
            /\ Cardinality(Consented') <= Cardinality(Consented \cup {x})
      BY <3>1, <3>2, FS_Subset, FS_CardinalityType
    <3>4. Cardinality(Consented) + 1 <= Capacity
      BY <2>3, AdmissionLeavesRoom DEF AdmitsOne
    <3> QED BY <2>1, <3>2, <3>3, <3>4
  <2>4. CASE UNCHANGED vars
    BY <2>4 DEF vars, Consented, InQueue, ProgramInQueue
  <2> QED BY <2>2, <2>3, <2>4, IssuedStepIsAdmitted, ProgramStepIsAdmitted DEF Next
<1>3. Room => ConsentedJobsWithinCapacity
  BY ConsentedIsProofSlots DEF ConsentedJobsWithinCapacity
<1> QED BY <1>1, <1>2, <1>3, Invariance, PTL DEF Spec

=============================================================================
