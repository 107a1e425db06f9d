------------------------------ MODULE JobLedger ------------------------------
(***************************************************************************)
(* What the web server promises about chain jobs, of either family, and    *)
(* what it leaves to the executor and the chain: the life of a job from    *)
(* the visitor's request to the verified proof, and from the issuer's      *)
(* revocation to the verified withdrawal.  Who asks, polls, races or dies  *)
(* is of no concern here.                                                  *)
(***************************************************************************)

CONSTANTS
  Job,      \* ids of jobs
  Subject,  \* what a job proves: a credential or an application
  Nobody    \* the subject of a job that was not asked for

VARIABLES
  stage,      \* the stage of every job
  subject,    \* what it is about
  sourced,    \* the jobs whose contract's source is recorded
  disowned,   \* the subjects their issuer has revoked
  proved,     \* the jobs whose contract has finalised the proof
  withdrawn   \* the jobs whose contract has finalised the revocation

ledgerVars == <<stage, subject, sourced, disowned, proved, withdrawn>>
worldVars  == <<disowned, proved, withdrawn>>

\* The stages in which a job stands for its subject.
Open == {"asked", "queued", "running", "interrupted", "submitted", "confirmed"}

Stage == Open \cup {"none", "closed", "revoking", "revoked"}

InitLedger ==
  /\ stage = [j \in Job |-> "none"]
  /\ subject = [j \in Job |-> Nobody]
  /\ sourced = {} /\ disowned = {} /\ proved = {} /\ withdrawn = {}

Goes(j, from, to) ==
  /\ stage[j] \in from
  /\ stage' = [stage EXCEPT ![j] = to]
  /\ UNCHANGED <<subject, sourced, worldVars>>

Disowned(j) == subject[j] \in disowned

\* A job is opened for a subject that no open job is about.
Request(j, s) ==
  /\ stage[j] = "none"
  /\ \A i \in Job : subject[i] = s => stage[i] \notin Open
  /\ \E to \in {"asked", "queued"} : stage' = [stage EXCEPT ![j] = to]
  /\ subject' = [subject EXCEPT ![j] = s]
  /\ UNCHANGED <<sourced, worldVars>>

Approve(j)   == Goes(j, {"asked"}, "queued")
Claim(j)     == Goes(j, {"queued"}, "running")
Interrupt(j) == Goes(j, {"running"}, "interrupted")
Resume(j)    == Goes(j, {"interrupted"}, "queued")
Submit(j)    == Goes(j, {"running"}, "submitted") /\ j \in sourced
Confirm(j)   == Goes(j, {"submitted"}, "confirmed") /\ j \in sourced \cap proved

\* Before a claim a job may be cancelled, refused or outlived by its consent.
Close(j)     == Goes(j, {"asked", "queued"}, "closed")

\* The issuer's revocation closes what no contract is bound to, and an executor
\* that had the job by then may still report its failure.
Abandon(j)   == Goes(j, {"running", "interrupted"}, "closed") /\ Disowned(j)
Return(j)    == Goes(j, {"closed"}, "interrupted") /\ Disowned(j)

\* It is carried to the contract of any other, and ends with the verified
\* withdrawal only.
Pursue(j)    == Goes(j, (Open \ {"asked"}) \cup {"closed"}, "revoking") /\ Disowned(j)
Retire(j)    == Goes(j, {"revoking"}, "revoked") /\ j \in sourced \cap withdrawn

Record(j) ==
  /\ stage[j] = "running"
  /\ sourced' = sourced \cup {j}
  /\ UNCHANGED <<stage, subject, worldVars>>

-----------------------------------------------------------------------------
(***************************************************************************)
(* The issuer, and the chain as the executor moves it.                     *)
(***************************************************************************)

Disown(s) ==
  /\ disowned' = disowned \cup {s}
  /\ UNCHANGED <<stage, subject, sourced, proved, withdrawn>>

\* The contract takes no proof once it holds the revocation.
Prove(j) ==
  /\ j \in sourced \ withdrawn
  /\ proved' = proved \cup {j}
  /\ UNCHANGED <<stage, subject, sourced, disowned, withdrawn>>

Withdraw(j) ==
  /\ stage[j] = "revoking"
  /\ withdrawn' = withdrawn \cup {j}
  /\ UNCHANGED <<stage, subject, sourced, disowned, proved>>

-----------------------------------------------------------------------------
Serve(j) ==
  \/ \E s \in Subject : Request(j, s)
  \/ Approve(j) \/ Claim(j) \/ Record(j) \/ Submit(j) \/ Confirm(j)
  \/ Interrupt(j) \/ Resume(j) \/ Close(j)
  \/ Abandon(j) \/ Return(j) \/ Pursue(j) \/ Retire(j)

NextLedger ==
  \/ \E j \in Job : Serve(j) \/ Prove(j) \/ Withdraw(j)
  \/ \E s \in Subject : Disown(s)

LedgerSpec == InitLedger /\ [][NextLedger]_ledgerVars

-----------------------------------------------------------------------------
(***************************************************************************)
(* What follows from the ledger alone.                                     *)
(***************************************************************************)

\* A confirmed job was proved on its contract, a job under revocation is about a
\* disowned subject, and it is revoked once its contract says so.
StandsOnChain ==
  \A j \in Job :
    /\ stage[j] = "confirmed" => j \in sourced \cap proved
    /\ stage[j] \in {"revoking", "revoked"} => Disowned(j)
    /\ stage[j] = "revoked" => j \in sourced \cap withdrawn

\* A revocation that finds a contract without a recorded source has no end: the
\* source is recorded of running jobs only, and the withdrawal is verified of
\* sourced ones only.
UnsourcedRevocationHasNoEnd ==
  [][\A j \in Job :
       stage[j] = "revoking" /\ j \notin sourced =>
         stage'[j] = "revoking" /\ j \notin sourced']_ledgerVars
=============================================================================
