----------------------------- MODULE ProofQueue -----------------------------
(***************************************************************************)
(* The capacity that the two families of chain jobs share                  *)
(* (lib/proof-queue.ts).  Issued-credential jobs live in the table         *)
(* proof_jobs, program jobs in program_proof_jobs; every admission of      *)
(* either family counts the rows of both tables in the same SQL statement  *)
(* that writes the row.                                                    *)
(*                                                                         *)
(* Time appears only through what the code compares with it.  A consent    *)
(* is in `expired` or not; a lease is "live", "due" (it ends at this very  *)
(* instant), "past", or "none" (leaseExpiresAt is 0 or was never set).     *)
(***************************************************************************)
EXTENDS FiniteSets, Naturals

CONSTANTS
  Job,          \* ids of rows of proof_jobs
  ProgramJob,   \* ids of rows of program_proof_jobs
  Capacity      \* proofQueuePolicy().capacity, BIZPROOF_PROOF_QUEUE_LIMIT

ASSUME CapacityAssumption == Capacity \in Nat \ {0}
ASSUME JobsAssumption ==
  /\ IsFiniteSet(Job)
  /\ IsFiniteSet(ProgramJob)
  /\ Job \cap ProgramJob = {}

VARIABLES
  jobs,         \* [Job -> row], the table proof_jobs
  programJobs,  \* [ProgramJob -> row], the table program_proof_jobs
  expired       \* the jobs of either table whose 90-minute consent has ended

Waiting  == {"awaiting_approval", "queued"}
Engaged  == {"running", "awaiting_verification"}
Closed   == {"cancelled", "blocked"}
Status   == {"absent", "confirmed", "needs_attention"}
              \cup Waiting \cup Engaged \cup Closed

LeasePhase == {"none", "live", "due", "past"}

\* What both sub-selects of proofQueueCountSql say of a row's status.
HoldsProofSlot(id, status) ==
  \/ status \in Waiting /\ id \notin expired
  \/ status \in Engaged

\* proof_jobs also counts every revocation still to be carried to the chain.
HoldsSlot(j) ==
  \/ HoldsProofSlot(j, jobs[j].status)
  \/ jobs[j].revocation = "pending"

Slots == {j \in Job : HoldsSlot(j)}
           \cup {p \in ProgramJob : HoldsProofSlot(p, programJobs[p].status)}

ProofQueueCount == Cardinality(Slots)

(***************************************************************************)
(* The predicate in the INSERT of a request and in the UPDATE of a resume. *)
(* proofQueueStatus may report a lower capacity while recent jobs take     *)
(* long (never under 1): that refuses more, and a refusal changes nothing. *)
(***************************************************************************)
Admits == ProofQueueCount < Capacity
=============================================================================
