--------------------------- MODULE MCProofPlatform ---------------------------
(* Instances of ProofPlatform for TLC. *)
EXTENDS ProofPlatform, TLC

\* Ids, executors and contracts are only ever compared.  Not for liveness.
Symmetry == Permutations(Job) \cup Permutations(ProgramJob)
              \cup Permutations(Worker) \cup Permutations(Target)
=============================================================================
