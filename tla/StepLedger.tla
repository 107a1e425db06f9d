------------------------------ MODULE StepLedger ------------------------------
(***************************************************************************)
(* What an executor of a chain job promises about the transactions it      *)
(* signs, whatever interrupts it (docs/operations-runbook.md: "failed,     *)
(* expired and uncertain transactions are not sent again automatically").  *)
(* A proof is a fixed order of steps; every step is given to the network   *)
(* at most once, only when the steps before it are final, and no step of   *)
(* the proof follows the revocation.                                       *)
(***************************************************************************)
EXTENDS Integers

CONSTANTS
  ProofSteps,   \* the proof's transactions are 1..ProofSteps, 1 deploys
  SubmitSteps   \* those that the contract refuses once it is revoked

ASSUME StepsAssumption ==
  /\ ProofSteps \in Nat \ {0, 1}
  /\ SubmitSteps \subseteq 2..ProofSteps

Revoke    == 0
Deploy    == 1
ProofStep == 1..ProofSteps
Step      == {Revoke} \cup ProofStep

VARIABLES
  sends,  \* [Step -> how many transactions of the step reached the network]
  final   \* the steps one of whose transactions the chain has finalised

ledgerVars == <<sends, final>>

InitLedger ==
  /\ sends = [s \in Step |-> 0]
  /\ final = {}

SendOnce(s) ==
  /\ sends[s] = 0
  /\ IF s = Revoke THEN Deploy \in final
                   ELSE 1..(s - 1) \subseteq final /\ sends[Revoke] = 0
  /\ sends' = [sends EXCEPT ![s] = 1]
  /\ UNCHANGED final

\* A transaction that reached the network is finalised some time, or never.
FinaliseStep(s) ==
  /\ sends[s] > 0
  /\ s \notin final
  /\ s \in SubmitSteps => Revoke \notin final
  /\ final' = final \cup {s}
  /\ UNCHANGED sends

NextLedger == \E s \in Step : SendOnce(s) \/ FinaliseStep(s)

LedgerSpec == InitLedger /\ [][NextLedger]_ledgerVars
=============================================================================
