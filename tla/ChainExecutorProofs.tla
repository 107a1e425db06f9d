-------------------------- MODULE ChainExecutorProofs --------------------------
(***************************************************************************)
(* For every number of steps and of interruptions: what an executor has    *)
(* sent is in its journal, its receipts are of final transactions, and it  *)
(* implements StepLedger.  The argument is in RecordInv: the process's     *)
(* journal and the one on disk differ in the transaction's id only, every  *)
(* transaction sent is recorded, and a step that has been taken up but not *)
(* sent is new and has its predecessors final.                             *)
(*                                                                         *)
(* Then: the executor and the chain keep what the server's ledger of jobs  *)
(* (JobLedger) asks of them, a job that lost its key or its secret sends   *)
(* nothing more, the chain holds the proof without gaps, and the program's *)
(* script recovers a deployment with its client connected.                 *)
(***************************************************************************)
EXTENDS ChainExecutor, TLAPS

\* A step's call is under way.
Underway == phase \in {"called", "cleared", "sent", "stored", "filed"}

JournalType ==
  /\ file \in Journal
  /\ memory \in Journal
  /\ phase \in Phase
  /\ kind \in {"none", "proof", "revoke"}
  /\ server \in Server
  /\ sends \in [Step -> Nat]
  /\ final \in SUBSET Step

\* Every write of the journal is persisted at once, but for the transaction's id.
SameJournal ==
  /\ memory.pending = file.pending
  /\ memory.completed = file.completed
  /\ memory.abandoned = file.abandoned
  /\ memory.contract = file.contract

OneUncertainStep == \A s, t \in memory.pending : s = t

\* Between two runs nothing but the disk speaks for the job.
IdleInv ==
  /\ phase = "off" => memory = file
  /\ phase = "off" <=> kind = "none"

Recorded ==
  \A s \in Step :
    sends[s] > 0 => s \in memory.completed \cup memory.abandoned \cup memory.pending

\* Whatever belongs to a revocation presupposes that the server knows of it, and
\* it takes a contract on record for that.
RevocationInv ==
  /\ server.revocation => server.bound
  /\ kind = "revoke" => server.revocation
  /\ Revoke \in memory.pending => server.revocation
  /\ sends[Revoke] > 0 => server.revocation
  /\ memory.abandoned # {} => server.revocation
  /\ memory.abandoned \subseteq ProofStep

\* While a proof runs no revocation has been begun: no other process can begin it.
ProofInv ==
  kind = "proof" =>
    /\ sends[Revoke] = 0
    /\ memory.abandoned = {}
    /\ Revoke \notin memory.pending

ContractInv ==
  /\ memory.contract => Deploy \in memory.completed
  /\ phase \in {"bound", "working", "keyed"} => memory.contract
  /\ phase = "finalised" => Deploy \in memory.completed
  /\ Underway => memory.contract \/ memory.pending = {Deploy}

\* The step a call is about: new and with its predecessors final until it is sent.
CallInv ==
  /\ Underway => memory.pending # {}
  /\ phase \in {"called", "cleared"} =>
       \A s \in memory.pending :
         /\ sends[s] = 0
         /\ s = Revoke => Deploy \in final
         /\ s # Revoke => 1..(s - 1) \subseteq final /\ kind = "proof"

RecordInv ==
  /\ JournalType
  /\ SameJournal
  /\ OneUncertainStep
  /\ IdleInv
  /\ Recorded
  /\ memory.completed \subseteq final
  /\ RevocationInv
  /\ ProofInv
  /\ ContractInv
  /\ CallInv

-----------------------------------------------------------------------------
\* The revocation is not one of the proof's transactions; the deployment is the first.
LEMMA RevokeIsNoProofStep == /\ Revoke \notin ProofStep /\ Revoke # Deploy
                             /\ Deploy \in ProofStep /\ Deploy \in Step /\ Revoke \in Step
                             /\ ProofStep = Step \ {Revoke}
BY StepsAssumption DEF Revoke, Deploy, ProofStep, Step

\* A job nobody has worked on has an empty journal and no transaction.
THEOREM RecordInit == InitExecutor => RecordInv
BY RevokeIsNoProofStep
   DEF InitExecutor, InitLedger, RecordInv, JournalType, SameJournal, OneUncertainStep,
       IdleInv, Recorded, RevocationInv, ProofInv, ContractInv, CallInv, Underway,
       EmptyJournal, Journal, Phase, Server

\* The server never forgets a revocation or a contract.
ServerStep ==
  /\ server' \in Server
  /\ server.revocation => server'.revocation
  /\ server'.revocation => server'.bound

\* Every command and every refresh keeps the revocation and the contract of the row.
LEMMA ServerMoves == RecordInv /\ [Next]_vars => ServerStep
<1> SUFFICES ASSUME RecordInv, [Next]_vars PROVE ServerStep
  OBVIOUS
<1>0. server \in Server /\ (server.revocation => server.bound)
  BY DEF RecordInv, JournalType, RevocationInv
<1>1. CASE server' = server
  BY <1>0, <1>1 DEF ServerStep
<1>2. CASE Start
  BY <1>0, <1>1, <1>2 DEF Start, ServerStep, Server, Undisturbed
<1>3. CASE Bind
  BY <1>0, <1>1, <1>3 DEF Bind, ServerStep, Server, Undisturbed
<1>4. CASE Source
  BY <1>0, <1>1, <1>4 DEF Source, ServerStep, Server, Undisturbed
<1>5. CASE Finish
  BY <1>0, <1>1, <1>5 DEF Finish, ServerStep, Server, Undisturbed
<1>6. CASE Throw
  <2>1. Fails
    BY <1>6 DEF Throw
  <2> QED
    BY <1>0, <1>1, <2>1 DEF Fails, ServerStep, Server
<1>7. CASE Interrupt
  BY <1>0, <1>1, <1>7 DEF Interrupt, Fails, ServerStep, Server, Undisturbed
<1>8. CASE LeaseEnds
  BY <1>0, <1>1, <1>8 DEF LeaseEnds, ServerStep, Server, Undisturbed
<1>9. CASE Refresh
  BY <1>0, <1>1, <1>9 DEF Refresh, ServerStep, Server, Undisturbed
<1>10. CASE Resume
  BY <1>0, <1>1, <1>10 DEF Resume, ServerStep, Server, Undisturbed
<1>11. CASE NoteRevocation
  BY <1>0, <1>1, <1>11 DEF NoteRevocation, ServerStep, Server, Undisturbed
<1>12. ASSUME NEW s \in Step, Execute(s) \/ Finalise(s) PROVE server' = server
  BY <1>12 DEF Execute, BeginStep, ClearStep, SendStep, CompleteStep, Finalise
<1> QED
  BY <1>1, <1>2, <1>3, <1>4, <1>5, <1>6, <1>7, <1>8, <1>9, <1>10, <1>11, <1>12 DEF Next, Run,
       World, vars,
     Abandon, Recover, Adopt, Prepare, FindDeployment, CreateKey, NoteKey, StoreId,
       ReportSent, StoreSecret, FileReceipt, IssuerRevokes

\* Every step keeps the journal, the row and the chain what they are by type.
LEMMA TypeNext == RecordInv /\ [Next]_vars => JournalType'
<1> SUFFICES ASSUME RecordInv, [Next]_vars PROVE JournalType'
  OBVIOUS
<1> USE RevokeIsNoProofStep DEF Undisturbed
<1>0. JournalType /\ server' \in Server
  BY ServerMoves DEF RecordInv, ServerStep
<1>1. CASE Start
  BY <1>0, <1>1 DEF Start, Persist, Journal, Goes, JournalType, Phase, ledgerVars, processVars
<1>2. CASE Abandon
  BY <1>0, <1>2 DEF Abandon, Persist, Journal, Goes, JournalType, Phase, ledgerVars, processVars
<1>3. CASE Recover
  BY <1>0, <1>3 DEF Recover, Persist, Journal, Goes, JournalType, Phase, ledgerVars, processVars
<1>4. CASE Adopt
  BY <1>0, <1>4 DEF Adopt, Persist, Journal, Goes, JournalType, Phase, ledgerVars, processVars
<1>5. CASE Prepare
  BY <1>0, <1>5 DEF Prepare, Goes, JournalType, Phase, ledgerVars, processVars
<1>6. CASE FindDeployment
  BY <1>0, <1>6 DEF FindDeployment, Persist, Journal, Goes, JournalType, Phase, ledgerVars,
       processVars
<1>7. CASE Bind
  BY <1>0, <1>7 DEF Bind, Goes, JournalType, Phase, ledgerVars, processVars
<1>8. CASE Source
  BY <1>0, <1>8 DEF Source, Goes, JournalType, Phase, ledgerVars, processVars
<1>9. CASE CreateKey
  BY <1>0, <1>9 DEF CreateKey, Goes, JournalType, Phase, ledgerVars, processVars
<1>10. CASE NoteKey
  BY <1>0, <1>10 DEF NoteKey, Persist, Journal, Goes, JournalType, Phase, ledgerVars,
       processVars
<1>11. CASE StoreId
  BY <1>0, <1>11 DEF StoreId, Persist, Journal, Goes, JournalType, Phase, ledgerVars,
       processVars
<1>12. CASE ReportSent
  BY <1>0, <1>12 DEF ReportSent, Goes, JournalType, Phase, ledgerVars, processVars
<1>13. CASE FileReceipt
  BY <1>0, <1>13 DEF FileReceipt, Persist, Journal, Goes, JournalType, Phase, ledgerVars,
       processVars
<1>14. CASE Finish
  BY <1>0, <1>14 DEF Finish, Exits, Persist, Journal, Goes, JournalType, Phase, ledgerVars,
       processVars
<1>15. CASE Throw
  BY <1>0, <1>15 DEF Throw, Fails, Exits, Persist, Journal, Goes, JournalType, Phase,
       ledgerVars, processVars
<1>16. CASE Interrupt
  BY <1>0, <1>16 DEF Interrupt, Fails, Exits, Persist, Journal, Goes, JournalType, Phase,
       ledgerVars, processVars
<1>17. CASE LeaseEnds
  BY <1>0, <1>17 DEF LeaseEnds, Goes, JournalType, Phase, ledgerVars, processVars
<1>18. CASE Refresh
  BY <1>0, <1>18 DEF Refresh, Goes, JournalType, Phase, ledgerVars, processVars
<1>19. CASE Resume
  BY <1>0, <1>19 DEF Resume, Goes, JournalType, Phase, ledgerVars, processVars
<1>20. CASE IssuerRevokes
  BY <1>0, <1>20 DEF IssuerRevokes, Goes, JournalType, Phase, ledgerVars, processVars
<1>21. CASE NoteRevocation
  BY <1>0, <1>21 DEF NoteRevocation, Goes, JournalType, Phase, ledgerVars, processVars
<1>22. ASSUME NEW s \in Step, BeginStep(s) PROVE JournalType'
  BY <1>0, <1>22 DEF BeginStep, Persist, Journal, Goes, JournalType, Phase, ledgerVars,
       processVars
<1>23. ASSUME NEW s \in Step, ClearStep(s) PROVE JournalType'
  BY <1>0, <1>23 DEF ClearStep, Goes, JournalType, Phase, ledgerVars, processVars
<1>24. ASSUME NEW s \in Step, SendStep(s) PROVE JournalType'
  <2>1. memory' \in Journal /\ file' \in Journal
    BY <1>0, <1>24 DEF SendStep, Journal, JournalType
  <2>2. sends' \in [Step -> Nat] /\ final' \in SUBSET Step
    BY <1>0, <1>24 DEF SendStep, JournalType
  <2>3. phase' \in Phase /\ kind' = kind
    BY <1>24 DEF SendStep, Goes, Phase
  <2> QED
    BY <1>0, <2>1, <2>2, <2>3 DEF JournalType
<1>25. ASSUME NEW s \in Step, CompleteStep(s) PROVE JournalType'
  BY <1>0, <1>25 DEF CompleteStep, Persist, Journal, Goes, JournalType, Phase, ledgerVars,
       processVars
<1>26. ASSUME NEW s \in Step, Finalise(s) PROVE JournalType'
  BY <1>0, <1>26 DEF Finalise, FinaliseStep, Goes, JournalType, Phase, ledgerVars, processVars
<1>27. CASE StoreSecret
  BY <1>0, <1>27 DEF StoreSecret, JournalType, ledgerVars, processVars
<1>28. CASE UNCHANGED vars
  BY <1>0, <1>28 DEF vars, JournalType, ledgerVars, processVars
<1> QED
  BY <1>0, <1>1, <1>2, <1>3, <1>4, <1>5, <1>6, <1>7, <1>8, <1>9, <1>10, <1>11, <1>12, <1>13,
       <1>14, <1>15, <1>16, <1>17, <1>18, <1>19, <1>20, <1>21, <1>22, <1>23, <1>24, <1>25,
       <1>26, <1>27, <1>28 DEF Next, Run, World, Execute

\* A step that leaves the journal and the chain alone, and takes the process to a
\* phase that asks nothing new.
QuietStep ==
  /\ UNCHANGED <<memory, file, kind, sends, final>>
  /\ \/ phase' = phase
     \/ phase = "claimed" /\ phase' = "ready"
     \/ phase = "ready" /\ phase' = "bound" /\ memory.contract
     \/ phase = "bound" /\ phase' = "working"
     \/ phase = "working" /\ phase' = "keyed"
     \/ phase = "called" /\ phase' = "cleared"
     \/ phase = "stored" /\ phase' = "filed"

\* Such a step keeps the record: awaits, commands and what the server does alone.
LEMMA QuietNext ==
  RecordInv /\ ServerStep /\ JournalType' /\ QuietStep => RecordInv'
BY DEF QuietStep, ServerStep, RecordInv, SameJournal, OneUncertainStep, IdleInv, Recorded,
       RevocationInv, ProofInv, ContractInv, CallInv, Underway

\* The end of a run: what was only in the process's memory is gone.
Ends ==
  /\ phase' = "off" /\ kind' = "none" /\ memory' = file
  /\ UNCHANGED <<file, sends, final>>

\* The end of a run keeps the record, for the journal on disk has all of it.
LEMMA EndsNext ==
  RecordInv /\ ServerStep /\ JournalType' /\ Ends => RecordInv'
BY DEF Ends, ServerStep, RecordInv, SameJournal, OneUncertainStep, IdleInv, Recorded,
       RevocationInv, ProofInv, ContractInv, CallInv, Underway

\* Every step of the executor, the server and the chain keeps the record.
LEMMA RecordNext == RecordInv /\ [Next]_vars => RecordInv'
<1> SUFFICES ASSUME RecordInv, [Next]_vars PROVE RecordInv'
  OBVIOUS
<1>0. ServerStep /\ JournalType'
  BY ServerMoves, TypeNext
<1>t. memory \in Journal /\ file \in Journal /\ sends \in [Step -> Nat]
  BY DEF RecordInv, JournalType
<1> USE DEF Undisturbed, Goes
<1>1. CASE Prepare
  <2> QuietStep
    BY <1>1 DEF Prepare, QuietStep, ledgerVars, processVars
  <2> QED
    BY <1>0, QuietNext
<1>2. CASE Bind
  <2> QuietStep
    BY <1>2 DEF Bind, QuietStep, ledgerVars, processVars
  <2> QED
    BY <1>0, QuietNext
<1>3. CASE Source
  <2> QuietStep
    BY <1>3 DEF Source, QuietStep, ledgerVars, processVars
  <2> QED
    BY <1>0, QuietNext
<1>4. CASE CreateKey
  <2> QuietStep
    BY <1>4 DEF CreateKey, QuietStep, ledgerVars, processVars
  <2> QED
    BY <1>0, QuietNext
<1>5. CASE ReportSent
  <2> QuietStep
    BY <1>5 DEF ReportSent, QuietStep, ledgerVars, processVars
  <2> QED
    BY <1>0, QuietNext
<1>6. CASE LeaseEnds
  <2> QuietStep
    BY <1>6 DEF LeaseEnds, QuietStep, ledgerVars, processVars
  <2> QED
    BY <1>0, QuietNext
<1>7. CASE Refresh
  <2> QuietStep
    BY <1>7 DEF Refresh, QuietStep, ledgerVars, processVars
  <2> QED
    BY <1>0, QuietNext
<1>8. CASE Resume
  <2> QuietStep
    BY <1>8 DEF Resume, QuietStep, ledgerVars, processVars
  <2> QED
    BY <1>0, QuietNext
<1>9. CASE IssuerRevokes
  <2> QuietStep
    BY <1>9 DEF IssuerRevokes, QuietStep, ledgerVars, processVars
  <2> QED
    BY <1>0, QuietNext
<1>10. CASE NoteRevocation
  <2> QuietStep
    BY <1>10 DEF NoteRevocation, QuietStep, ledgerVars, processVars
  <2> QED
    BY <1>0, QuietNext
<1>11. CASE Finish
  <2> Ends
    BY <1>11 DEF Finish, Ends, Exits, ledgerVars
  <2> QED
    BY <1>0, EndsNext
<1>12. CASE Throw
  <2> Ends
    BY <1>12 DEF Throw, Fails, Ends, Exits, ledgerVars
  <2> QED
    BY <1>0, EndsNext
<1>13. CASE Interrupt
  <2> Ends
    BY <1>13 DEF Interrupt, Fails, Ends, Exits, ledgerVars
  <2> QED
    BY <1>0, EndsNext
<1>14. CASE Start
  <2>1. /\ memory' = file /\ file' = file
    BY <1>t, <1>14 DEF Start, Persist, Journal
  <2>2. /\ phase = "off" /\ phase' = "claimed"
        /\ UNCHANGED <<sends, final>>
        /\ kind' = "revoke" => server.revocation
        /\ kind' = "proof" => ~server.revocation
        /\ kind' \in {"revoke", "proof"}
    BY <1>14 DEF Start, ledgerVars
  <2> QED
    BY <1>0, <1>t, <2>1, <2>2, RevokeIsNoProofStep
    DEF ServerStep, RecordInv, SameJournal, OneUncertainStep, IdleInv, Recorded,
       RevocationInv, ProofInv, ContractInv, CallInv, Underway
<1>15. CASE Abandon
  <2>1. /\ memory' = file'
        /\ memory'.pending = {}
        /\ memory'.completed = memory.completed
        /\ memory'.abandoned = memory.abandoned \cup memory.pending
        /\ memory'.contract = memory.contract
        /\ memory.pending \subseteq Step
    BY <1>t, <1>15 DEF Abandon, Persist, Journal
  <2>2. /\ UNCHANGED <<phase, kind, sends, final>>
        /\ phase = "claimed" /\ kind = "revoke"
        /\ memory.pending \notin {{}, {Revoke}}
    BY <1>15 DEF Abandon, ledgerVars
  <2> QED
    BY <1>0, <1>t, <2>1, <2>2, RevokeIsNoProofStep
    DEF ServerStep, RecordInv, SameJournal, OneUncertainStep, IdleInv, Recorded,
       RevocationInv, ProofInv, ContractInv, CallInv, Underway
<1>16. CASE Recover
  <2>1. /\ memory' = file'
        /\ memory'.pending = {}
        /\ memory'.completed = memory.completed \cup memory.pending
        /\ memory'.abandoned = memory.abandoned
        /\ memory'.contract = memory.contract
    BY <1>t, <1>16 DEF Recover, Persist, Journal
  <2>2. /\ UNCHANGED <<phase, kind, sends, final>>
        /\ phase = "claimed"
        /\ memory.pending \subseteq final
    BY <1>16 DEF Recover, ledgerVars, RecoversFrom
  <2> QED
    BY <1>0, <1>t, <2>1, <2>2
    DEF ServerStep, RecordInv, SameJournal, OneUncertainStep, IdleInv, Recorded,
       RevocationInv, ProofInv, ContractInv, CallInv, Underway
<1>17. CASE Adopt
  <2>1. /\ memory' = file'
        /\ memory'.pending = memory.pending
        /\ memory'.completed = memory.completed
        /\ memory'.abandoned = memory.abandoned
    BY <1>t, <1>17 DEF Adopt, Persist, Journal
  <2>2. /\ UNCHANGED <<phase, kind, sends, final>>
        /\ phase = "claimed"
        /\ Deploy \in memory.completed
    BY <1>17 DEF Adopt, ledgerVars, AdoptsContract
  <2> QED
    BY <1>0, <1>t, <2>1, <2>2
    DEF ServerStep, RecordInv, SameJournal, OneUncertainStep, IdleInv, Recorded,
       RevocationInv, ProofInv, ContractInv, CallInv, Underway
<1>18. CASE FindDeployment
  <2>1. /\ memory' = file'
        /\ memory'.pending = memory.pending
        /\ memory'.completed = memory.completed
        /\ memory'.abandoned = memory.abandoned
    BY <1>t, <1>18 DEF FindDeployment, Persist, Journal
  <2>2. /\ UNCHANGED <<phase, kind, sends, final>>
        /\ phase = "ready"
        /\ Deploy \in memory.completed
    BY <1>18 DEF FindDeployment, ledgerVars
  <2> QED
    BY <1>0, <1>t, <2>1, <2>2
    DEF ServerStep, RecordInv, SameJournal, OneUncertainStep, IdleInv, Recorded,
       RevocationInv, ProofInv, ContractInv, CallInv, Underway
<1>19. CASE NoteKey
  <2>1. /\ memory' = file'
        /\ memory'.pending = memory.pending
        /\ memory'.completed = memory.completed
        /\ memory'.abandoned = memory.abandoned
        /\ memory'.contract = memory.contract
    BY <1>t, <1>19 DEF NoteKey, Persist, Journal
  <2>2. /\ UNCHANGED <<kind, sends, final>>
        /\ phase = "keyed" /\ phase' = "working"
    BY <1>19 DEF NoteKey, ledgerVars
  <2> QED
    BY <1>0, <1>t, <2>1, <2>2
    DEF ServerStep, RecordInv, SameJournal, OneUncertainStep, IdleInv, Recorded,
       RevocationInv, ProofInv, ContractInv, CallInv, Underway
<1>20. CASE StoreId
  <2>1. /\ memory' = memory /\ file' = memory
    BY <1>t, <1>20 DEF StoreId, Persist, Journal
  <2>2. /\ UNCHANGED <<kind, sends, final>>
        /\ phase = "sent" /\ phase' = "stored"
    BY <1>20 DEF StoreId, ledgerVars
  <2> QED
    BY <1>0, <1>t, <2>1, <2>2
    DEF ServerStep, RecordInv, SameJournal, OneUncertainStep, IdleInv, Recorded,
       RevocationInv, ProofInv, ContractInv, CallInv, Underway
<1>21. CASE FileReceipt
  <2>1. /\ memory'.pending = memory.pending /\ file'.pending = file.pending
        /\ memory'.completed = memory.completed /\ file'.completed = file.completed
        /\ memory'.abandoned = memory.abandoned /\ file'.abandoned = file.abandoned
        /\ memory'.contract /\ file'.contract
    BY <1>t, <1>21 DEF FileReceipt, Persist, Journal, RecordInv, SameJournal
  <2>2. /\ UNCHANGED <<kind, sends, final>>
        /\ phase = "finalised" /\ phase' \in {"ready", "working", "bound"}
    BY <1>21 DEF FileReceipt, ledgerVars
  <2> QED
    BY <1>0, <1>t, <2>1, <2>2
    DEF ServerStep, RecordInv, SameJournal, OneUncertainStep, IdleInv, Recorded,
       RevocationInv, ProofInv, ContractInv, CallInv, Underway
<1>22. ASSUME NEW s \in Step, BeginStep(s) PROVE RecordInv'
  <2>1. /\ memory' = file'
        /\ memory'.pending = {s}
        /\ memory'.completed = memory.completed
        /\ memory'.abandoned = memory.abandoned
        /\ memory'.contract = memory.contract
    BY <1>t, <1>22 DEF BeginStep, Persist, Journal
  <2>2. /\ UNCHANGED <<kind, sends, final>>
        /\ phase' = "called"
        /\ s \notin memory.completed /\ memory.pending = {}
    BY <1>22 DEF BeginStep, ledgerVars
  <2>3. /\ s = Revoke => kind = "revoke" /\ phase = "bound"
        /\ s = Deploy => phase = "ready" /\ ~server.bound /\ 1..(s - 1) = {}
        /\ s \notin {Revoke, Deploy} =>
             kind = "proof" /\ phase = "working" /\ 1..(s - 1) \subseteq memory.completed
    BY <1>22, RevokeIsNoProofStep DEF BeginStep, MayExecute, Deploy
  <2>4. s # Revoke => kind = "proof"
    BY <1>t, <2>2, <2>3, RevokeIsNoProofStep
    DEF RecordInv, JournalType, IdleInv, RevocationInv
  <2>5. /\ sends[s] = 0
        /\ s = Revoke => Deploy \in final /\ memory.contract /\ server.revocation
        /\ s # Revoke => 1..(s - 1) \subseteq final
        /\ memory.contract \/ s = Deploy
    BY <1>t, <2>2, <2>3, <2>4, RevokeIsNoProofStep
    DEF RecordInv, Recorded, RevocationInv, ProofInv, ContractInv
  <2> QED
    BY <1>0, <1>t, <2>1, <2>2, <2>3, <2>4, <2>5, RevokeIsNoProofStep
    DEF ServerStep, RecordInv, SameJournal, OneUncertainStep, IdleInv, Recorded,
       RevocationInv, ProofInv, ContractInv, CallInv, Underway
<1>23. ASSUME NEW s \in Step, SendStep(s) PROVE RecordInv'
  <2>1. /\ memory'.pending = {s} /\ memory.pending = {s}
        /\ file' = file
        /\ memory'.completed = memory.completed
        /\ memory'.abandoned = memory.abandoned
        /\ memory'.contract = memory.contract
    BY <1>t, <1>23 DEF SendStep, Persist, Journal
  <2>2. /\ UNCHANGED <<kind, final>>
        /\ phase = "cleared" /\ phase' = "sent"
        /\ \A t \in Step : t # s => sends'[t] = sends[t]
    BY <1>t, <1>23 DEF SendStep, ledgerVars
  <2> QED
    BY <1>0, <1>t, <2>1, <2>2, RevokeIsNoProofStep
    DEF ServerStep, RecordInv, SameJournal, OneUncertainStep, IdleInv, Recorded,
       RevocationInv, ProofInv, ContractInv, CallInv, Underway
<1>24. ASSUME NEW s \in Step, CompleteStep(s) PROVE RecordInv'
  <2>1. /\ memory' = file'
        /\ memory'.pending = {} /\ memory.pending = {s}
        /\ memory'.completed = memory.completed \cup {s}
        /\ memory'.abandoned = memory.abandoned
        /\ memory'.contract = memory.contract
    BY <1>t, <1>24 DEF CompleteStep, Persist, Journal
  <2>2. /\ UNCHANGED <<kind, sends, final>>
        /\ phase = "filed" /\ phase' = "finalised"
        /\ s \in final
    BY <1>24 DEF CompleteStep, ledgerVars
  <2> QED
    BY <1>0, <1>t, <2>1, <2>2
    DEF ServerStep, RecordInv, SameJournal, OneUncertainStep, IdleInv, Recorded,
       RevocationInv, ProofInv, ContractInv, CallInv, Underway
<1>25. ASSUME NEW s \in Step, ClearStep(s) PROVE RecordInv'
  <2> QuietStep
    BY <1>25 DEF ClearStep, QuietStep, ledgerVars
  <2> QED
    BY <1>0, QuietNext
<1>26. ASSUME NEW s \in Step, Finalise(s) PROVE RecordInv'
  <2>1. /\ UNCHANGED <<memory, file, phase, kind, sends>>
        /\ final \subseteq final'
    BY <1>26 DEF Finalise, FinaliseStep, processVars
  <2> QED
    BY <1>0, <2>1
    DEF ServerStep, RecordInv, SameJournal, OneUncertainStep, IdleInv, Recorded,
       RevocationInv, ProofInv, ContractInv, CallInv, Underway
<1>27. CASE StoreSecret
  <2> QuietStep
    BY <1>27 DEF StoreSecret, QuietStep, ledgerVars, processVars
  <2> QED
    BY <1>0, QuietNext
<1>28. CASE UNCHANGED vars
  <2> QuietStep
    BY <1>28 DEF vars, QuietStep, ledgerVars, processVars
  <2> QED
    BY <1>0, QuietNext
<1> QED
  BY <1>1, <1>2, <1>3, <1>4, <1>5, <1>6, <1>7, <1>8, <1>9, <1>10, <1>11, <1>12, <1>13, <1>14,
     <1>15, <1>16, <1>17, <1>18, <1>19, <1>20, <1>21, <1>22, <1>23, <1>24, <1>25, <1>26,
       <1>27, <1>28 DEF Next, Run, World, Execute

-----------------------------------------------------------------------------
\* The record holds in every reachable state (execute, its recovery and persist).
THEOREM RecordInvariant == Spec => []RecordInv
<1>1. InitExecutor => RecordInv
  BY RecordInit
<1>2. RecordInv /\ [Next]_vars => RecordInv'
  BY RecordNext
<1> QED
  BY <1>1, <1>2, PTL DEF Spec

\* Whenever the executor dies, what it may have sent is in the journal on disk.
THEOREM NothingIsForgotten == Spec => []NothingSentIsForgotten
<1>1. RecordInv => NothingSentIsForgotten
  BY DEF RecordInv, SameJournal, Recorded, NothingSentIsForgotten
<1> QED
  BY <1>1, RecordInvariant, PTL

\* The receipts of execute and of the recovery are of finalised transactions.
THEOREM ReceiptsFinal == Spec => []ReceiptsAreFinal
<1>1. RecordInv => ReceiptsAreFinal
  BY DEF RecordInv, SameJournal, ReceiptsAreFinal
<1> QED
  BY <1>1, RecordInvariant, PTL

\* A step is a transaction StepLedger allows, a finalisation, or none of its business.
LEMMA StepsAreLedgerSteps == RecordInv /\ [Next]_vars => [NextLedger]_ledgerVars
<1> SUFFICES ASSUME RecordInv, [Next]_vars PROVE [NextLedger]_ledgerVars
  OBVIOUS
<1>1. ASSUME NEW s \in Step, SendStep(s) PROVE SendOnce(s)
  <2>1. /\ phase = "cleared" /\ s \in memory.pending
        /\ sends' = [sends EXCEPT ![s] = @ + 1] /\ UNCHANGED final
    BY <1>1 DEF SendStep, Goes
  <2>2. /\ sends[s] = 0
        /\ s = Revoke => Deploy \in final
        /\ s # Revoke => 1..(s - 1) \subseteq final /\ sends[Revoke] = 0
    BY <2>1 DEF RecordInv, CallInv, ProofInv
  <2>3. sends' = [sends EXCEPT ![s] = 1]
    BY <2>1, <2>2 DEF RecordInv, JournalType
  <2> QED
    BY <2>1, <2>2, <2>3 DEF SendOnce
<1>2. ASSUME NEW s \in Step, Finalise(s) PROVE FinaliseStep(s)
  BY <1>2 DEF Finalise
<1>3. ASSUME NEW s \in Step, BeginStep(s) \/ ClearStep(s) \/ CompleteStep(s)
      PROVE UNCHANGED ledgerVars
  BY <1>3 DEF BeginStep, ClearStep, CompleteStep
<1>4. CASE Throw \/ Interrupt
  BY <1>4 DEF Throw, Interrupt, Fails
<1>5. CASE Start \/ Finish
  BY <1>5 DEF Start, Finish
<1>6. CASE \/ Abandon \/ Recover \/ Adopt \/ Prepare \/ FindDeployment \/ Bind \/ Source
           \/ CreateKey \/ NoteKey \/ StoreId \/ ReportSent \/ StoreSecret \/ FileReceipt
  BY <1>6 DEF Abandon, Recover, Adopt, Prepare, FindDeployment, Bind, Source, CreateKey,
       NoteKey, StoreId, ReportSent, StoreSecret, FileReceipt
<1>7. CASE LeaseEnds \/ Refresh \/ Resume \/ IssuerRevokes \/ NoteRevocation
  BY <1>7 DEF LeaseEnds, Refresh, Resume, IssuerRevokes, NoteRevocation
<1>8. CASE UNCHANGED vars
  BY <1>8 DEF vars
<1> QED
  BY <1>1, <1>2, <1>3, <1>4, <1>5, <1>6, <1>7, <1>8
  DEF Next, Run, World, Execute, NextLedger

\* Whatever interrupts it, the executor keeps the promise of StepLedger.
THEOREM ExecutorKeepsLedger == Spec => EveryStepOnce
<1>1. InitExecutor => InitLedger
  BY DEF InitExecutor
<1>2. RecordInv /\ [Next]_vars => [NextLedger]_ledgerVars
  BY StepsAreLedgerSteps
<1> QED
  BY <1>1, <1>2, RecordInvariant, PTL DEF Spec, EveryStepOnce, LedgerSpec

\* What the verifier is asked to look at is on the chain: Finish compares receipts,
\* and every receipt is of a final transaction.
THEOREM SubmittedAreFinal == Spec => []SubmittedIsFinal
<1>1. InitExecutor => SubmittedIsFinal
  BY DEF InitExecutor, SubmittedIsFinal
<1>2. RecordInv /\ SubmittedIsFinal /\ [Next]_vars => SubmittedIsFinal'
  <2> SUFFICES ASSUME RecordInv, SubmittedIsFinal, [Next]_vars PROVE SubmittedIsFinal'
    OBVIOUS
  <2>0. server \in Server /\ memory.completed \subseteq final
    BY DEF RecordInv, JournalType
  <2>1. final \subseteq final'
    BY StepsAreLedgerSteps DEF NextLedger, SendOnce, FinaliseStep, ledgerVars
  <2>2. CASE server' = server
    BY <2>1, <2>2 DEF SubmittedIsFinal
  <2>3. CASE Finish
    BY <2>0, <2>1, <2>3 DEF Finish, Fresh, Server, SubmittedIsFinal
  <2>4. CASE Throw \/ Interrupt
    <3> Fails
      BY <2>4 DEF Throw, Interrupt
    <3> QED
      BY <2>0, <2>2 DEF Fails, Server, SubmittedIsFinal
  <2>5. CASE Start \/ Refresh \/ Resume \/ NoteRevocation
    BY <2>0, <2>5 DEF Start, Refresh, Resume, NoteRevocation, Server, SubmittedIsFinal
  <2>6. CASE Bind \/ Source \/ LeaseEnds
    <3> server'.status = server.status /\ server'.revocation = server.revocation
      BY <2>0, <2>6 DEF Bind, Source, LeaseEnds, Server
    <3> QED
      BY <2>1 DEF SubmittedIsFinal
  <2>7. ASSUME NEW s \in Step, Execute(s) \/ Finalise(s) PROVE server' = server
    BY <2>7 DEF Execute, BeginStep, ClearStep, SendStep, CompleteStep, Finalise
  <2>8. CASE \/ Abandon \/ Recover \/ Adopt \/ Prepare \/ FindDeployment \/ CreateKey
             \/ NoteKey \/ StoreId \/ ReportSent \/ StoreSecret \/ FileReceipt \/ IssuerRevokes
    BY <2>2, <2>8 DEF Abandon, Recover, Adopt, Prepare, FindDeployment, CreateKey, NoteKey,
         StoreId, ReportSent, StoreSecret, FileReceipt, IssuerRevokes
  <2> QED
    BY <2>2, <2>3, <2>4, <2>5, <2>6, <2>7, <2>8 DEF Next, Run, World, vars
<1> QED
  BY <1>1, <1>2, RecordInvariant, PTL DEF Spec

-----------------------------------------------------------------------------
\* The rest of the types: an id in either copy of the journal is the pending step's.
RestType ==
  /\ family \in {"issued", "program"}
  /\ vault \in BOOLEAN /\ secret \in BOOLEAN
  /\ joined \in BOOLEAN
  /\ revoked \in BOOLEAN
  /\ interruptions \in 0..MaxInterruptions

IdInv ==
  /\ memory.sentTx => memory.pending # {}
  /\ file.sentTx => file.pending # {}

\* Every step keeps the variables the record says nothing about in their types.
LEMMA RestNext == RecordInv /\ RestType /\ [Next]_vars => RestType'
<1> SUFFICES ASSUME RecordInv, RestType, [Next]_vars PROVE RestType'
  OBVIOUS
<1>0. memory.contract \in BOOLEAN
  BY DEF RecordInv, JournalType, Journal
<1> USE DEF Undisturbed, processVars, storage, RestType
<1>1. CASE Throw \/ Interrupt
  <2>1. Fails
    BY <1>1 DEF Throw, Interrupt
  <2>2. interruptions' \in 0..MaxInterruptions
    BY <1>1, InterruptionsAssumption DEF Throw, Interrupt
  <2> QED
    BY <2>1, <2>2 DEF Fails, Exits
<1>2. CASE Start \/ Finish
  BY <1>2 DEF Start, Finish, Exits
<1>3. CASE Abandon \/ Recover \/ Adopt \/ FindDeployment \/ Bind \/ Source
  BY <1>3 DEF Abandon, Recover, Adopt, FindDeployment, Bind, Source
<1>4. CASE Prepare
  BY <1>0, <1>4 DEF Prepare
<1>5. CASE CreateKey \/ NoteKey \/ StoreId \/ ReportSent \/ StoreSecret \/ FileReceipt
  BY <1>5 DEF CreateKey, NoteKey, StoreId, ReportSent, StoreSecret, FileReceipt
<1>6. CASE LeaseEnds
  BY <1>6, InterruptionsAssumption DEF LeaseEnds
<1>7. CASE Refresh \/ Resume \/ IssuerRevokes \/ NoteRevocation
  BY <1>7 DEF Refresh, Resume, IssuerRevokes, NoteRevocation
<1>8. ASSUME NEW s \in Step, Execute(s) \/ Finalise(s) PROVE RestType'
  BY <1>8 DEF Execute, BeginStep, ClearStep, SendStep, CompleteStep, Finalise
<1>9. CASE UNCHANGED vars
  BY <1>9 DEF vars
<1> QED
  BY <1>1, <1>2, <1>3, <1>4, <1>5, <1>6, <1>7, <1>8, <1>9 DEF Next, Run, World

\* sentTxId goes whenever pending goes: execute, the recovery and the abandonment
\* delete both.
LEMMA IdNext == RecordInv /\ IdInv /\ [Next]_vars => IdInv'
<1> SUFFICES ASSUME RecordInv, IdInv, [Next]_vars PROVE IdInv'
  OBVIOUS
<1>t. memory \in Journal /\ file \in Journal /\ memory.pending = file.pending
  BY DEF RecordInv, JournalType, SameJournal
<1> USE DEF IdInv
<1>1. CASE Abandon
  BY <1>t, <1>1 DEF Abandon, Persist, Journal
<1>2. CASE Recover
  BY <1>t, <1>2 DEF Recover, Persist, Journal
<1>3. ASSUME NEW s \in Step, BeginStep(s) PROVE IdInv'
  BY <1>t, <1>3 DEF BeginStep, Persist, Journal
<1>4. ASSUME NEW s \in Step, SendStep(s) PROVE IdInv'
  BY <1>t, <1>4 DEF SendStep, Journal
<1>5. ASSUME NEW s \in Step, CompleteStep(s) PROVE IdInv'
  BY <1>t, <1>5 DEF CompleteStep, Persist, Journal
<1>6. CASE StoreId
  BY <1>t, <1>6 DEF StoreId
<1>7. CASE Adopt \/ FindDeployment \/ NoteKey
  <2>1. /\ memory' = file'
        /\ memory'.sentTx = memory.sentTx /\ memory'.pending = memory.pending
    BY <1>t, <1>7 DEF Adopt, FindDeployment, NoteKey, Persist, Journal
  <2> QED
    BY <2>1
<1>8. CASE FileReceipt
  <2>1. CASE UNCHANGED <<memory, file>>
    BY <2>1
  <2>2. CASE Persist([memory EXCEPT !.contract = TRUE])
    BY <1>t, <2>2 DEF Persist, Journal
  <2> QED
    BY <1>8, <2>1, <2>2 DEF FileReceipt
<1>9. CASE Finish \/ Throw \/ Interrupt
  <2> memory' = file /\ file' = file
    BY <1>9 DEF Finish, Throw, Interrupt, Fails, Exits
  <2> QED
    OBVIOUS
<1>10. CASE Start
  BY <1>10 DEF Start
<1>11. CASE Prepare \/ Bind \/ Source \/ CreateKey \/ ReportSent \/ StoreSecret
  BY <1>11 DEF Prepare, Bind, Source, CreateKey, ReportSent, StoreSecret, processVars
<1>12. CASE LeaseEnds \/ Refresh \/ Resume \/ IssuerRevokes \/ NoteRevocation
  BY <1>12 DEF LeaseEnds, Refresh, Resume, IssuerRevokes, NoteRevocation, processVars
<1>13. ASSUME NEW s \in Step, ClearStep(s) \/ Finalise(s) PROVE IdInv'
  BY <1>13 DEF ClearStep, Finalise, processVars
<1>14. CASE UNCHANGED vars
  BY <1>14 DEF vars, processVars
<1> QED
  BY <1>1, <1>2, <1>3, <1>4, <1>5, <1>6, <1>7, <1>8, <1>9, <1>10, <1>11, <1>12, <1>13, <1>14
  DEF Next, Run, World, Execute

\* Every reachable state has its types, and no journal has an id of no pending step.
THEOREM ExecutorTypes == Spec => []ExecutorTypeOK
<1>0. InitExecutor => RestType
  <2>1. 0 \in 0..MaxInterruptions
    BY InterruptionsAssumption
  <2> QED
    BY <2>1, Zenon DEF InitExecutor, RestType
<1>1. InitExecutor => IdInv
  BY DEF InitExecutor, IdInv, EmptyJournal
<1>2. RecordInv /\ RestType /\ IdInv /\ [Next]_vars => RestType' /\ IdInv'
  BY RestNext, IdNext
<1>3. RecordInv /\ RestType /\ IdInv => ExecutorTypeOK
  BY DEF RecordInv, JournalType, SameJournal, OneUncertainStep, RestType, IdInv, ExecutorTypeOK
<1> QED
  BY <1>0, <1>1, <1>2, <1>3, RecordInvariant, PTL DEF Spec
-----------------------------------------------------------------------------
(***************************************************************************)
(* The executor and the server's ledger of jobs: how the row keeps pace    *)
(* with the process.                                                       *)
(***************************************************************************)

\* A proof goes on on a contract only after the source was recorded of it, and so
\* does every transaction that follows the deployment.
SourcedInv ==
  /\ server.sourced => server.bound
  /\ phase = "bound" => server.bound
  /\ kind = "proof" /\ memory.contract =>
       (Underway \/ phase \in {"working", "keyed", "finalised"} => server.sourced)
  /\ \A s \in ProofStep \ {Deploy} : sends[s] > 0 => server.sourced
  /\ server.status = "awaiting_verification" => server.revocation \/ server.sourced

\* What a lease and a blocked row tell: the job is claimed, the issuer has revoked.
LeaseInv ==
  /\ Leased => server.status \in {"running", "blocked"}
  /\ server.status = "blocked" => server.revocation \/ revoked

\* Every step keeps it: a claim gives the lease, the end of the run or of the lease
\* takes it, and nothing else than a revocation blocks a row.
LEMMA LeaseNext == RecordInv /\ LeaseInv /\ [Next]_vars => LeaseInv'
<1> SUFFICES ASSUME RecordInv, LeaseInv, [Next]_vars PROVE LeaseInv'
  OBVIOUS
<1>0. server \in Server
  BY DEF RecordInv, JournalType
<1> USE DEF LeaseInv, Leased
<1>1. CASE UNCHANGED <<server, revoked>>
  BY <1>1
<1>2. CASE Start
  BY <1>0, <1>2 DEF Start, Server, Undisturbed
<1>3. CASE Bind \/ Source
  <2>1. /\ server'.lease = server.lease /\ server'.status = server.status
        /\ server'.revocation = server.revocation /\ revoked' = revoked
    BY <1>0, <1>3 DEF Bind, Source, Server, Undisturbed
  <2> QED
    BY <2>1
<1>4. CASE Finish
  BY <1>0, <1>4 DEF Finish, Server, Undisturbed
<1>5. CASE Throw \/ Interrupt
  <2> Fails
    BY <1>5 DEF Throw, Interrupt
  <2> QED
    BY <1>0, <1>1 DEF Fails, Server
<1>6. CASE LeaseEnds \/ Refresh
  BY <1>0, <1>6 DEF LeaseEnds, Refresh, Server, Undisturbed
<1>7. CASE Resume
  BY <1>0, <1>7 DEF Resume, Server, Undisturbed
<1>8. CASE IssuerRevokes
  BY <1>8 DEF IssuerRevokes
<1>9. CASE NoteRevocation
  BY <1>0, <1>9 DEF NoteRevocation, Server, Undisturbed
<1>10. ASSUME NEW s \in Step, Execute(s) \/ Finalise(s)
       PROVE UNCHANGED <<server, revoked>>
  BY <1>10 DEF Execute, BeginStep, ClearStep, SendStep, CompleteStep, Finalise, Undisturbed
<1> QED
  BY <1>1, <1>2, <1>3, <1>4, <1>5, <1>6, <1>7, <1>8, <1>9, <1>10
  DEF Next, Run, World, vars, Abandon, Recover, Adopt, Prepare, FindDeployment, CreateKey,
      NoteKey, StoreId, ReportSent, StoreSecret, FileReceipt, Undisturbed

\* The source is recorded by Source before the process works on the contract, and
\* no command takes it back.
LEMMA SourcedNext == RecordInv /\ SourcedInv /\ [Next]_vars => SourcedInv'
<1> SUFFICES ASSUME RecordInv, SourcedInv, [Next]_vars PROVE SourcedInv'
  OBVIOUS
<1>0. /\ server \in Server /\ memory \in Journal /\ file \in Journal
      /\ sends \in [Step -> Nat] /\ phase \in Phase
      /\ memory.contract = file.contract /\ (phase = "off" => kind = "none")
      /\ kind = "revoke" => server.bound
      /\ phase \in {"bound", "working", "keyed"} => memory.contract
      /\ phase \in {"called", "cleared"} /\ kind # "proof" => memory.pending \subseteq {Revoke}
      /\ Underway => memory.contract \/ memory.pending = {Deploy}
      /\ kind \in {"none", "proof", "revoke"}
  BY DEF RecordInv, JournalType, SameJournal, IdleInv, RevocationInv, ContractInv, CallInv
<1> USE DEF Goes, Undisturbed
<1>1. ASSUME UNCHANGED <<server, memory, kind, sends>>,
             \/ phase' = phase
             \/ phase = "claimed" /\ phase' = "ready"
             \/ phase = "working" /\ phase' = "keyed"
             \/ phase = "called" /\ phase' = "cleared"
             \/ phase = "sent" /\ phase' = "stored"
             \/ phase = "stored" /\ phase' = "filed"
      PROVE  SourcedInv'
  BY <1>1 DEF SourcedInv, Underway
<1>2. CASE \/ Prepare \/ CreateKey \/ StoreId \/ ReportSent \/ StoreSecret \/ IssuerRevokes
           \/ UNCHANGED vars
  BY <1>1, <1>2 DEF Prepare, CreateKey, StoreId, ReportSent, StoreSecret, IssuerRevokes,
       vars, processVars, ledgerVars
<1>3. CASE LeaseEnds \/ Refresh \/ Resume
  <2>1. /\ server'.sourced = server.sourced /\ server'.bound = server.bound
        /\ server'.revocation = server.revocation
        /\ \/ server'.status = server.status
           \/ server'.status # "awaiting_verification"
    BY <1>0, <1>3 DEF LeaseEnds, Refresh, Resume, Server
  <2>2. UNCHANGED <<memory, kind, sends, phase>>
    BY <1>3 DEF LeaseEnds, Refresh, Resume, processVars, ledgerVars
  <2> QED
    BY <2>1, <2>2 DEF SourcedInv, Underway
<1>4. CASE NoteRevocation
  <2>1. /\ server'.sourced = server.sourced /\ server'.bound = server.bound
        /\ server'.status = "blocked"
    BY <1>0, <1>4 DEF NoteRevocation, Server
  <2>2. UNCHANGED <<memory, kind, sends, phase>>
    BY <1>4 DEF NoteRevocation, processVars, ledgerVars
  <2> QED
    BY <2>1, <2>2 DEF SourcedInv, Underway
<1>5. CASE Abandon \/ Recover \/ Adopt \/ FindDeployment
  <2>1. /\ UNCHANGED <<server, kind, sends, phase>>
        /\ phase \in {"claimed", "ready"}
    BY <1>5 DEF Abandon, Recover, Adopt, FindDeployment, ledgerVars
  <2> QED
    BY <2>1 DEF SourcedInv, Underway
<1>6. CASE Start
  <2>1. /\ server'.sourced = server.sourced /\ server'.bound = server.bound
        /\ server'.status # "awaiting_verification"
    BY <1>0, <1>6 DEF Start, Server
  <2>2. phase' = "claimed" /\ UNCHANGED sends
    BY <1>6 DEF Start, ledgerVars
  <2> QED
    BY <2>1, <2>2 DEF SourcedInv, Underway
<1>7. CASE Bind
  <2>1. /\ server'.sourced = server.sourced /\ server'.bound
        /\ server'.status = server.status /\ server'.revocation = server.revocation
    BY <1>0, <1>7 DEF Bind, Server
  <2>2. phase' = "bound" /\ UNCHANGED <<memory, sends>>
    BY <1>7 DEF Bind, ledgerVars
  <2> QED
    BY <2>1, <2>2 DEF SourcedInv, Underway
<1>8. CASE Source
  <2>1. /\ server'.sourced /\ server'.bound = server.bound
        /\ phase = "bound" /\ phase' = "working"
    BY <1>0, <1>8 DEF Source, Server
  <2> QED
    BY <2>1 DEF SourcedInv, Underway
<1>9. CASE NoteKey
  <2>1. memory'.contract = memory.contract
    BY <1>0, <1>9 DEF NoteKey, Persist, Journal
  <2>2. phase = "keyed" /\ phase' = "working" /\ UNCHANGED <<server, kind, sends>>
    BY <1>9 DEF NoteKey, ledgerVars
  <2> QED
    BY <2>1, <2>2 DEF SourcedInv, Underway
<1>10. CASE FileReceipt
  <2>1. phase = "finalised" /\ UNCHANGED <<server, kind, sends>>
    BY <1>10 DEF FileReceipt, ledgerVars
  <2>2. CASE phase' = "ready"
    BY <2>1, <2>2 DEF SourcedInv, Underway
  <2>3. CASE /\ memory.contract /\ memory' = memory
             /\ phase' = IF kind = "proof" THEN "working" ELSE "bound"
    <3>1. CASE kind = "proof"
      BY <2>1, <2>3, <3>1 DEF SourcedInv, Underway
    <3>2. CASE kind # "proof"
      <4>1. kind = "revoke"
        BY <1>0, <2>1, <3>2 DEF RecordInv, IdleInv
      <4> QED
        BY <1>0, <2>1, <2>3, <3>2, <4>1 DEF SourcedInv, Underway
    <3> QED
      BY <3>1, <3>2
  <2> QED
    BY <1>10, <2>2, <2>3 DEF FileReceipt
<1>11. ASSUME NEW s \in Step, BeginStep(s) PROVE SourcedInv'
  <2>1. memory'.contract = memory.contract
    BY <1>0, <1>11 DEF BeginStep, Persist, Journal
  <2>2. /\ phase' = "called" /\ UNCHANGED <<server, kind, sends>>
        /\ \/ phase = "bound" /\ kind = "revoke"
           \/ phase = "ready" /\ ~memory.contract
           \/ phase = "working"
    BY <1>11 DEF BeginStep, MayExecute, ledgerVars
  <2> QED
    BY <2>1, <2>2 DEF SourcedInv, Underway
<1>12. ASSUME NEW s \in Step, ClearStep(s) PROVE SourcedInv'
  BY <1>1, <1>12 DEF ClearStep, ledgerVars
<1>13. ASSUME NEW s \in Step, SendStep(s) PROVE SourcedInv'
  <2>1. memory'.contract = memory.contract
    BY <1>0, <1>13 DEF SendStep, Journal
  <2>2. /\ phase = "cleared" /\ phase' = "sent" /\ UNCHANGED <<server, kind>>
        /\ memory.pending = {s}
        /\ \A t \in Step : t # s => sends'[t] = sends[t]
    BY <1>0, <1>13 DEF SendStep
  <2>3. s \in ProofStep \ {Deploy} => server.sourced
    BY <1>0, <2>2, RevokeIsNoProofStep DEF SourcedInv, Underway
  <2>4. \A t \in ProofStep \ {Deploy} : sends'[t] > 0 => server.sourced
    BY <2>2, <2>3, RevokeIsNoProofStep DEF SourcedInv
  <2> QED
    BY <2>1, <2>2, <2>4 DEF SourcedInv, Underway
<1>14. ASSUME NEW s \in Step, CompleteStep(s) PROVE SourcedInv'
  <2>1. memory'.contract = memory.contract
    BY <1>0, <1>14 DEF CompleteStep, Persist, Journal
  <2>2. phase = "filed" /\ phase' = "finalised" /\ UNCHANGED <<server, kind, sends>>
    BY <1>14 DEF CompleteStep, ledgerVars
  <2> QED
    BY <2>1, <2>2 DEF SourcedInv, Underway
<1>15. CASE Finish
  <2>1. /\ server'.sourced /\ server'.bound = server.bound /\ server.sourced
    BY <1>0, <1>15 DEF Finish, Server
  <2>2. phase' = "off"
    BY <1>15 DEF Finish, Exits
  <2> QED
    BY <2>1, <2>2 DEF SourcedInv, Underway
<1>16. CASE Throw \/ Interrupt
  <2>0. Fails
    BY <1>16 DEF Throw, Interrupt
  <2>1. /\ server'.sourced = server.sourced /\ server'.bound = server.bound
        /\ server'.revocation = server.revocation
        /\ \/ server'.status = server.status
           \/ server'.status # "awaiting_verification"
    BY <1>0, <2>0 DEF Fails, Server
  <2>2. phase' = "off" /\ UNCHANGED sends
    BY <2>0 DEF Fails, Exits, ledgerVars
  <2> QED
    BY <2>1, <2>2 DEF SourcedInv, Underway
<1>17. ASSUME NEW s \in Step, Finalise(s) PROVE SourcedInv'
  BY <1>1, <1>17 DEF Finalise, FinaliseStep, processVars
<1> QED
  BY <1>2, <1>3, <1>4, <1>5, <1>6, <1>7, <1>8, <1>9, <1>10, <1>11, <1>12, <1>13, <1>14,
     <1>15, <1>16, <1>17 DEF Next, Run, World, Execute

\* A revocation blocks the row, and no other command touches the stage of a row whose
\* revocation is pending.
LEMMA Stages ==
  ASSUME RecordInv
  PROVE  /\ server \in Server
         /\ server.revocation => ServerStage = "revoking" /\ server.bound
         /\ ~server.revocation =>
              /\ server.status = "queued" => ServerStage = "queued"
              /\ server.status = "running" => ServerStage = "running"
              /\ server.status = "needs_attention" => ServerStage = "interrupted"
              /\ server.status = "awaiting_verification" => ServerStage = "submitted"
              /\ server.status = "blocked" => ServerStage = "closed"
<1>1. server \in Server /\ (server.revocation => server.bound)
  BY DEF RecordInv, JournalType, RevocationInv
<1> QED
  BY <1>1 DEF ServerStage, Server

\* What the ledger sees of a state: a step that leaves it alone is none of its own,
\* and one that only moves the stage goes along an edge.
LEMMA Stands ==
  ASSUME ServerStage' = ServerStage, server'.sourced = server.sourced,
         revoked' = revoked, final' = final
  PROVE  UNCHANGED ServerLedger!ledgerVars
BY DEF ServerLedger!ledgerVars, Known

\* A step that takes the row from one stage to another is the step of the ledger between them.
LEMMA Moves ==
  ASSUME NEW from, NEW to, ServerStage \in from, ServerStage' = to,
         server'.sourced = server.sourced, revoked' = revoked, final' = final
  PROVE  ServerLedger!Goes(1, from, to)
<1> DEFINE stages == [j \in {1} |-> ServerStage]
<1>1. stages[1] = ServerStage /\ stages' = [stages EXCEPT ![1] = to]
  OBVIOUS
<1> QED
  BY <1>1 DEF ServerLedger!Goes, ServerLedger!worldVars, Known

\* A step of the executor, the server or the chain is one step of the ledger, or none.
LEMMA MeetsStep ==
  RecordInv /\ SourcedInv /\ LeaseInv /\ [Next]_vars =>
    [ServerLedger!NextLedger]_(ServerLedger!ledgerVars)
<1> SUFFICES ASSUME RecordInv, SourcedInv, LeaseInv, [Next]_vars
             PROVE  ServerLedger!NextLedger \/ UNCHANGED ServerLedger!ledgerVars
  OBVIOUS
<1> USE DEF Undisturbed
<1>0. server \in Server
  BY Stages
<1>r. RecordInv'
  BY RecordNext
<1>s. ASSUME ServerLedger!Serve(1) PROVE ServerLedger!NextLedger
  BY <1>s DEF ServerLedger!NextLedger
<1>1. CASE UNCHANGED <<server, revoked, final>>
  <2> ServerStage' = ServerStage
    BY <1>1 DEF ServerStage
  <2> QED
    BY <1>1, Stands
<1>2. CASE Start
  <2>1. UNCHANGED <<revoked, final>> /\ server'.sourced = server.sourced
    BY <1>0, <1>2 DEF Start, ledgerVars, Server
  <2>2. CASE server.revocation
    <3> ServerStage' = ServerStage
      BY <1>0, <1>2, <2>2, <1>r, Stages DEF Start, ServerStage, Server
    <3> QED
      BY <2>1, Stands
  <2>3. CASE ~server.revocation
    <3>1. ServerStage = "queued" /\ ServerStage' = "running"
      BY <1>0, <1>2, <2>3 DEF Start, ServerStage, Server
    <3>2. ServerLedger!Claim(1)
      BY <2>1, <3>1, Moves DEF ServerLedger!Claim
    <3> QED
      BY <1>s, <3>2 DEF ServerLedger!Serve
  <2> QED
    BY <2>2, <2>3
<1>3. CASE Bind \/ LeaseEnds
  <2>1. /\ UNCHANGED <<revoked, final>> /\ server'.sourced = server.sourced
        /\ server'.revocation = server.revocation /\ server'.status = server.status
    BY <1>0, <1>3 DEF Bind, LeaseEnds, ledgerVars, Server
  <2> ServerStage' = ServerStage
    BY <2>1 DEF ServerStage
  <2> QED
    BY <2>1, Stands
<1>4. CASE Source
  <2>1. /\ UNCHANGED <<revoked, final>> /\ server'.sourced
        /\ server'.revocation = server.revocation /\ server'.status = server.status
        /\ ServerStage = "running"
    BY <1>0, <1>4 DEF Source, Fresh, ServerStage, ledgerVars, Server
  <2>2. ServerStage' = ServerStage
    BY <2>1 DEF ServerStage
  <2>3. ServerLedger!Record(1)
    BY <2>1, <2>2 DEF ServerLedger!Record, ServerLedger!worldVars, Known
  <2> QED
    BY <1>s, <2>3 DEF ServerLedger!Serve
<1>5. CASE Finish
  <2>1. /\ UNCHANGED <<revoked, final>> /\ server'.sourced = server.sourced /\ server.sourced
        /\ server'.revocation = server.revocation /\ server'.status = "awaiting_verification"
        /\ server.revocation \/ server.status = "running"
    BY <1>0, <1>5 DEF Finish, Fresh, ledgerVars, Server
  <2>2. CASE server.revocation
    <3> ServerStage' = ServerStage
      BY <2>1, <2>2 DEF ServerStage
    <3> QED
      BY <2>1, Stands
  <2>3. CASE ~server.revocation
    <3>1. ServerStage = "running" /\ ServerStage' = "submitted"
      BY <2>1, <2>3 DEF ServerStage
    <3>2. ServerLedger!Submit(1)
      BY <2>1, <3>1, Moves DEF ServerLedger!Submit, Known
    <3> QED
      BY <1>s, <3>2 DEF ServerLedger!Serve
  <2> QED
    BY <2>2, <2>3
<1>6. ASSUME /\ UNCHANGED <<revoked, final>> /\ server'.sourced = server.sourced
             /\ server'.revocation = server.revocation
             /\ server'.status = "needs_attention"
             /\ server.status \in {"running", "blocked"}
      PROVE  ServerLedger!NextLedger \/ UNCHANGED ServerLedger!ledgerVars
  <2>1. CASE server.revocation
    <3> ServerStage' = ServerStage
      BY <1>6, <2>1 DEF ServerStage
    <3> QED
      BY <1>6, Stands
  <2>2. CASE ~server.revocation /\ server.status = "running"
    <3>1. ServerStage = "running" /\ ServerStage' = "interrupted"
      BY <1>6, <2>2 DEF ServerStage
    <3>2. ServerLedger!Interrupt(1)
      BY <1>6, <3>1, Moves DEF ServerLedger!Interrupt
    <3> QED
      BY <1>s, <3>2 DEF ServerLedger!Serve
  <2>3. CASE ~server.revocation /\ server.status = "blocked"
    <3>1. ServerStage = "closed" /\ ServerStage' = "interrupted"
      BY <1>6, <2>3 DEF ServerStage
    <3>2. revoked
      BY <2>3 DEF LeaseInv
    <3>3. ServerLedger!Return(1)
      BY <1>6, <3>1, <3>2, Moves DEF ServerLedger!Return, ServerLedger!Disowned, Known
    <3> QED
      BY <1>s, <3>3 DEF ServerLedger!Serve
  <2> QED
    BY <1>6, <2>1, <2>2, <2>3
<1>7. CASE Throw \/ Interrupt
  <2>0. Fails
    BY <1>7 DEF Throw, Interrupt
  <2>1. UNCHANGED <<revoked, final>>
    BY <2>0 DEF Fails, ledgerVars
  <2>2. CASE server' = server
    BY <1>1, <2>1, <2>2
  <2>3. CASE Leased /\ server' = [server EXCEPT !.status = "needs_attention", !.lease = "none"]
    <3>1. /\ server'.sourced = server.sourced /\ server'.revocation = server.revocation
          /\ server'.status = "needs_attention"
      BY <1>0, <2>3 DEF Server
    <3> QED
      BY <1>6, <2>1, <2>3, <3>1 DEF LeaseInv
  <2> QED
    BY <2>0, <2>2, <2>3 DEF Fails
<1>8. CASE Refresh
  <2>1. UNCHANGED <<revoked, final>>
    BY <1>8 DEF Refresh, ledgerVars
  <2>2. /\ server'.sourced = server.sourced /\ server'.revocation = server.revocation
        /\ server'.status = "needs_attention" /\ server.status \in {"running", "blocked"}
    BY <1>0, <1>8 DEF Refresh, Server
  <2> QED
    BY <1>6, <2>1, <2>2
<1>9. CASE Resume
  <2>1. /\ UNCHANGED <<revoked, final>> /\ server'.sourced = server.sourced
        /\ server'.revocation = server.revocation /\ server'.status = "queued"
        /\ server.status = "needs_attention"
    BY <1>0, <1>9 DEF Resume, ledgerVars, Server
  <2>2. CASE server.revocation
    <3> ServerStage' = ServerStage
      BY <2>1, <2>2 DEF ServerStage
    <3> QED
      BY <2>1, Stands
  <2>3. CASE ~server.revocation
    <3>1. ServerStage = "interrupted" /\ ServerStage' = "queued"
      BY <2>1, <2>3 DEF ServerStage
    <3>2. ServerLedger!Resume(1)
      BY <2>1, <3>1, Moves DEF ServerLedger!Resume
    <3> QED
      BY <1>s, <3>2 DEF ServerLedger!Serve
  <2> QED
    BY <2>2, <2>3
<1>10. CASE IssuerRevokes
  <2>1. UNCHANGED <<server, final>> /\ revoked'
    BY <1>10 DEF IssuerRevokes, ledgerVars
  <2>2. ServerStage' = ServerStage
    BY <2>1 DEF ServerStage
  <2>3. ServerLedger!Disown(1)
    BY <2>1, <2>2 DEF ServerLedger!Disown, Known
  <2> QED
    BY <2>3 DEF ServerLedger!NextLedger
<1>11. CASE NoteRevocation
  <2>1. /\ UNCHANGED <<revoked, final>> /\ revoked /\ ~server.revocation
        /\ server'.sourced = server.sourced /\ server'.revocation = server.bound
        /\ server'.status = "blocked"
        /\ server.bound \/ server.status # "blocked"
    BY <1>0, <1>11 DEF NoteRevocation, ledgerVars, Server
  <2>2. ServerLedger!Disowned(1)
    BY <2>1 DEF ServerLedger!Disowned, Known
  <2>3. CASE server.bound
    <3>1. ServerStage' = "revoking"
      BY <2>1, <2>3 DEF ServerStage
    <3>2. ServerStage \in (ServerLedger!Open \ {"asked"}) \cup {"closed"}
      BY <1>0, <2>1, Stages DEF Server, ServerLedger!Open
    <3>3. ServerLedger!Pursue(1)
      BY <2>1, <2>2, <3>1, <3>2, Moves DEF ServerLedger!Pursue
    <3> QED
      BY <1>s, <3>3 DEF ServerLedger!Serve
  <2>4. CASE ~server.bound
    <3>1. ServerStage' = "closed"
      BY <1>0, <2>1, <2>4 DEF ServerStage, Server
    <3>2. server.status \in {"queued", "running", "needs_attention"}
      BY <1>0, <2>1, <2>4 DEF SourcedInv, Server
    <3>3. CASE server.status = "queued"
      <4> ServerLedger!Close(1)
        BY <2>1, <3>1, <3>3, Stages, Moves DEF ServerLedger!Close
      <4> QED
        BY <1>s DEF ServerLedger!Serve
    <3>4. CASE server.status \in {"running", "needs_attention"}
      <4> ServerLedger!Abandon(1)
        BY <2>1, <2>2, <3>1, <3>4, Stages, Moves DEF ServerLedger!Abandon
      <4> QED
        BY <1>s DEF ServerLedger!Serve
    <3> QED
      BY <3>2, <3>3, <3>4
  <2> QED
    BY <1>0, <2>3, <2>4
<1>12. ASSUME NEW s \in Step, Finalise(s)
       PROVE  ServerLedger!NextLedger \/ UNCHANGED ServerLedger!ledgerVars
  <2>1. /\ UNCHANGED <<server, revoked>> /\ final' = final \cup {s}
        /\ sends[s] > 0 /\ s \notin final
        /\ s \in SubmitSteps => Revoke \notin final
        /\ SubmitSteps \subseteq ProofStep \ {Deploy}
    BY <1>12, StepsAssumption DEF Finalise, FinaliseStep, ProofStep, Deploy
  <2>2. ServerStage' = ServerStage
    BY <2>1 DEF ServerStage
  <2>3. CASE s = Revoke
    <3>1. /\ Revoke \in final'
          /\ (SubmitSteps \subseteq final') = (SubmitSteps \subseteq final)
      BY <2>1, <2>3, RevokeIsNoProofStep
    <3>2. ServerStage = "revoking"
      BY <2>1, <2>3, Stages DEF RecordInv, RevocationInv
    <3>3. ServerLedger!Withdraw(1)
      BY <2>1, <2>2, <3>1, <3>2 DEF ServerLedger!Withdraw, Known
    <3> QED
      BY <3>3 DEF ServerLedger!NextLedger
  <2>4. CASE s # Revoke /\ SubmitSteps \subseteq final' /\ ~(SubmitSteps \subseteq final)
    <3>1. /\ s \in SubmitSteps /\ Revoke \notin final
          /\ (Revoke \in final') = (Revoke \in final)
      BY <2>1, <2>4
    <3>2. server.sourced
      BY <2>1, <3>1 DEF SourcedInv
    <3>3. ServerLedger!Prove(1)
      BY <2>1, <2>2, <2>4, <3>1, <3>2 DEF ServerLedger!Prove, Known
    <3> QED
      BY <3>3 DEF ServerLedger!NextLedger
  <2>5. CASE s # Revoke /\ (SubmitSteps \subseteq final' => SubmitSteps \subseteq final)
    <3>1. /\ (Revoke \in final') = (Revoke \in final)
          /\ (SubmitSteps \subseteq final') = (SubmitSteps \subseteq final)
      BY <2>1, <2>5
    <3> QED
      BY <2>1, <2>2, <3>1 DEF ServerLedger!ledgerVars, Known
  <2> QED
    BY <2>3, <2>4, <2>5
<1>13. ASSUME NEW s \in Step, Execute(s) PROVE UNCHANGED <<server, revoked, final>>
  BY <1>13 DEF Execute, BeginStep, ClearStep, SendStep, CompleteStep, ledgerVars
<1> QED
  BY <1>1, <1>2, <1>3, <1>4, <1>5, <1>7, <1>8, <1>9, <1>10, <1>11, <1>12, <1>13
  DEF Next, Run, World, vars, Abandon, Recover, Adopt, Prepare, FindDeployment, CreateKey,
      NoteKey, StoreId, ReportSent, StoreSecret, FileReceipt, ledgerVars

\* The executor and the server's ledger of jobs rely on each other: what the script
\* asks of the row, what its death leaves there, and what the chain finalises for it
\* (run-issued-job.ts, the commands of issued-proof-jobs.ts).
THEOREM ExecutorMeetsLedger == Spec => MeetsJobLedger
<1>1. InitExecutor => SourcedInv /\ LeaseInv
  BY RevokeIsNoProofStep
     DEF InitExecutor, InitLedger, SourcedInv, LeaseInv, Leased, Underway, EmptyJournal
<1>2. RecordInv /\ SourcedInv /\ LeaseInv /\ [Next]_vars => SourcedInv' /\ LeaseInv'
  BY SourcedNext, LeaseNext
<1>3. RecordInv /\ SourcedInv /\ LeaseInv /\ [Next]_vars =>
        [ServerLedger!NextLedger]_(ServerLedger!ledgerVars)
  BY MeetsStep
<1> QED
  BY <1>1, <1>2, <1>3, RecordInvariant, PTL DEF Spec, MeetsJobLedger

-----------------------------------------------------------------------------
(***************************************************************************)
(* The two crashes nothing recovers from.                                  *)
(***************************************************************************)

\* What a call presupposes of the private storage: the key and the note of it for a
\* step of the proof, the administrator's state for whatever goes to a contract.
StorageInv ==
  /\ \A s \in final : sends[s] > 0
  /\ memory.issuerReady = file.issuerReady
  /\ vault => sends[Deploy] > 0
  /\ phase \in {"called", "cleared"} =>
       memory.pending \subseteq {Deploy, Revoke} \/ memory.issuerReady
  /\ joined => secret
  /\ phase = "cleared" => memory.pending = {Deploy} \/ joined
  /\ phase = "finalised" /\ ~memory.contract => secret

\* The note of the key is written with the journal, the deployment comes before the
\* key, and a client is connected with the state in its storage only.
LEMMA StorageNext == RecordInv /\ StorageInv /\ [Next]_vars => StorageInv'
<1> SUFFICES ASSUME RecordInv, StorageInv, [Next]_vars PROVE StorageInv'
  OBVIOUS
<1>0. /\ memory \in Journal /\ file \in Journal /\ sends \in [Step -> Nat]
      /\ memory.pending = file.pending
      /\ memory.completed \subseteq final
      /\ memory.contract => Deploy \in memory.completed
      /\ phase \in {"working", "keyed"} => memory.contract
      /\ Underway => memory.contract \/ memory.pending = {Deploy}
  BY DEF RecordInv, JournalType, SameJournal, ContractInv
<1> USE DEF Goes, Undisturbed
<1>1. ASSUME UNCHANGED <<memory, file, storage, joined, ledgerVars>>,
             \/ phase' = phase
             \/ phase' \notin {"called", "cleared", "finalised"}
      PROVE  StorageInv'
  BY <1>1 DEF StorageInv, storage, ledgerVars
<1>2. CASE \/ Bind \/ Source \/ ReportSent
           \/ LeaseEnds \/ Refresh \/ Resume \/ IssuerRevokes \/ NoteRevocation
           \/ UNCHANGED vars
  BY <1>1, <1>2 DEF Bind, Source, ReportSent, LeaseEnds, Refresh, Resume,
       IssuerRevokes, NoteRevocation, vars, processVars
<1>3. CASE \/ Start \/ Finish \/ Throw \/ Interrupt
  <2>1. /\ memory' = file /\ file' = file /\ UNCHANGED <<storage, ledgerVars>>
        /\ phase' \in {"claimed", "off"} /\ (joined' => joined)
    BY <1>3 DEF Start, Finish, Throw, Interrupt, Fails, Exits
  <2> QED
    BY <2>1 DEF StorageInv, storage, ledgerVars
<1>4. CASE Abandon \/ Recover \/ Adopt \/ FindDeployment
  <2>1. /\ memory' = file' /\ memory'.issuerReady = memory.issuerReady
        /\ phase' = phase /\ phase \in {"claimed", "ready"}
        /\ UNCHANGED <<storage, joined, ledgerVars>>
    BY <1>0, <1>4 DEF Abandon, Recover, Adopt, FindDeployment, Persist, Journal
  <2> QED
    BY <2>1 DEF StorageInv, storage, ledgerVars
<1>5. CASE Prepare
  <2>1. /\ UNCHANGED <<memory, file, storage, ledgerVars>> /\ phase' = "ready"
        /\ joined' => secret
    BY <1>5 DEF Prepare
  <2> QED
    BY <2>1 DEF StorageInv, storage, ledgerVars
<1>6. CASE CreateKey
  <2>1. /\ UNCHANGED <<memory, file, secret, joined, ledgerVars>>
        /\ phase = "working" /\ phase' = "keyed"
    BY <1>6 DEF CreateKey
  <2>2. sends[Deploy] > 0
    BY <1>0, <2>1 DEF StorageInv
  <2> QED
    BY <2>1, <2>2 DEF StorageInv, ledgerVars
<1>7. CASE NoteKey
  <2>1. /\ memory' = file' /\ UNCHANGED <<storage, joined, ledgerVars>>
        /\ phase' = "working"
    BY <1>7 DEF NoteKey, Persist
  <2> QED
    BY <2>1 DEF StorageInv, storage, ledgerVars
<1>8. CASE StoreId
  <2>1. /\ memory' = memory /\ file' = memory /\ phase' = "stored"
        /\ UNCHANGED <<storage, joined, ledgerVars>>
    BY <1>8 DEF StoreId
  <2> QED
    BY <2>1 DEF StorageInv, storage, ledgerVars
<1>9. CASE StoreSecret
  <2>1. UNCHANGED <<memory, file, phase, joined, vault, ledgerVars>> /\ secret'
    BY <1>9 DEF StoreSecret, processVars
  <2> QED
    BY <2>1 DEF StorageInv, ledgerVars
<1>10. CASE FileReceipt
  <2>1. /\ phase = "finalised" /\ phase' \in {"ready", "working", "bound"}
        /\ UNCHANGED <<storage, ledgerVars>>
        /\ joined' => joined \/ ~memory.contract
    BY <1>10 DEF FileReceipt
  <2>2. memory'.issuerReady = file'.issuerReady
    BY <1>0, <1>10 DEF FileReceipt, Persist, StorageInv
  <2> QED
    BY <2>1, <2>2 DEF StorageInv, storage, ledgerVars
<1>11. ASSUME NEW s \in Step, BeginStep(s) PROVE StorageInv'
  <2>1. /\ memory' = file' /\ memory'.issuerReady = memory.issuerReady
        /\ memory'.pending = {s}
    BY <1>0, <1>11 DEF BeginStep, Persist, Journal
  <2>2. /\ phase' = "called" /\ UNCHANGED <<storage, joined, ledgerVars>>
        /\ s \in {Deploy, Revoke} \/ memory.issuerReady
    BY <1>11 DEF BeginStep, MayExecute
  <2> QED
    BY <2>1, <2>2 DEF StorageInv, storage, ledgerVars
<1>12. ASSUME NEW s \in Step, ClearStep(s) PROVE StorageInv'
  <2>1. /\ phase = "called" /\ phase' = "cleared" /\ memory.pending = {s}
        /\ s = Deploy \/ joined
        /\ UNCHANGED <<memory, file, storage, joined, ledgerVars>>
    BY <1>12 DEF ClearStep
  <2> QED
    BY <2>1 DEF StorageInv, storage, ledgerVars
<1>13. ASSUME NEW s \in Step, SendStep(s) PROVE StorageInv'
  <2>1. memory'.issuerReady = memory.issuerReady
    BY <1>0, <1>13 DEF SendStep, Journal
  <2>2. /\ phase' = "sent" /\ UNCHANGED <<file, storage, joined, final>>
        /\ \A t \in Step : sends[t] > 0 => sends'[t] > 0
    BY <1>0, <1>13 DEF SendStep
  <2>3. final \subseteq Step
    BY DEF RecordInv, JournalType
  <2> QED
    BY <2>1, <2>2, <2>3, RevokeIsNoProofStep DEF StorageInv, storage
<1>14. ASSUME NEW s \in Step, CompleteStep(s) PROVE StorageInv'
  <2>1. /\ memory' = file' /\ memory'.issuerReady = memory.issuerReady
        /\ memory'.contract = memory.contract
    BY <1>0, <1>14 DEF CompleteStep, Persist, Journal
  <2>2. /\ phase = "filed" /\ phase' = "finalised" /\ memory.pending = {s}
        /\ s = Deploy => secret
        /\ UNCHANGED <<storage, joined, ledgerVars>>
    BY <1>14 DEF CompleteStep
  <2>3. memory.contract \/ secret
    BY <1>0, <2>2 DEF Underway
  <2> QED
    BY <2>1, <2>2, <2>3 DEF StorageInv, storage, ledgerVars
<1>15. ASSUME NEW s \in Step, Finalise(s) PROVE StorageInv'
  <2>1. /\ UNCHANGED <<memory, file, storage, phase, joined, sends>>
        /\ final' = final \cup {s} /\ sends[s] > 0
    BY <1>15 DEF Finalise, FinaliseStep, processVars
  <2> QED
    BY <2>1 DEF StorageInv, storage
<1> QED
  BY <1>2, <1>3, <1>4, <1>5, <1>6, <1>7, <1>8, <1>9, <1>10, <1>11, <1>12, <1>13, <1>14, <1>15
  DEF Next, Run, World, Execute

\* In either dead end a call that is under way cannot leave any more.
LEMMA StrandedSends ==
  ASSUME RecordInv, StorageInv, NEW s \in Step, SendStep(s)
  PROVE  ~SecretIsLost /\ (KeyIsUnknown => s \notin ProofStep)
<1>1. /\ phase = "cleared" /\ memory.pending = {s}
      /\ sends[s] = 0
  BY DEF SendStep, Goes, RecordInv, CallInv
<1>2. ~SecretIsLost
  <2>1. CASE s = Deploy
    BY <1>1, <2>1 DEF StorageInv, SecretIsLost
  <2>2. CASE s # Deploy
    BY <1>1, <2>2 DEF StorageInv, SecretIsLost
  <2> QED
    BY <2>1, <2>2
<1>3. KeyIsUnknown => s \notin ProofStep
  <2> SUFFICES ASSUME KeyIsUnknown, s \in ProofStep PROVE FALSE
    OBVIOUS
  <2>1. CASE s = Deploy
    BY <1>1, <2>1 DEF StorageInv, KeyIsUnknown
  <2>2. CASE s # Deploy
    BY <1>1, <2>2, RevokeIsNoProofStep DEF StorageInv, KeyIsUnknown
  <2> QED
    BY <2>1, <2>2
<1> QED
  BY <1>2, <1>3

\* No step of the process, the server or the chain leads out of a dead end.
LEMMA StrandedStays ==
  ASSUME RecordInv, StorageInv, [Next]_vars
  PROVE  /\ KeyIsUnknown => KeyIsUnknown'
         /\ SecretIsLost => SecretIsLost'
<1>0. /\ memory \in Journal /\ file \in Journal
      /\ memory.issuerReady = file.issuerReady /\ memory.pending = file.pending
  BY DEF RecordInv, JournalType, SameJournal, StorageInv
<1> USE DEF Goes, Undisturbed
<1> DEFINE Waiting(p) == p \in {"sent", "stored", "filed"}
           Stays == /\ KeyIsUnknown => KeyIsUnknown'
                    /\ SecretIsLost => SecretIsLost'
<1> SUFFICES Stays
  OBVIOUS
<1>1. ASSUME UNCHANGED storage, Deploy \in final => Deploy \in final',
             file'.issuerReady = file.issuerReady, phase' = "keyed" => phase = "keyed",
             \/ ~Waiting(phase')
             \/ Waiting(phase) /\ memory'.pending = memory.pending
      PROVE  Stays
  BY <1>1 DEF storage, KeyIsUnknown, SecretIsLost
<1>2. CASE \/ Prepare \/ Bind \/ Source \/ ReportSent
           \/ LeaseEnds \/ Refresh \/ Resume \/ IssuerRevokes \/ NoteRevocation
           \/ UNCHANGED vars
  BY <1>1, <1>2 DEF Prepare, Bind, Source, ReportSent, LeaseEnds, Refresh, Resume,
       IssuerRevokes, NoteRevocation, vars, processVars, ledgerVars
<1>3. CASE Start \/ Finish \/ Throw \/ Interrupt
  BY <1>1, <1>3 DEF Start, Finish, Throw, Interrupt, Fails, Exits, ledgerVars
<1>4. CASE Abandon \/ Recover \/ Adopt \/ FindDeployment
  <2>1. /\ file'.issuerReady = file.issuerReady
        /\ phase' = phase /\ phase \in {"claimed", "ready"}
        /\ UNCHANGED <<storage, ledgerVars>>
    BY <1>0, <1>4 DEF Abandon, Recover, Adopt, FindDeployment, Persist, Journal
  <2> QED
    BY <1>1, <2>1 DEF ledgerVars
<1>5. CASE CreateKey
  BY <1>5 DEF CreateKey, KeyIsUnknown, SecretIsLost, ledgerVars
<1>6. CASE NoteKey
  <2>1. phase = "keyed" /\ phase' = "working" /\ UNCHANGED <<storage, ledgerVars>>
    BY <1>6 DEF NoteKey
  <2> QED
    BY <2>1 DEF KeyIsUnknown, SecretIsLost, storage, ledgerVars
<1>7. CASE StoreId
  BY <1>0, <1>1, <1>7 DEF StoreId, ledgerVars
<1>8. CASE StoreSecret
  BY <1>8 DEF StoreSecret, processVars, ledgerVars, KeyIsUnknown, SecretIsLost
<1>9. CASE FileReceipt
  <2>1. /\ phase' \in {"ready", "working", "bound"} /\ UNCHANGED <<storage, ledgerVars>>
    BY <1>9 DEF FileReceipt
  <2>2. CASE Persist([memory EXCEPT !.contract = TRUE])
    <3> file'.issuerReady = file.issuerReady
      BY <1>0, <2>2 DEF Persist, Journal
    <3> QED
      BY <1>1, <2>1 DEF ledgerVars
  <2>3. CASE UNCHANGED file
    BY <1>1, <2>1, <2>3 DEF ledgerVars
  <2> QED
    BY <1>9, <2>2, <2>3 DEF FileReceipt
<1>10. ASSUME NEW s \in Step, BeginStep(s) \/ ClearStep(s) \/ CompleteStep(s) PROVE Stays
  <2>1. /\ phase' \in {"called", "cleared", "finalised"} /\ UNCHANGED <<storage, ledgerVars>>
        /\ file'.issuerReady = file.issuerReady
    BY <1>0, <1>10 DEF BeginStep, ClearStep, CompleteStep, Persist, Journal
  <2> QED
    BY <1>1, <2>1 DEF ledgerVars
<1>11. ASSUME NEW s \in Step, SendStep(s) PROVE Stays
  <2>1. phase' = "sent" /\ UNCHANGED <<file, storage, final>>
    BY <1>11 DEF SendStep
  <2>2. ~SecretIsLost
    BY <1>11, StrandedSends
  <2> QED
    BY <2>1, <2>2 DEF KeyIsUnknown, storage
<1>12. ASSUME NEW s \in Step, Finalise(s) PROVE Stays
  <2>1. UNCHANGED <<memory, file, storage, phase>> /\ final \subseteq final'
    BY <1>12 DEF Finalise, FinaliseStep, processVars
  <2> QED
    BY <2>1 DEF KeyIsUnknown, SecretIsLost, storage
<1> HIDE DEF Stays
<1> QED
  BY <1>2, <1>3, <1>4, <1>5, <1>6, <1>7, <1>8, <1>9, <1>10, <1>11, <1>12
  DEF Next, Run, World, Execute

\* A job whose key or whose contract secret was lost in a crash sends nothing more
\* on the strength of it, whoever resumes it and whatever follows (IssuerVault.create,
\* join): the dead ends are safe, if final.
THEOREM StrandedJobIsSafe == Spec => StrandedJobSendsNothing
<1>1. InitExecutor => StorageInv
  BY DEF InitExecutor, InitLedger, StorageInv, EmptyJournal
<1>2. RecordInv /\ StorageInv /\ [Next]_vars => StorageInv'
  BY StorageNext
<1>3. RecordInv /\ StorageInv /\ [Next]_vars =>
        [/\ KeyIsUnknown => KeyIsUnknown' /\ \A s \in ProofStep : sends'[s] = sends[s]
         /\ SecretIsLost => SecretIsLost' /\ sends' = sends]_vars
  <2> SUFFICES ASSUME RecordInv, StorageInv, Next
               PROVE  /\ KeyIsUnknown => KeyIsUnknown' /\ \A s \in ProofStep : sends'[s] = sends[s]
                      /\ SecretIsLost => SecretIsLost' /\ sends' = sends
    OBVIOUS
  <2>1. ASSUME NEW s \in Step, SendStep(s)
        PROVE  /\ KeyIsUnknown => \A t \in ProofStep : sends'[t] = sends[t]
               /\ ~SecretIsLost
    <3>1. ~SecretIsLost /\ (KeyIsUnknown => s \notin ProofStep)
      BY <2>1, StrandedSends
    <3>2. sends \in [Step -> Nat] /\ sends' = [sends EXCEPT ![s] = @ + 1]
      BY <2>1 DEF SendStep, RecordInv, JournalType
    <3> QED
      BY <3>1, <3>2, RevokeIsNoProofStep
  <2>2. CASE UNCHANGED sends
    BY <2>2, StrandedStays
  <2>3. (\E s \in Step : SendStep(s)) \/ UNCHANGED sends
    <3>1. ASSUME NEW s \in Step, Finalise(s) PROVE UNCHANGED sends
      BY <3>1 DEF Finalise, FinaliseStep
    <3>2. ASSUME NEW s \in Step, Execute(s) PROVE SendStep(s) \/ UNCHANGED sends
      BY <3>2 DEF Execute, BeginStep, ClearStep, CompleteStep, ledgerVars
    <3> QED
      BY <3>1, <3>2
      DEF Next, Run, World, Start, Throw, Interrupt, Fails, Abandon, Recover, Adopt, Prepare,
          FindDeployment, Bind, Source, CreateKey, NoteKey, StoreId, ReportSent, StoreSecret,
          FileReceipt, Finish, LeaseEnds, Refresh, Resume, IssuerRevokes, NoteRevocation,
          ledgerVars
  <2> QED
    BY <2>1, <2>2, <2>3, StrandedStays
<1> QED
  BY <1>1, <1>2, <1>3, RecordInvariant, PTL DEF Spec, StrandedJobSendsNothing

-----------------------------------------------------------------------------
(***************************************************************************)
(* What follows from the ledger of steps alone.                            *)
(***************************************************************************)

\* No step reaches the network twice, and the chain holds the proof from its beginning
\* on, without a gap, and the revocation only of a contract that is deployed.
ChainIsInOrder ==
  /\ \A s \in Step : sends[s] <= 1
  /\ \A s \in final : /\ s # Revoke => 1..(s - 1) \subseteq final
                      /\ s = Revoke => Deploy \in final

\* What is on the way has its predecessors on the chain already.
SendsInv ==
  /\ sends \in [Step -> Nat]
  /\ final \subseteq Step
  /\ \A s \in Step :
       /\ sends[s] <= 1
       /\ sends[s] > 0 => IF s = Revoke THEN Deploy \in final ELSE 1..(s - 1) \subseteq final
  /\ \A s \in final : sends[s] > 0

\* Through every crash and restart of the executor the chain is in order (execute, and
\* the recovery that precedes it).
THEOREM ChainInOrder == Spec => []ChainIsInOrder
<1>1. InitLedger => SendsInv
  BY DEF InitLedger, SendsInv
<1>2. SendsInv /\ [NextLedger]_ledgerVars => SendsInv'
  <2> SUFFICES ASSUME SendsInv, [NextLedger]_ledgerVars PROVE SendsInv'
    OBVIOUS
  <2>1. CASE UNCHANGED ledgerVars
    BY <2>1 DEF SendsInv, ledgerVars
  <2>2. ASSUME NEW s \in Step, SendOnce(s) PROVE SendsInv'
    <3>1. /\ sends' \in [Step -> Nat] /\ sends'[s] = 1 /\ final' = final
          /\ \A t \in Step \ {s} : sends'[t] = sends[t]
      BY <2>2 DEF SendOnce, SendsInv
    <3>2. IF s = Revoke THEN Deploy \in final ELSE 1..(s - 1) \subseteq final
      BY <2>2 DEF SendOnce
    <3> QED
      BY <3>1, <3>2 DEF SendsInv
  <2>3. ASSUME NEW s \in Step, FinaliseStep(s) PROVE SendsInv'
    BY <2>3 DEF FinaliseStep, SendsInv
  <2> QED
    BY <2>1, <2>2, <2>3 DEF NextLedger
<1>3. SendsInv => ChainIsInOrder
  BY DEF SendsInv, ChainIsInOrder
<1> QED
  BY <1>1, <1>2, <1>3, ExecutorKeepsLedger, PTL DEF EveryStepOnce, LedgerSpec

-----------------------------------------------------------------------------
(***************************************************************************)
(* Where the two scripts differ: the recovered deployment.                 *)
(***************************************************************************)

\* A call to a contract that is made by a client with a connection to it.
CallsAreConnected ==
  phase = "called" /\ memory.pending # {Deploy} => joined

\* run-program-job.ts takes the address of a recovered deployment before it prepares
\* the client, so the client of a running process is connected to the contract that
\* the journal names, and a receipt of the deployment names one.
AdoptedInv ==
  family = "program" =>
    /\ phase \notin {"off", "claimed"} /\ memory.contract => joined
    /\ phase = "ready" /\ Deploy \in memory.completed => memory.contract

\* Only FindDeployment takes an address without a connection, and the program's script
\* never comes to it.
LEMMA AdoptedNext == RecordInv /\ AdoptedInv /\ [Next]_vars => AdoptedInv'
<1> SUFFICES ASSUME RecordInv, AdoptedInv, [Next]_vars PROVE AdoptedInv'
  OBVIOUS
<1>0. memory \in Journal /\ file \in Journal /\ (phase = "off" => memory = file)
  BY DEF RecordInv, JournalType, IdleInv
<1> USE DEF Goes, Undisturbed
<1>1. ASSUME family' = family, phase' \in {"off", "claimed"} PROVE AdoptedInv'
  BY <1>1 DEF AdoptedInv
<1>2. CASE Start \/ Abandon \/ Recover \/ Adopt \/ Finish \/ Throw \/ Interrupt
  BY <1>1, <1>2 DEF Start, Abandon, Recover, Adopt, Finish, Throw, Interrupt, Fails, Exits
<1>3. ASSUME UNCHANGED <<family, joined>>, memory'.contract = memory.contract,
             phase \notin {"off", "claimed"}, phase' # "ready"
      PROVE  AdoptedInv'
  BY <1>3 DEF AdoptedInv
<1>4. CASE Bind \/ Source \/ CreateKey \/ StoreId \/ ReportSent
  BY <1>3, <1>4 DEF Bind, Source, CreateKey, StoreId, ReportSent
<1>5. CASE NoteKey
  <2>1. memory'.contract = memory.contract
    BY <1>0, <1>5 DEF NoteKey, Persist, Journal
  <2> QED
    BY <1>3, <1>5, <2>1 DEF NoteKey
<1>6. ASSUME NEW s \in Step, Execute(s) PROVE AdoptedInv'
  <2>1. memory'.contract = memory.contract
    BY <1>0, <1>6 DEF Execute, BeginStep, ClearStep, SendStep, CompleteStep, Persist, Journal
  <2>2. /\ UNCHANGED <<family, joined>>
        /\ phase' \in {"called", "cleared", "sent", "finalised"}
        /\ phase \notin {"off", "claimed"}
    BY <1>6 DEF Execute, BeginStep, MayExecute, ClearStep, SendStep, CompleteStep
  <2> QED
    BY <1>3, <2>1, <2>2
<1>7. CASE Prepare
  BY <1>7 DEF Prepare, AdoptsContract, AdoptedInv
<1>8. CASE FindDeployment
  BY <1>8 DEF FindDeployment, AdoptedInv
<1>9. CASE FileReceipt
  <2>1. CASE memory.contract
    BY <1>3, <1>9, <2>1 DEF FileReceipt
  <2>2. CASE ~memory.contract
    <3>1. memory'.contract
      BY <1>0, <1>9, <2>2 DEF FileReceipt, Persist, Journal
    <3>2. joined'
      BY <1>9, <2>2 DEF FileReceipt
    <3> QED
      BY <3>1, <3>2 DEF AdoptedInv
  <2> QED
    BY <2>1, <2>2
<1>10. CASE StoreSecret \/ World \/ UNCHANGED vars
  <2>1. UNCHANGED <<family, memory, phase, joined>>
    BY <1>10 DEF StoreSecret, World, LeaseEnds, Refresh, Resume, IssuerRevokes, NoteRevocation,
                 Finalise, vars, processVars
  <2> QED
    BY <2>1 DEF AdoptedInv
<1> QED
  BY <1>2, <1>4, <1>5, <1>6, <1>7, <1>8, <1>9, <1>10 DEF Next, Run

\* A program job whose process died between the deployment and its receipt goes on with
\* a connected client (run-program-job.ts:44): the stop that InterruptedJobGoesOn shows
\* is the other script's alone.
THEOREM ProgramRecoveryJoins == Spec => [](family = "program" => CallsAreConnected)
<1>1. InitExecutor => AdoptedInv
  BY DEF InitExecutor, AdoptedInv
<1>2. RecordInv /\ AdoptedInv => (family = "program" => CallsAreConnected)
  BY DEF RecordInv, ContractInv, Underway, AdoptedInv, CallsAreConnected
<1> QED
  BY <1>1, <1>2, AdoptedNext, RecordInvariant, PTL DEF Spec
=============================================================================
