---------------------------- MODULE IssuerRequests ----------------------------
(***************************************************************************)
(* The separate issuer's ledger of one visitor (services/issuer/core.mjs): *)
(* sessions in which the visitor consents, the request each of them is     *)
(* spent on, the credential, and the commands it has answered, by their    *)
(* idempotency keys.  Every command is one SQLite transaction.             *)
(*                                                                         *)
(* The ledger's UNIQUE columns tie a request to its session and a          *)
(* credential to its request, so one Id names the three.                   *)
(***************************************************************************)
EXTENDS Integers

CONSTANTS
  Job,            \* the automatic issuances; each derives its keys from its own
  NoJob,
  IdentityLimit,  \* 12 in the code
  MaxRevision     \* bound on the revisions of a request

ASSUME IssuerAssumption ==
  /\ NoJob \notin Job
  /\ IdentityLimit \in Nat \ {0}
  /\ MaxRevision \in Nat \ {0, 1}

Id   == 1..IdentityLimit
NoId == 0

VARIABLES
  sessions,     \* [Id -> the identity session]
  requests,     \* [Id -> the request it was spent on]
  credentials,  \* [Id -> the credential's status]
  commands      \* [Key -> the answer given, NoId for a key that is new]

issuerVars == <<sessions, requests, credentials, commands>>

Session == [job : Job \cup {NoJob}, status : {"none", "pending", "confirmed", "consumed"}]
Request == [status   : {"none", "submitted", "needs_changes", "issued", "rejected", "cancelled"},
            revision : 0..MaxRevision,
            approver : {"none", "person", "automation"}]  \* told apart by `reason`

\* An approval's key is derived from the request and its revision, which is 1.
Key == ({"identity", "consent", "submit"} \X Job) \cup ({"approve"} \X Id)

Answered(key) == commands[key] # NoId
Answer(key, id) == commands' = [commands EXCEPT ![key] = id]

\* The visitor is new, or has opened as many sessions by hand as he may; one who has
\* opened some is one with a smaller limit.
InitIssuer ==
  /\ \E status \in {"none", "pending"} :
       sessions = [i \in Id |-> [job |-> NoJob, status |-> status]]
  /\ requests = [i \in Id |-> [status |-> "none", revision |-> 0, approver |-> "none"]]
  /\ credentials = [i \in Id |-> "none"]
  /\ commands = [key \in Key |-> NoId]

-----------------------------------------------------------------------------
(***************************************************************************)
(* Commands.  One that was answered before is answered the same again.     *)
(***************************************************************************)

Full == \A i \in Id : sessions[i].status # "none"

\* Ids are given out in order; the code draws them at random.
Unused(i) == sessions[i].status = "none" /\ \A k \in 1..(i - 1) : sessions[k].status # "none"

\* Mutant of OpenSession: the key is not looked up.
OpenSessionAgain(j, i) ==
  /\ Unused(i)
  /\ sessions' = [sessions EXCEPT ![i] = [job |-> j, status |-> "pending"]]
  /\ Answer(<<"identity", j>>, i)
  /\ UNCHANGED <<requests, credentials>>

OpenSession(j, i) ==
  \/ /\ commands[<<"identity", j>>] = i
     /\ UNCHANGED issuerVars
  \/ /\ ~Answered(<<"identity", j>>) /\ Unused(i)
     /\ sessions' = [sessions EXCEPT ![i] = [job |-> j, status |-> "pending"]]
     /\ Answer(<<"identity", j>>, i)
     /\ UNCHANGED <<requests, credentials>>

Confirm(j, i) ==
  \/ /\ commands[<<"consent", j>>] = i
     /\ UNCHANGED issuerVars
  \/ /\ ~Answered(<<"consent", j>>)
     /\ sessions[i].status = "pending"
     /\ sessions' = [sessions EXCEPT ![i].status = "confirmed"]
     /\ Answer(<<"consent", j>>, i)
     /\ UNCHANGED <<requests, credentials>>

Submit(j, i) ==
  \/ /\ commands[<<"submit", j>>] = i
     /\ UNCHANGED issuerVars
  \/ /\ ~Answered(<<"submit", j>>)
     /\ sessions[i].status = "confirmed"
     /\ sessions' = [sessions EXCEPT ![i].status = "consumed"]
     /\ requests' = [requests EXCEPT ![i] =
                       [status |-> "submitted", revision |-> 1, approver |-> "none"]]
     /\ Answer(<<"submit", j>>, i)
     /\ UNCHANGED credentials

\* A decision on the present revision; the credential is part of its transaction.
Decided(i, status, approver) ==
  /\ requests' = [requests EXCEPT ![i] =
                    [status |-> status, revision |-> @.revision + 1, approver |-> approver]]
  /\ credentials' = IF status = "issued" THEN [credentials EXCEPT ![i] = "active"] ELSE credentials

Decidable(i, revision) ==
  /\ requests[i].status = "submitted"
  /\ requests[i].revision = revision /\ revision < MaxRevision

\* Mutant of Approvable: the revision that was reviewed is not compared.
ApprovableUnseen(i) == requests[i].status = "submitted" /\ requests[i].revision < MaxRevision

\* What the automation saw was revision 1.
Approvable(i) == Decidable(i, 1)

Approve(i) ==
  \/ /\ Answered(<<"approve", i>>)
     /\ UNCHANGED issuerVars
  \/ /\ ~Answered(<<"approve", i>>) /\ Approvable(i)
     /\ Decided(i, "issued", "automation")
     /\ Answer(<<"approve", i>>, i)
     /\ UNCHANGED sessions

\* The visitor reviews, supplements and withdraws, each click with a key of its own
\* and the revision that the page shows.
Review(i) ==
  /\ Decidable(i, requests[i].revision)
  /\ \E status \in {"issued", "needs_changes", "rejected"} : Decided(i, status, "person")
  /\ UNCHANGED <<sessions, commands>>

Resubmit(i) ==
  /\ requests[i].status = "needs_changes" /\ requests[i].revision < MaxRevision
  /\ Decided(i, "submitted", "none")
  /\ UNCHANGED <<sessions, commands>>

Cancel(i) ==
  /\ requests[i].status \in {"submitted", "needs_changes"}
  /\ requests[i].revision < MaxRevision
  /\ Decided(i, "cancelled", "none")
  /\ UNCHANGED <<sessions, commands>>

Revoke(i) ==
  /\ credentials[i] = "active"
  /\ credentials' = [credentials EXCEPT ![i] = "revoked"]
  /\ UNCHANGED <<sessions, requests, commands>>
=============================================================================
