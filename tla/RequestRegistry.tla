---------------------------- MODULE RequestRegistry ----------------------------
(***************************************************************************)
(* What the proof contract promises an institution about its requests      *)
(* (docs/midnight-js-integration.md; contracts/test.mjs): a request is     *)
(* answered once at most, the answer stays, a request that was withdrawn   *)
(* or whose deadline passed is not answered any more, and an answer is one *)
(* that somebody vouches for at the moment it is given.                    *)
(***************************************************************************)
CONSTANT RequestId

VARIABLES
  posted,     \* the requests the institution has made
  withdrawn,  \* those it will not have answered, made or not
  lapsed,     \* those whose deadline has passed
  answers,    \* [RequestId -> {"none", "eligible", "ineligible"}]
  backed      \* an input: the <<request, answer>> pairs that are vouched for now

registryVars == <<posted, withdrawn, lapsed, answers>>

InitRegistry ==
  /\ posted = {} /\ withdrawn = {} /\ lapsed = {}
  /\ answers = [r \in RequestId |-> "none"]

Post(r) ==
  /\ r \notin posted \cup lapsed
  /\ posted' = posted \cup {r}
  /\ UNCHANGED <<withdrawn, lapsed, answers>>

Withdraw(r) ==
  /\ answers[r] = "none"
  /\ withdrawn' = withdrawn \cup {r}
  /\ UNCHANGED <<posted, lapsed, answers>>

\* Time passes for all requests together, and never back.
Lapse ==
  /\ lapsed \subseteq lapsed' /\ lapsed' \subseteq posted
  /\ UNCHANGED <<posted, withdrawn, answers>>

Answer(r) ==
  /\ r \in posted \ (withdrawn \cup lapsed)
  /\ answers[r] = "none"
  /\ \E answer \in {"eligible", "ineligible"} :
       /\ <<r, answer>> \in backed
       /\ answers' = [answers EXCEPT ![r] = answer]
  /\ UNCHANGED <<posted, withdrawn, lapsed>>

NextRegistry == Lapse \/ \E r \in RequestId : Post(r) \/ Withdraw(r) \/ Answer(r)

RegistrySpec == InitRegistry /\ [][NextRegistry]_registryVars
=============================================================================
