------------------------- MODULE ApplicationLedger -------------------------
(***************************************************************************)
(* What a workspace promises about the applications of a company, whoever  *)
(* reads, waits and writes it at the same time: applications go forward    *)
(* only, what is settled stays settled, an application is filed only when  *)
(* no other one of its policy is open, and nothing is presented or judged  *)
(* on a credential which the workspace knows to be revoked.                *)
(***************************************************************************)

EXTENDS TLAPS

CONSTANTS Request, Policy, PolicyOf

VARIABLES
  entry,   \* the stage of every request
  filed,   \* the requests a company filed as applications
  usable   \* the credential in the wallet is not known to be revoked

ledgerVars == <<entry, filed, usable>>

\* "lodged" waits for the institution, "outdated" waits for it in vain unless an
\* institution had begun to judge it, "past" was verified and is over.
Stage == {"none", "asked", "lodged", "outdated", "verified", "past", "rejected", "closed"}

Open == {"lodged", "outdated", "verified"}

\* A save may stand for several steps of one request, and time passes meanwhile.
Moves ==
  ({"none"} \X {"asked", "lodged", "outdated", "verified", "past", "rejected"})
    \cup ({"asked"} \X {"lodged", "outdated", "verified", "past", "rejected", "closed"})
    \cup ({"lodged", "outdated"} \X {"outdated", "verified", "past", "rejected", "closed"})
    \cup ({"verified"} \X {"past"})

\* Needs a credential: what presents a request or judges it.
Judged ==
  ({"none", "asked"} \X {"lodged", "outdated", "verified", "past", "rejected"})
    \cup ({"lodged", "outdated"} \X {"verified", "past", "rejected"})

LedgerInit ==
  /\ entry = [r \in Request |-> "none"]
  /\ filed = {}
  /\ usable = TRUE

Moved == {r \in Request : entry'[r] # entry[r]}

\* r is filed as an application: it was not presented before, and no other
\* request of its policy stays open.
Files(r) ==
  /\ entry[r] \in {"none", "asked"}
  /\ entry'[r] \notin {"none", "asked", "closed"}
  /\ \A q \in Request \ {r} : PolicyOf[q] = PolicyOf[r] => entry'[q] \notin Open

LedgerNext ==
  /\ entry' \in [Request -> Stage]
  /\ filed' \subseteq Request
  /\ usable' \in BOOLEAN
  /\ \A r \in Moved : <<entry[r], entry'[r]>> \in Moves
  /\ filed \subseteq filed'
  /\ \A r \in filed' \ filed : Files(r)
  /\ usable' => usable
  /\ \A r \in Moved : <<entry[r], entry'[r]>> \in Judged => usable

LedgerSpec == LedgerInit /\ [][LedgerNext]_ledgerVars

-----------------------------------------------------------------------------
\* One company has at most one open application for a policy.
OneOpenApplication ==
  \A r, q \in filed :
    /\ r # q
    /\ PolicyOf[r] = PolicyOf[q]
    => ~(entry[r] \in Open /\ entry[q] \in Open)

\* It follows from the moves alone: what was filed is never asked for again, and
\* what is filed finds nothing of its policy open.
THEOREM OneOpenHolds == LedgerSpec => []OneOpenApplication
<1> DEFINE Inv == /\ filed \subseteq Request
                  /\ \A r \in filed : entry[r] \notin {"none", "asked"}
                  /\ OneOpenApplication
<1>1. LedgerInit => Inv
  BY DEF LedgerInit, OneOpenApplication
<1>2. Inv /\ [LedgerNext]_ledgerVars => Inv'
  <2> SUFFICES ASSUME Inv, [LedgerNext]_ledgerVars
               PROVE  Inv'
    OBVIOUS
  <2>1. CASE LedgerNext
    <3>1. filed' \subseteq Request
      BY <2>1 DEF LedgerNext
    <3>2. ASSUME NEW r \in filed
          PROVE  /\ entry'[r] \notin {"none", "asked"}
                 /\ entry'[r] \in Open => entry[r] \in Open
      <4>1. CASE entry'[r] = entry[r]
        BY <4>1
      <4>2. CASE entry'[r] # entry[r]
        BY <2>1, <4>2 DEF LedgerNext, Moved, Moves, Open
      <4> QED BY <4>1, <4>2
    <3>3. ASSUME NEW r \in filed' \ filed
          PROVE  /\ entry'[r] \notin {"none", "asked"}
                 /\ \A q \in Request \ {r} : PolicyOf[q] = PolicyOf[r] => entry'[q] \notin Open
      BY <2>1 DEF LedgerNext, Files
    <3>4. ASSUME NEW r \in filed', NEW q \in filed', r # q, PolicyOf[r] = PolicyOf[q]
          PROVE  ~(entry'[r] \in Open /\ entry'[q] \in Open)
      <4>1. CASE r \in filed /\ q \in filed
        BY <3>2, <3>4, <4>1 DEF OneOpenApplication
      <4>2. CASE r \notin filed
        BY <3>1, <3>3, <3>4, <4>2
      <4>3. CASE q \notin filed
        BY <3>1, <3>3, <3>4, <4>3
      <4> QED BY <4>1, <4>2, <4>3
    <3>5. OneOpenApplication'
      BY <3>4 DEF OneOpenApplication
    <3> QED BY <3>1, <3>2, <3>3, <3>5
  <2>2. CASE UNCHANGED ledgerVars
    BY <2>2 DEF ledgerVars, OneOpenApplication
  <2> QED BY <2>1, <2>2
<1>3. Inv => OneOpenApplication
  OBVIOUS
<1> QED BY <1>1, <1>2, <1>3, PTL DEF LedgerSpec
=============================================================================
